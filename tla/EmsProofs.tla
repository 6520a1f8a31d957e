----------------------------- MODULE EmsProofs ------------------------------
(***************************************************************************)
(* What the operators of Ems.tla do to a table, for every size of the      *)
(* arrays, and theorems about the EMS functions: the handle, page, context *)
(* and name tables are always whole, a call that fails takes nothing away  *)
(* and one that succeeds leaves no stale mapping, and the functions        *)
(* implement the service of EmsService.  A table is sound when its chains  *)
(* are the descriptors in use; the inductive invariant EmsInv says so, and *)
(* the counts and partitions that the run checks follow from it.  AbsPage  *)
(* is a recursive function, so that its values are reached by UpTo of      *)
(* NatLemmas and not by unfolding it.                                      *)
(***************************************************************************)
EXTENDS Ems, NatLemmas, SequenceTheorems

(* The handle and descriptor arrays; the page behind a page.               *)
Tables == [hd : [Hdl -> [idx : Page \cup {Nil}, used : BOOLEAN, ss : Slot \cup {Nil}]],
           pd : [Page -> [next : Page \cup {Nil}, frame : Frame \cup {Nil}]],
           n  : Int]
Following(t, p) == IF p = Nil THEN Nil ELSE t.pd[p].next

(* What the assumption says of the sets the tables are made of.            *)
LEMMA Constants ==
  /\ EMSPagesMax \in Nat /\ NumHandles \in Nat /\ NumHandles > 0 /\ 0 \in Hdl
  /\ Nil \notin Page /\ Nil \notin Frame /\ Nil \notin Slot
  /\ IsFiniteSet(Page) /\ Cardinality(Page) = EMSPagesMax
<1>1. EMSPagesMax \in Nat /\ NumHandles \in Nat /\ NumHandles > 0 /\ Nil \notin Int /\ Nil \notin Frame
  BY EmsAssumption DEF EmsAssumption
<1>2. MaxState \in Nat
  BY EmsAssumption DEF EmsAssumption
<1>3. 0 \in Hdl /\ Nil \notin Page /\ Nil \notin Slot
  BY <1>1, <1>2 DEF Hdl, Page, Slot
<1>4. IsFiniteSet(Page) /\ Cardinality(Page) = EMSPagesMax
  BY <1>1, FS_Interval DEF Page
<1> QED BY <1>1, <1>3, <1>4

(* The pool can own finitely many frames.                                  *)
LEMMA FrameFinite == IsFiniteSet(Frame)
<1>1. /\ ConvFrames \in Seq(Frame) /\ IsFiniteSet(PoolFrames)
      /\ Frame = {ConvFrames[i] : i \in DOMAIN ConvFrames} \cup PoolFrames
  BY EmsAssumption DEF EmsAssumption, Frame
<1>2. PICK n, f : n = Len(ConvFrames) /\ f = ConvFrames
  OBVIOUS
<1>3. n \in Nat /\ DOMAIN f = 1 .. n /\ f \in [1 .. n -> Frame]
  BY <1>1, <1>2, LenProperties
<1> DEFINE T == {f[i] : i \in 1 .. n}
<1>4. f \in Surjection(1 .. n, T)
  <2>1. f \in [1 .. n -> T] /\ \A y \in T : \E x \in 1 .. n : f[x] = y
    BY <1>3
  <2> HIDE DEF T
  <2> QED BY <2>1 DEF Surjection
<1>5. IsFiniteSet(T)
  <2> HIDE DEF T
  <2>1. IsFiniteSet(1 .. n)
    BY <1>3, FS_Interval
  <2> QED BY <1>4, <2>1, FS_Surjection
<1>6. Frame = T \cup PoolFrames
  BY <1>1, <1>2, <1>3
<1> HIDE DEF T
<1> QED BY <1>1, <1>5, <1>6, FS_Union

(* AbsPage follows wNext from ehd_wIdx, and stays in the array or at Nil.  *)
LEMMA Walk ==
  ASSUME NEW t \in Tables, NEW g \in Hdl
  PROVE  /\ AbsPage(t, g, 0) = t.hd[g].idx
         /\ \A n \in 0 .. EMSPagesMax : AbsPage(t, g, n) \in Page \cup {Nil}
         /\ \A n \in 0 .. EMSPagesMax - 1 :
              AbsPage(t, g, n + 1) = Following(t, AbsPage(t, g, n))
<1> DEFINE M == EMSPagesMax
           X == Page \cup {Nil}
           Rec(f) == f = [k \in 0 .. M |-> IF k = 0 THEN t.hd[g].idx
                            ELSE IF f[k - 1] = Nil THEN Nil ELSE t.pd[f[k - 1]].next]
           Part(f, m) == /\ f[0] = t.hd[g].idx
                         /\ \A k \in 1 .. m : f[k] = Following(t, f[k - 1])
           P == {m \in 0 .. M : \E f \in [0 .. m -> X] : Part(f, m)}
<1>1. M \in Nat /\ t.hd[g].idx \in X /\ \A p \in Page : t.pd[p].next \in X
  BY Constants DEF Tables
<1>2. P \in SUBSET Nat /\ 0 \in P
  <2> DEFINE f0 == [k \in 0 .. 0 |-> t.hd[g].idx]
  <2>1. f0 \in [0 .. 0 -> X] /\ Part(f0, 0)
    BY <1>1
  <2>2. \E f \in [0 .. 0 -> X] : Part(f, 0)
    <3> HIDE DEF f0
    <3> QED BY <2>1
  <2> QED BY <2>2, <1>1
<1>3. ASSUME NEW m \in P, m < M PROVE m + 1 \in P
  <2>1. PICK f \in [0 .. m -> X] : Part(f, m)
    OBVIOUS
  <2> DEFINE h == [k \in 0 .. m + 1 |-> IF k = m + 1 THEN Following(t, f[m]) ELSE f[k]]
  <2>2. m \in Nat /\ m + 1 \in 0 .. M /\ f[m] \in X
    BY <1>1, <1>3
  <2>3. Following(t, f[m]) \in X
    BY <2>2, <1>1 DEF Following
  <2>4. h \in [0 .. m + 1 -> X]
    BY <2>2, <2>3
  <2>5. Part(h, m + 1)
    BY <2>1, <2>2
  <2> QED BY <2>2, <2>4, <2>5
<1>4. PICK f \in [0 .. M -> X] : Part(f, M)
  <2>1. M \in P
    <3> HIDE DEF P
    <3> QED BY <1>1, <1>2, <1>3, UpTo
  <2> QED BY <2>1
<1>5. Rec(f)
  BY <1>1, <1>4 DEF Following
<1>6. PICK at : at = CHOOSE x : Rec(x)
  OBVIOUS
<1>7. Rec(at)
  BY <1>5, <1>6
<1>8. \A n \in 0 .. M : AbsPage(t, g, n) = at[n]
  BY <1>1, <1>6 DEF AbsPage
<1>9. at[0] = t.hd[g].idx /\ \A n \in 0 .. M - 1 : at[n + 1] = Following(t, at[n])
  BY <1>1, <1>7 DEF Following
<1>10. \A n \in 0 .. M : at[n] \in X
  <2> DEFINE Q == {n \in 0 .. M : at[n] \in X}
  <2>1. Q \in SUBSET Nat /\ 0 \in Q
    BY <1>1, <1>9
  <2>2. ASSUME NEW n \in Q, n < M PROVE n + 1 \in Q
    <3>1. n \in 0 .. M - 1 /\ at[n] \in X
      BY <2>2, <1>1
    <3>2. at[n + 1] \in X
      BY <3>1, <1>1, <1>9 DEF Following
    <3> QED BY <3>1, <3>2, <1>1
  <2> HIDE DEF Q
  <2>3. 0 .. M \subseteq Q
    BY <1>1, <2>1, <2>2, UpTo
  <2> QED BY <2>3 DEF Q
<1> QED BY <1>1, <1>8, <1>9, <1>10

(* Whatever follows the chain from its head is AbsPage: so a lemma about a *)
(* changed table guesses the new chain and checks one step of it.          *)
LEMMA WalkUnique ==
  ASSUME NEW t \in Tables, NEW g \in Hdl, NEW q, NEW m \in 0 .. EMSPagesMax,
         q[0] = t.hd[g].idx, \A k \in 0 .. m - 1 : q[k + 1] = Following(t, q[k])
  PROVE  \A k \in 0 .. m : AbsPage(t, g, k) = q[k]
<1> DEFINE Q == {k \in 0 .. m : AbsPage(t, g, k) = q[k]}
<1>1. EMSPagesMax \in Nat /\ m \in Nat /\ m <= EMSPagesMax
  BY Constants
<1>2. AbsPage(t, g, 0) = t.hd[g].idx
  BY Walk
<1>3. \A k \in 0 .. m - 1 : AbsPage(t, g, k + 1) = Following(t, AbsPage(t, g, k))
  <2>1. \A k \in 0 .. m - 1 : k \in 0 .. EMSPagesMax - 1
    BY <1>1
  <2> QED BY <2>1, Walk
<1>4. Q \in SUBSET Nat /\ 0 \in Q
  BY <1>1, <1>2
<1>5. ASSUME NEW k \in Q, k < m PROVE k + 1 \in Q
  <2>1. k \in 0 .. m - 1 /\ k + 1 \in 0 .. m
    BY <1>5, <1>1
  <2> QED BY <2>1, <1>3
<1>6. 0 .. m \subseteq Q
  <2> HIDE DEF Q
  <2> QED BY <1>1, <1>4, <1>5, UpTo
<1> QED BY <1>6

(* The chains have no page in common and no cycle, a descriptor has a      *)
(* frame exactly when a chain reaches it, the count is right, and no frame *)
(* is in two descriptors.                                                  *)
Sound(t) ==
  /\ t \in Tables
  /\ \A g, h \in Hdl : \A i, j \in 0 .. EMSPagesMax :
       AbsPage(t, g, i) # Nil /\ AbsPage(t, g, i) = AbsPage(t, h, j) => g = h /\ i = j
  /\ \A p \in Page : t.pd[p].frame # Nil <=>
                       \E g \in Hdl : \E i \in 0 .. EMSPagesMax : AbsPage(t, g, i) = p
  /\ \A p \in Page : t.pd[p].frame = Nil => t.pd[p] = NoPage
  /\ t.n = Cardinality({p \in Page : t.pd[p].frame # Nil})
  /\ \A p, q \in Page : t.pd[p].frame # Nil /\ t.pd[p].frame = t.pd[q].frame => p = q

(* A chain of a sound table ends, and PageCount is where it ends: a chain  *)
(* that never ended would put more pages than there are into the array.    *)
LEMMA ChainLength ==
  ASSUME NEW t, Sound(t), NEW g \in Hdl
  PROVE  /\ PageCount(t, g) \in 0 .. EMSPagesMax
         /\ \A n \in 0 .. EMSPagesMax :
              /\ n < PageCount(t, g) => AbsPage(t, g, n) \in Page
              /\ n >= PageCount(t, g) => AbsPage(t, g, n) = Nil
<1> DEFINE M == EMSPagesMax
           S == {n \in 0 .. M : AbsPage(t, g, n) = Nil}
<1>0. M \in Nat /\ Nil \notin Page /\ IsFiniteSet(Page) /\ Cardinality(Page) = M
  BY Constants
<1>1. t \in Tables
  BY DEF Sound
<1>2. /\ \A n \in 0 .. M : AbsPage(t, g, n) \in Page \cup {Nil}
      /\ \A n \in 0 .. M - 1 : AbsPage(t, g, n + 1) = Following(t, AbsPage(t, g, n))
  BY <1>1, Walk
<1>3. S # {}
  <2> SUFFICES ASSUME S = {} PROVE FALSE
    OBVIOUS
  <2> DEFINE f == [n \in 0 .. M |-> AbsPage(t, g, n)]
  <2>1. f \in [0 .. M -> Page]
    BY <1>2
  <2>2. IsFiniteSet(0 .. M) /\ Cardinality(0 .. M) = M + 1
    BY <1>0, FS_Interval
  <2>3. M < M + 1
    BY <1>0
  <2>4. PICK x, y \in 0 .. M : x # y /\ f[x] = f[y]
    <3> HIDE DEF f, M
    <3> QED BY <1>0, <2>1, <2>2, <2>3, FS_PigeonHole
  <2> QED BY <2>1, <2>4, <1>0 DEF Sound
<1>4. PICK L \in S : \A n \in S : L <= n
  <2>1. S \in SUBSET Nat
    BY <1>0
  <2> HIDE DEF S
  <2> QED BY <1>3, <2>1, LeastNat
<1>5. L \in 0 .. M /\ AbsPage(t, g, L) = Nil /\ \A n \in 0 .. M : n < L => AbsPage(t, g, n) \in Page
  BY <1>4, <1>2, <1>0
<1>6. \A n \in 0 .. M : n >= L => AbsPage(t, g, n) = Nil
  <2> DEFINE Q == {k \in 0 .. M - L : AbsPage(t, g, L + k) = Nil}
  <2>1. Q \in SUBSET Nat /\ 0 \in Q /\ M - L \in Nat
    BY <1>0, <1>5
  <2>2. ASSUME NEW k \in Q, k < M - L PROVE k + 1 \in Q
    <3>1. L + k \in 0 .. M - 1 /\ k + 1 \in 0 .. M - L /\ (L + k) + 1 = L + (k + 1)
      BY <1>0, <1>5, <2>2
    <3>2. AbsPage(t, g, (L + k) + 1) = Following(t, AbsPage(t, g, L + k))
      BY <3>1, <1>2
    <3>3. AbsPage(t, g, (L + k) + 1) = Nil
      BY <3>2 DEF Following
    <3> QED BY <3>1, <3>3
  <2>3. 0 .. M - L \subseteq Q
    <3> HIDE DEF Q
    <3> QED BY <2>1, <2>2, UpTo
  <2>4. ASSUME NEW n \in 0 .. M, n >= L PROVE AbsPage(t, g, n) = Nil
    <3>1. n - L \in 0 .. M - L /\ L + (n - L) = n
      BY <2>4, <1>0, <1>5
    <3> QED BY <3>1, <2>3
  <2> QED BY <2>4
<1>7. PageCount(t, g) = L
  <2>1. {n \in 0 .. M - 1 : AbsPage(t, g, n) # Nil} = 0 .. L - 1
    BY <1>0, <1>5, <1>6
  <2>2. Cardinality(0 .. L - 1) = L
    BY <1>5, <1>0, FS_Interval
  <2> QED BY <2>1, <2>2 DEF PageCount
<1> QED BY <1>5, <1>6, <1>7

(* The release loop of 45h and 51h: logical pages from n on are gone, all  *)
(* others are where they were.                                             *)
LEMMA Releasing ==
  ASSUME NEW t, Sound(t), NEW g \in Hdl, NEW n \in 0 .. PageCount(t, g),
         NEW t2, t2 = ReleaseFrom(t, g, n)
  PROVE  /\ Sound(t2)
         /\ \A h \in Hdl : /\ t2.hd[h].used = t.hd[h].used /\ t2.hd[h].ss = t.hd[h].ss
                           /\ h # g => t2.hd[h].idx = t.hd[h].idx
         /\ n = 0 => t2.hd[g].idx = Nil
         /\ \A h \in Hdl, k \in 0 .. EMSPagesMax :
              AbsPage(t2, h, k) = IF h = g /\ k >= n THEN Nil ELSE AbsPage(t, h, k)
         /\ \A p \in Page : t2.pd[p].frame \in {Nil, t.pd[p].frame}
<1> DEFINE M == EMSPagesMax
           gone == {AbsPage(t, g, k) : k \in n .. M} \ {Nil}
           edge == IF n = 0 THEN Nil ELSE AbsPage(t, g, n - 1)
<1>0. /\ M \in Nat /\ Nil \notin Page /\ Nil \notin Frame /\ Nil \notin Slot
      /\ IsFiniteSet(Page)
  BY Constants
<1>1. t \in Tables /\ n \in 0 .. M /\ n \in Nat
  BY ChainLength, <1>0 DEF Sound
<1>2. \A h \in Hdl : \A k \in 0 .. M : AbsPage(t, h, k) \in Page \cup {Nil}
  BY <1>1, Walk
<1>3. \A h, k \in Hdl : \A i, j \in 0 .. M :
        AbsPage(t, h, i) # Nil /\ AbsPage(t, h, i) = AbsPage(t, k, j) => h = k /\ i = j
  BY DEF Sound
<1>4. gone \subseteq Page
  BY <1>0, <1>1, <1>2
<1>5. n > 0 => edge \in Page /\ edge \notin gone
  <2>1. ASSUME n > 0 PROVE edge \in Page
    <3>1. n - 1 \in 0 .. M /\ n - 1 < PageCount(t, g)
      BY <2>1, <1>0, <1>1, ChainLength
    <3> QED BY <3>1, <2>1, ChainLength
  <2>2. ASSUME n > 0, edge \in gone PROVE FALSE
    <3>1. PICK k \in n .. M : edge = AbsPage(t, g, k)
      BY <2>2
    <3>2. k \in 0 .. M /\ n - 1 \in 0 .. M /\ k # n - 1
      BY <1>0, <1>1, <2>2
    <3> QED BY <3>1, <3>2, <2>1, <2>2, <1>0, <1>3
  <2> QED BY <2>1, <2>2
<1>6. /\ t2.hd = IF n = 0 THEN [t.hd EXCEPT ![g].idx = Nil] ELSE t.hd
      /\ t2.pd = [p \in Page |-> IF p \in gone THEN NoPage
                    ELSE IF n > 0 /\ p = edge THEN [t.pd[p] EXCEPT !.next = Nil]
                    ELSE t.pd[p]]
      /\ t2.n = t.n - Cardinality({p \in gone : t.pd[p].frame # Nil})
      /\ t2 = [hd |-> t2.hd, pd |-> t2.pd, n |-> t2.n]
  <2>1. CASE n = 0
    BY <2>1, <1>0, <1>1 DEF ReleaseFrom, Link, Tables
  <2>2. CASE n > 0
    BY <2>2, <1>0, <1>1, <1>5 DEF ReleaseFrom, Link, Tables
  <2> QED BY <2>1, <2>2, <1>1
<1> HIDE DEF gone, edge
<1>7. /\ \A p \in Page : t2.pd[p] = IF p \in gone THEN NoPage
                    ELSE IF n > 0 /\ p = edge THEN [t.pd[p] EXCEPT !.next = Nil]
                    ELSE t.pd[p]
      /\ \A p \in Page : /\ t.pd[p].next \in Page \cup {Nil} /\ t.pd[p].frame \in Frame \cup {Nil}
                         /\ t.pd[p] = [next |-> t.pd[p].next, frame |-> t.pd[p].frame]
  BY <1>1, <1>6 DEF Tables
<1>8. \A p \in Page : /\ t2.pd[p].frame = IF p \in gone THEN Nil ELSE t.pd[p].frame
                      /\ t2.pd[p].next = IF p \in gone \/ (n > 0 /\ p = edge) THEN Nil ELSE t.pd[p].next
                      /\ t2.pd[p] \in [next : Page \cup {Nil}, frame : Frame \cup {Nil}]
  <2> TAKE p \in Page
  <2>1. CASE p \in gone
    <3>1. t2.pd[p] = [next |-> Nil, frame |-> Nil]
      BY <2>1, <1>7 DEF NoPage
    <3> QED BY <2>1, <3>1
  <2>2. CASE p \notin gone /\ n > 0 /\ p = edge
    <3>1. t2.pd[p] = [next |-> Nil, frame |-> t.pd[p].frame]
      BY <2>2, <1>7
    <3> QED BY <2>2, <3>1, <1>7
  <2>3. CASE p \notin gone /\ ~ (n > 0 /\ p = edge)
    <3>1. t2.pd[p] = t.pd[p]
      BY <2>3, <1>7
    <3>2. t.pd[p] \in [next : Page \cup {Nil}, frame : Frame \cup {Nil}]
      BY <1>1 DEF Tables
    <3> QED BY <2>3, <3>1, <3>2
  <2> QED BY <2>1, <2>2, <2>3
<1>9. /\ \A h \in Hdl : t2.hd[h] = [idx |-> IF n = 0 /\ h = g THEN Nil ELSE t.hd[h].idx,
                                    used |-> t.hd[h].used, ss |-> t.hd[h].ss]
      /\ t2.hd \in [Hdl -> [idx : Page \cup {Nil}, used : BOOLEAN, ss : Slot \cup {Nil}]]
  BY <1>1, <1>6 DEF Tables
<1>16. \A h \in Hdl : /\ t2.hd[h].idx = IF n = 0 /\ h = g THEN Nil ELSE t.hd[h].idx
                      /\ t2.hd[h].used = t.hd[h].used /\ t2.hd[h].ss = t.hd[h].ss
  <2>1. CASE n = 0
    BY <2>1, <1>1, <1>6 DEF Tables
  <2>2. CASE n # 0
    BY <2>2, <1>6
  <2> QED BY <2>1, <2>2
<1>10. t2 \in Tables
  <2>1. t2.n \in Int
    <3>1. Cardinality({p \in gone : t.pd[p].frame # Nil}) \in Nat
      BY <1>0, <1>4, FS_Subset, FS_CardinalityType
    <3> QED BY <3>1, <1>1, <1>6 DEF Tables
  <2>2. t2.pd \in [Page -> [next : Page \cup {Nil}, frame : Frame \cup {Nil}]]
    BY <1>6, <1>8
  <2> QED BY <2>1, <2>2, <1>6, <1>9 DEF Tables

<1> DEFINE q(h) == [k \in 0 .. M |-> IF h = g /\ k >= n THEN Nil ELSE AbsPage(t, h, k)]
<1>11. ASSUME NEW h \in Hdl
       PROVE  \A k \in 0 .. M : AbsPage(t2, h, k) = q(h)[k]
  <2>0. /\ AbsPage(t, h, 0) = t.hd[h].idx
        /\ \A k \in 0 .. M - 1 : AbsPage(t, h, k + 1) = Following(t, AbsPage(t, h, k))
    BY <1>1, Walk
  <2>1. q(h)[0] = t2.hd[h].idx
    BY <2>0, <1>0, <1>1, <1>16
  <2>2. ASSUME NEW k \in 0 .. M - 1, ~ (h = g /\ k + 1 >= n)
        PROVE  q(h)[k + 1] = Following(t2, q(h)[k])
    <3>0. k \in 0 .. M /\ k + 1 \in 0 .. M /\ ~ (h = g /\ k >= n)
      BY <1>0, <1>1, <2>2
    <3>1. q(h)[k] = AbsPage(t, h, k) /\ q(h)[k + 1] = AbsPage(t, h, k + 1)
      BY <3>0, <2>2
    <3>2. CASE AbsPage(t, h, k) = Nil
      BY <3>0, <3>1, <3>2, <2>0 DEF Following
    <3>3. CASE AbsPage(t, h, k) # Nil
      <4>1. AbsPage(t, h, k) \in Page
        BY <3>0, <3>3, <1>2
      <4>2. AbsPage(t, h, k) \notin gone
        BY <3>0, <3>3, <1>0, <1>1, <1>3 DEF gone
      <4>3. ~ (n > 0 /\ AbsPage(t, h, k) = edge)
        <5>1. SUFFICES ASSUME n > 0, AbsPage(t, h, k) = AbsPage(t, g, n - 1) PROVE FALSE
          BY DEF edge
        <5>2. n - 1 \in 0 .. M
          BY <5>1, <1>0, <1>1
        <5>3. h = g /\ k = n - 1
          BY <5>1, <5>2, <3>0, <3>3, <1>3
        <5> QED BY <5>3, <2>2, <1>1
      <4>4. t2.pd[AbsPage(t, h, k)].next = t.pd[AbsPage(t, h, k)].next
        BY <4>1, <4>2, <4>3, <1>8
      <4> QED BY <4>4, <3>1, <3>3, <2>0 DEF Following
    <3> QED BY <3>2, <3>3
  <2>3. ASSUME NEW k \in 0 .. M - 1, h = g, k + 1 >= n
        PROVE  q(h)[k + 1] = Following(t2, q(h)[k])
    <3>0. k \in 0 .. M /\ k + 1 \in 0 .. M
      BY <1>0
    <3>1. q(h)[k + 1] = Nil
      BY <3>0, <2>3
    <3>2. CASE k >= n
      <4>1. q(h)[k] = Nil
        BY <3>0, <3>2, <2>3
      <4> QED BY <3>1, <4>1 DEF Following
    <3>3. CASE k < n
      <4>1. n > 0 /\ k = n - 1
        BY <3>3, <2>3, <1>1
      <4>2. q(h)[k] = edge
        BY <3>0, <3>3, <2>3, <4>1, <1>1 DEF edge
      <4>3. edge \in Page /\ t2.pd[edge].next = Nil
        BY <4>1, <1>5, <1>8
      <4> QED BY <3>1, <4>2, <4>3, <1>0 DEF Following
    <3> QED BY <3>2, <3>3, <1>1
  <2>4. \A k \in 0 .. M - 1 : q(h)[k + 1] = Following(t2, q(h)[k])
    BY <2>2, <2>3
  <2>5. M \in 0 .. M
    BY <1>0
  <2> HIDE DEF q
  <2> QED BY <2>1, <2>4, <2>5, <1>10, WalkUnique
<1>12. \A h \in Hdl, k \in 0 .. M :
         AbsPage(t2, h, k) = IF h = g /\ k >= n THEN Nil ELSE AbsPage(t, h, k)
  BY <1>11
<1>13. Sound(t2)
  <2>1. ASSUME NEW h \in Hdl, NEW k \in Hdl, NEW i \in 0 .. M, NEW j \in 0 .. M,
               AbsPage(t2, h, i) # Nil, AbsPage(t2, h, i) = AbsPage(t2, k, j)
        PROVE  h = k /\ i = j
    BY <2>1, <1>12, <1>3
  <2>2. ASSUME NEW p \in Page
        PROVE  t2.pd[p].frame # Nil <=> \E h \in Hdl : \E i \in 0 .. M : AbsPage(t2, h, i) = p
    <3>1. ASSUME t2.pd[p].frame # Nil PROVE \E h \in Hdl : \E i \in 0 .. M : AbsPage(t2, h, i) = p
      <4>1. p \notin gone /\ t.pd[p].frame # Nil
        BY <3>1, <1>8
      <4>2. PICK h \in Hdl, i \in 0 .. M : AbsPage(t, h, i) = p
        BY <4>1 DEF Sound
      <4>3. ~ (h = g /\ i >= n)
        BY <4>1, <4>2, <1>0, <1>1 DEF gone
      <4> QED BY <4>2, <4>3, <1>12
    <3>2. ASSUME NEW h \in Hdl, NEW i \in 0 .. M, AbsPage(t2, h, i) = p PROVE t2.pd[p].frame # Nil
      <4>1. AbsPage(t, h, i) = p /\ ~ (h = g /\ i >= n)
        BY <3>2, <1>0, <1>12
      <4>2. p \notin gone
        BY <4>1, <1>0, <1>1, <1>3 DEF gone
      <4>3. t.pd[p].frame # Nil
        BY <4>1 DEF Sound
      <4> QED BY <4>2, <4>3, <1>8
    <3> QED BY <3>1, <3>2
  <2>3. ASSUME NEW p \in Page, t2.pd[p].frame = Nil PROVE t2.pd[p] = NoPage
    <3>1. CASE p \in gone
      BY <3>1, <1>7
    <3>2. CASE p \notin gone
      <4>1. t.pd[p].frame = Nil
        BY <3>2, <2>3, <1>8
      <4>2. t.pd[p] = NoPage
        BY <4>1 DEF Sound
      <4>3. ~ (n > 0 /\ p = edge)
        <5>1. SUFFICES ASSUME n > 0, p = edge PROVE FALSE
          OBVIOUS
        <5>2. n - 1 \in 0 .. M /\ p = AbsPage(t, g, n - 1)
          BY <5>1, <1>0, <1>1 DEF edge
        <5> QED BY <5>2, <4>1 DEF Sound
      <4> QED BY <3>2, <4>2, <4>3, <1>7
    <3> QED BY <3>1, <3>2
  <2>4. t2.n = Cardinality({p \in Page : t2.pd[p].frame # Nil})
    <3> DEFINE A == {p \in Page : t.pd[p].frame # Nil}
               B == {p \in gone : t.pd[p].frame # Nil}
    <3>1. {p \in Page : t2.pd[p].frame # Nil} = A \ B
      BY <1>8
    <3>2. A \cap B = B
      BY <1>4
    <3>3. IsFiniteSet(A)
      BY <1>0, FS_Subset
    <3>4. Cardinality(A \ B) = Cardinality(A) - Cardinality(B)
      <4> HIDE DEF A, B
      <4> QED BY <3>2, <3>3, FS_Difference
    <3>5. t.n = Cardinality(A)
      BY DEF Sound
    <3> QED BY <3>1, <3>4, <3>5, <1>6
  <2>5. ASSUME NEW p \in Page, NEW r \in Page, t2.pd[p].frame # Nil, t2.pd[p].frame = t2.pd[r].frame
        PROVE  p = r
    <3>1. t.pd[p].frame # Nil /\ t.pd[p].frame = t.pd[r].frame
      BY <2>5, <1>8
    <3> QED BY <3>1 DEF Sound
  <2> QED BY <2>1, <2>2, <2>3, <2>4, <2>5, <1>10 DEF Sound
<1>14. /\ \A h \in Hdl : /\ t2.hd[h].used = t.hd[h].used /\ t2.hd[h].ss = t.hd[h].ss
                         /\ h # g => t2.hd[h].idx = t.hd[h].idx
       /\ n = 0 => t2.hd[g].idx = Nil
  BY <1>16
<1>15. \A p \in Page : t2.pd[p].frame \in {Nil, t.pd[p].frame}
  BY <1>8
<1> QED BY <1>12, <1>13, <1>14, <1>15

(* One turn of the loop in AllocateEMSPages.                               *)
Appended(t, g, f) ==
  [Link(t, g, LastPage(t, g), FirstFree(t)) EXCEPT !.pd[FirstFree(t)].frame = f, !.n = @ + 1]

(* One turn gives the handle one page more, behind its last one.           *)
LEMMA Appending ==
  ASSUME NEW t, Sound(t), NEW g \in Hdl, NEW f \in Frame, FreePages(t) # {},
         \A p \in Page : t.pd[p].frame # f,
         NEW t2, t2 = Appended(t, g, f)
  PROVE  /\ Sound(t2)
         /\ \A h \in Hdl : /\ t2.hd[h].used = t.hd[h].used /\ t2.hd[h].ss = t.hd[h].ss
                           /\ h # g => t2.hd[h].idx = t.hd[h].idx
         /\ PageCount(t2, g) = PageCount(t, g) + 1
         /\ LastPage(t2, g) = FirstFree(t)
         /\ \A h \in Hdl, k \in 0 .. EMSPagesMax :
              AbsPage(t2, h, k) = IF h = g /\ k = PageCount(t, g) THEN FirstFree(t)
                                  ELSE AbsPage(t, h, k)
         /\ \A p \in Page : t2.pd[p].frame = IF p = FirstFree(t) THEN f ELSE t.pd[p].frame
         /\ FirstFree(t) \in FreePages(t) /\ t.pd[FirstFree(t)].frame = Nil
         /\ FreePages(t2) = FreePages(t) \ {FirstFree(t)}
         /\ t2.n = t.n + 1
<1> DEFINE M == EMSPagesMax
<1>0. /\ M \in Nat /\ Nil \notin Page /\ Nil \notin Frame /\ Nil \notin Slot
      /\ IsFiniteSet(Page) /\ Cardinality(Page) = M /\ Page \in SUBSET Nat
  BY Constants DEF Page
<1>1. t \in Tables /\ f # Nil
  BY <1>0 DEF Sound
<1>2. \A h \in Hdl : \A k \in 0 .. M : AbsPage(t, h, k) \in Page \cup {Nil}
  BY <1>1, Walk
<1>3. \A h, k \in Hdl : \A i, j \in 0 .. M :
        AbsPage(t, h, i) # Nil /\ AbsPage(t, h, i) = AbsPage(t, k, j) => h = k /\ i = j
  BY DEF Sound
<1>4. PICK p : p = FirstFree(t)
  OBVIOUS
<1>5. p \in FreePages(t)
  <2>1. FreePages(t) \in SUBSET Nat
    BY <1>0 DEF FreePages
  <2>2. \E x \in FreePages(t) : \A y \in FreePages(t) : x <= y
    BY <2>1, LeastNat
  <2> QED BY <2>2, <1>4 DEF FirstFree
<1>6. p \in Page /\ t.pd[p] = NoPage /\ t.pd[p].frame = Nil /\ t.pd[p].next = Nil
  BY <1>5 DEF FreePages, NoPage
<1>7. \A h \in Hdl : \A k \in 0 .. M : AbsPage(t, h, k) # p
  BY <1>6 DEF Sound
<1>8. PICK L : L = PageCount(t, g)
  OBVIOUS
<1>9. /\ L \in 0 .. M
      /\ \A k \in 0 .. M : k < L => AbsPage(t, g, k) \in Page
      /\ \A k \in 0 .. M : k >= L => AbsPage(t, g, k) = Nil
  BY <1>8, ChainLength
<1>10. L < M
  <2> SUFFICES ASSUME L = M PROVE FALSE
    BY <1>0, <1>9
  <2> DEFINE c == [k \in 0 .. M - 1 |-> AbsPage(t, g, k)]
             rest == Page \ {p}
  <2>1. c \in [0 .. M - 1 -> rest]
    <3>1. ASSUME NEW k \in 0 .. M - 1 PROVE AbsPage(t, g, k) \in rest
      <4>1. k \in 0 .. M /\ k < L
        BY <1>0
      <4> QED BY <4>1, <1>7, <1>9
    <3> QED BY <3>1
  <2>2. IsFiniteSet(0 .. M - 1) /\ Cardinality(0 .. M - 1) = M
    <3>1. M - 1 \in Int /\ 0 \in Int
      BY <1>0
    <3>2. /\ IsFiniteSet(0 .. M - 1)
          /\ Cardinality(0 .. M - 1) = IF 0 > M - 1 THEN 0 ELSE (M - 1) - 0 + 1
      BY <3>1, FS_Interval
    <3> QED BY <1>0, <3>2
  <2>3. IsFiniteSet(rest) /\ Cardinality(rest) = M - 1
    BY <1>0, <1>6, FS_RemoveElement
  <2>4. M - 1 < M
    BY <1>0
  <2>5. PICK x, y \in 0 .. M - 1 : x # y /\ c[x] = c[y]
    <3> HIDE DEF c, M, rest
    <3> QED BY <2>1, <2>2, <2>3, <2>4, FS_PigeonHole
  <2>6. x \in 0 .. M /\ y \in 0 .. M /\ AbsPage(t, g, x) = AbsPage(t, g, y)
    BY <1>0, <2>5
  <2>7. AbsPage(t, g, x) # Nil
    BY <2>1, <1>0
  <2> QED BY <2>5, <2>6, <2>7, <1>3
<1>11. PICK last : last = LastPage(t, g)
  OBVIOUS
<1>12. /\ L = 0 => last = Nil
       /\ L > 0 => last = AbsPage(t, g, L - 1) /\ last \in Page /\ last # p
  <2>1. L > 0 => L - 1 \in 0 .. M /\ L - 1 < L
    BY <1>0, <1>9
  <2>2. /\ L = 0 => last = Nil
        /\ L > 0 => last = AbsPage(t, g, L - 1)
    BY <1>9, <1>8, <1>11 DEF LastPage
  <2> QED BY <2>1, <2>2, <1>7, <1>9
<1>13. /\ t2.hd = IF L = 0 THEN [t.hd EXCEPT ![g].idx = p] ELSE t.hd
       /\ t2.pd = [x \in Page |->
            IF x = p THEN [next |-> Nil, frame |-> f]
            ELSE IF L > 0 /\ x = last THEN [next |-> p, frame |-> t.pd[x].frame]
            ELSE t.pd[x]]
       /\ t2.n = t.n + 1
       /\ t2 = [hd |-> t2.hd, pd |-> t2.pd, n |-> t2.n]
  <2>0. t2 = [Link(t, g, last, p) EXCEPT !.pd[p].frame = f, !.n = @ + 1]
    BY <1>4, <1>11 DEF Appended
  <2>4. ASSUME NEW a, NEW b, NEW c \in Int, NEW lk, lk = [hd |-> a, pd |-> b, n |-> c],
               t2 = [lk EXCEPT !.pd[p].frame = f, !.n = @ + 1]
        PROVE  /\ t2.hd = a /\ t2.pd = [b EXCEPT ![p].frame = f] /\ t2.n = c + 1
               /\ t2 = [hd |-> t2.hd, pd |-> t2.pd, n |-> t2.n]
    BY <2>4
  <2>5. t.n \in Int
    BY <1>1 DEF Tables
  <2>1. CASE L = 0
    <3>1. Link(t, g, last, p) = [hd |-> [t.hd EXCEPT ![g].idx = p], pd |-> t.pd, n |-> t.n]
      BY <2>1, <1>1, <1>12 DEF Link, Tables
    <3>2. [t.pd EXCEPT ![p].frame = f] = [x \in Page |-> IF x = p THEN [next |-> Nil, frame |-> f] ELSE t.pd[x]]
      BY <1>1, <1>6 DEF Tables, NoPage
    <3>3. /\ t2.hd = [t.hd EXCEPT ![g].idx = p] /\ t2.pd = [t.pd EXCEPT ![p].frame = f]
          /\ t2.n = t.n + 1 /\ t2 = [hd |-> t2.hd, pd |-> t2.pd, n |-> t2.n]
      <4>1. PICK a, b, lk : a = [t.hd EXCEPT ![g].idx = p] /\ b = t.pd /\ lk = Link(t, g, last, p)
        OBVIOUS
      <4>2. lk = [hd |-> a, pd |-> b, n |-> t.n] /\ t2 = [lk EXCEPT !.pd[p].frame = f, !.n = @ + 1]
        BY <4>1, <3>1, <2>0
      <4>3. /\ t2.hd = a /\ t2.pd = [b EXCEPT ![p].frame = f] /\ t2.n = t.n + 1
            /\ t2 = [hd |-> t2.hd, pd |-> t2.pd, n |-> t2.n]
        BY <4>2, <2>4, <2>5
      <4> QED BY <4>1, <4>3
    <3> QED BY <2>1, <3>2, <3>3
  <2>2. CASE L > 0
    <3>1. Link(t, g, last, p) = [hd |-> t.hd, pd |-> [t.pd EXCEPT ![last].next = p], n |-> t.n]
      BY <2>2, <1>0, <1>1, <1>12 DEF Link, Tables
    <3>2. [[t.pd EXCEPT ![last].next = p] EXCEPT ![p].frame = f]
            = [x \in Page |->
            IF x = p THEN [next |-> Nil, frame |-> f]
            ELSE IF x = last THEN [next |-> p, frame |-> t.pd[x].frame]
            ELSE t.pd[x]]
      BY <1>1, <1>6, <1>12, <2>2 DEF Tables, NoPage
    <3>3. /\ t2.hd = t.hd /\ t2.pd = [[t.pd EXCEPT ![last].next = p] EXCEPT ![p].frame = f]
          /\ t2.n = t.n + 1 /\ t2 = [hd |-> t2.hd, pd |-> t2.pd, n |-> t2.n]
      <4>1. PICK a, b, lk : a = t.hd /\ b = [t.pd EXCEPT ![last].next = p] /\ lk = Link(t, g, last, p)
        OBVIOUS
      <4>2. lk = [hd |-> a, pd |-> b, n |-> t.n] /\ t2 = [lk EXCEPT !.pd[p].frame = f, !.n = @ + 1]
        BY <4>1, <3>1, <2>0
      <4>3. /\ t2.hd = a /\ t2.pd = [b EXCEPT ![p].frame = f] /\ t2.n = t.n + 1
            /\ t2 = [hd |-> t2.hd, pd |-> t2.pd, n |-> t2.n]
        BY <4>2, <2>4, <2>5
      <4> QED BY <4>1, <4>3
    <3> QED BY <2>2, <3>2, <3>3
  <2> QED BY <2>1, <2>2, <1>9, <1>0
<1>14. \A x \in Page :
         /\ t2.pd[x] \in [next : Page \cup {Nil}, frame : Frame \cup {Nil}]
         /\ t2.pd[x].frame = IF x = p THEN f ELSE t.pd[x].frame
         /\ t2.pd[x].next = IF x = p THEN Nil ELSE IF L > 0 /\ x = last THEN p ELSE t.pd[x].next
  <2> TAKE x \in Page
  <2>0. t.pd[x] \in [next : Page \cup {Nil}, frame : Frame \cup {Nil}]
    BY <1>1 DEF Tables
  <2>1. CASE x = p
    <3>1. t2.pd[x] = [next |-> Nil, frame |-> f]
      BY <2>1, <1>13
    <3> QED BY <2>1, <3>1
  <2>2. CASE x # p /\ L > 0 /\ x = last
    <3>1. t2.pd[x] = [next |-> p, frame |-> t.pd[x].frame]
      BY <2>2, <1>13
    <3> QED BY <2>0, <2>2, <3>1, <1>6
  <2>3. CASE x # p /\ ~ (L > 0 /\ x = last)
    <3>1. t2.pd[x] = t.pd[x]
      BY <2>3, <1>13
    <3> QED BY <2>0, <2>3, <3>1
  <2> QED BY <2>1, <2>2, <2>3
<1>15. \A h \in Hdl : /\ t2.hd[h].idx = IF L = 0 /\ h = g THEN p ELSE t.hd[h].idx
                      /\ t2.hd[h].used = t.hd[h].used /\ t2.hd[h].ss = t.hd[h].ss
  <2>1. CASE L = 0
    BY <2>1, <1>1, <1>13 DEF Tables
  <2>2. CASE L # 0
    BY <2>2, <1>13
  <2> QED BY <2>1, <2>2
<1>16. t2 \in Tables
  <2>1. t2.hd \in [Hdl -> [idx : Page \cup {Nil}, used : BOOLEAN, ss : Slot \cup {Nil}]]
    BY <1>1, <1>6, <1>13 DEF Tables
  <2>2. t2.pd \in [Page -> [next : Page \cup {Nil}, frame : Frame \cup {Nil}]]
    BY <1>13, <1>14
  <2>3. t2.n \in Int
    BY <1>1, <1>13 DEF Tables
  <2> QED BY <2>1, <2>2, <2>3, <1>13 DEF Tables
<1> DEFINE q(h) == [k \in 0 .. M |-> IF h = g /\ k = L THEN p ELSE AbsPage(t, h, k)]
<1>17. ASSUME NEW h \in Hdl
       PROVE  \A k \in 0 .. M : AbsPage(t2, h, k) = q(h)[k]
  <2>0. /\ AbsPage(t, h, 0) = t.hd[h].idx
        /\ \A k \in 0 .. M - 1 : AbsPage(t, h, k + 1) = Following(t, AbsPage(t, h, k))
    BY <1>1, Walk
  <2>1. q(h)[0] = t2.hd[h].idx
    BY <2>0, <1>0, <1>9, <1>15
  <2>2. ASSUME NEW k \in 0 .. M - 1, ~ (h = g /\ k + 1 \in {L, L + 1})
        PROVE  q(h)[k + 1] = Following(t2, q(h)[k])
    <3>0. k \in 0 .. M /\ k + 1 \in 0 .. M /\ ~ (h = g /\ k = L) /\ ~ (h = g /\ k + 1 = L)
      BY <1>0, <1>9, <2>2
    <3>1. q(h)[k] = AbsPage(t, h, k) /\ q(h)[k + 1] = AbsPage(t, h, k + 1)
      BY <3>0
    <3>2. CASE AbsPage(t, h, k) = Nil
      BY <3>1, <3>2, <2>0 DEF Following
    <3>3. CASE AbsPage(t, h, k) # Nil
      <4>1. AbsPage(t, h, k) \in Page /\ AbsPage(t, h, k) # p
        BY <3>0, <3>3, <1>2, <1>7
      <4>2. ~ (L > 0 /\ AbsPage(t, h, k) = last)
        <5>1. SUFFICES ASSUME L > 0, AbsPage(t, h, k) = AbsPage(t, g, L - 1) PROVE FALSE
          BY <1>12
        <5>2. L - 1 \in 0 .. M
          BY <5>1, <1>0, <1>9
        <5>3. h = g /\ k = L - 1
          BY <5>1, <5>2, <3>0, <3>3, <1>3
        <5> QED BY <5>3, <3>0, <1>9
      <4>3. t2.pd[AbsPage(t, h, k)].next = t.pd[AbsPage(t, h, k)].next
        BY <4>1, <4>2, <1>14
      <4> QED BY <4>3, <3>1, <3>3, <2>0 DEF Following
    <3> QED BY <3>2, <3>3
  <2>3. ASSUME NEW k \in 0 .. M - 1, h = g, k + 1 = L
        PROVE  q(h)[k + 1] = Following(t2, q(h)[k])
    <3>0. k \in 0 .. M /\ k + 1 \in 0 .. M /\ L > 0 /\ k = L - 1 /\ k # L
      BY <1>0, <1>9, <2>3
    <3>1. q(h)[k + 1] = p /\ q(h)[k] = last
      BY <3>0, <2>3, <1>12
    <3>2. last \in Page /\ t2.pd[last].next = p
      BY <3>0, <1>12, <1>14
    <3> QED BY <3>1, <3>2, <1>0 DEF Following
  <2>4. ASSUME NEW k \in 0 .. M - 1, h = g, k = L
        PROVE  q(h)[k + 1] = Following(t2, q(h)[k])
    <3>0. k \in 0 .. M /\ k + 1 \in 0 .. M /\ k + 1 # L /\ k + 1 >= L
      BY <1>0, <1>9, <2>4
    <3>1. q(h)[k + 1] = Nil /\ q(h)[k] = p
      BY <3>0, <2>4, <1>9
    <3>2. t2.pd[p].next = Nil
      BY <1>6, <1>14
    <3> QED BY <3>1, <3>2 DEF Following
  <2>5. \A k \in 0 .. M - 1 : q(h)[k + 1] = Following(t2, q(h)[k])
    <3>1. ASSUME NEW k \in 0 .. M - 1, k + 1 = L + 1 PROVE k = L
      BY <3>1, <1>0, <1>9
    <3> HIDE DEF q
    <3> QED BY <2>2, <2>3, <2>4, <3>1
  <2>6. M \in 0 .. M
    BY <1>0
  <2> HIDE DEF q
  <2> QED BY <2>1, <2>5, <2>6, <1>16, WalkUnique
<1>18. \A h \in Hdl, k \in 0 .. M :
         AbsPage(t2, h, k) = IF h = g /\ k = L THEN p ELSE AbsPage(t, h, k)
  BY <1>17
<1>19. Sound(t2)
  <2>1. ASSUME NEW h \in Hdl, NEW k \in Hdl, NEW i \in 0 .. M, NEW j \in 0 .. M,
               AbsPage(t2, h, i) # Nil, AbsPage(t2, h, i) = AbsPage(t2, k, j)
        PROVE  h = k /\ i = j
    BY <2>1, <1>18, <1>3, <1>7
  <2>2. ASSUME NEW x \in Page
        PROVE  t2.pd[x].frame # Nil <=> \E h \in Hdl : \E i \in 0 .. M : AbsPage(t2, h, i) = x
    <3>1. CASE x = p
      <4>1. AbsPage(t2, g, L) = p
        BY <1>9, <1>18
      <4> QED BY <4>1, <3>1, <1>1, <1>9, <1>14
    <3>2. CASE x # p
      <4>1. \A h \in Hdl, i \in 0 .. M : AbsPage(t2, h, i) = x <=> AbsPage(t, h, i) = x
        BY <3>2, <1>0, <1>9, <1>18
      <4>2. t2.pd[x].frame = t.pd[x].frame
        BY <3>2, <1>14
      <4> QED BY <4>1, <4>2 DEF Sound
    <3> QED BY <3>1, <3>2
  <2>3. ASSUME NEW x \in Page, t2.pd[x].frame = Nil PROVE t2.pd[x] = NoPage
    <3>1. x # p /\ t.pd[x].frame = Nil
      BY <2>3, <1>1, <1>14
    <3>2. t.pd[x] = NoPage
      BY <3>1 DEF Sound
    <3>3. ~ (L > 0 /\ x = last)
      <4>1. SUFFICES ASSUME L > 0, x = last PROVE FALSE
        OBVIOUS
      <4>2. L - 1 \in 0 .. M /\ x = AbsPage(t, g, L - 1)
        BY <4>1, <1>0, <1>9, <1>12
      <4> QED BY <4>2, <3>1 DEF Sound
    <3> QED BY <3>1, <3>2, <3>3, <1>13
  <2>4. t2.n = Cardinality({x \in Page : t2.pd[x].frame # Nil})
    <3> DEFINE A == {x \in Page : t.pd[x].frame # Nil}
    <3>1. {x \in Page : t2.pd[x].frame # Nil} = A \cup {p}
      BY <1>1, <1>6, <1>14
    <3>2. p \notin A /\ IsFiniteSet(A)
      BY <1>0, <1>6, FS_Subset
    <3>3. Cardinality(A \cup {p}) = Cardinality(A) + 1
      <4> HIDE DEF A
      <4> QED BY <3>2, FS_AddElement
    <3>4. t.n = Cardinality(A)
      BY DEF Sound
    <3> QED BY <3>1, <3>3, <3>4, <1>13
  <2>5. ASSUME NEW x \in Page, NEW y \in Page, t2.pd[x].frame # Nil, t2.pd[x].frame = t2.pd[y].frame
        PROVE  x = y
    <3>1. CASE x = p \/ y = p
      BY <3>1, <2>5, <1>14
    <3>2. CASE x # p /\ y # p
      <4>1. t.pd[x].frame # Nil /\ t.pd[x].frame = t.pd[y].frame
        BY <3>2, <2>5, <1>14
      <4> QED BY <4>1 DEF Sound
    <3> QED BY <3>1, <3>2
  <2> QED BY <2>1, <2>2, <2>3, <2>4, <2>5, <1>16 DEF Sound
<1>20. PageCount(t2, g) = L + 1
  <2>1. {k \in 0 .. M - 1 : AbsPage(t2, g, k) # Nil} = 0 .. L
    <3>1. \A k \in 0 .. M - 1 : AbsPage(t2, g, k) # Nil <=> k \in 0 .. L
      <4> TAKE k \in 0 .. M - 1
      <4>1. k \in 0 .. M /\ AbsPage(t2, g, k) = IF k = L THEN p ELSE AbsPage(t, g, k)
        BY <1>0, <1>18
      <4>2. CASE k < L
        <5>1. k # L /\ k \in 0 .. L
          BY <4>2, <1>9
        <5> QED BY <4>1, <4>2, <5>1, <1>0, <1>9
      <4>3. CASE k = L
        BY <4>1, <4>3, <1>0, <1>6, <1>9
      <4>4. CASE k > L
        <5>1. k # L /\ k \notin 0 .. L /\ k >= L
          BY <4>4, <1>9
        <5> QED BY <4>1, <4>4, <5>1, <1>9
      <4> QED BY <4>2, <4>3, <4>4, <1>9
    <3>2. 0 .. L \subseteq 0 .. M - 1
      BY <1>0, <1>9, <1>10
    <3> QED BY <3>1, <3>2
  <2>2. Cardinality(0 .. L) = L + 1
    BY <1>9, FS_Interval
  <2> QED BY <2>1, <2>2 DEF PageCount
<1>21. LastPage(t2, g) = p
  <2>1. L + 1 # 0 /\ (L + 1) - 1 = L
    BY <1>9
  <2>2. AbsPage(t2, g, L) = p
    BY <1>9, <1>18
  <2> QED BY <2>1, <2>2, <1>20 DEF LastPage
<1>22. FreePages(t2) = FreePages(t) \ {p}
  <2>1. \A x \in Page : t.pd[x] = NoPage <=> t.pd[x].frame = Nil
    BY DEF Sound, NoPage
  <2>2. \A x \in Page : t2.pd[x] = NoPage <=> t2.pd[x].frame = Nil
    BY <1>19 DEF Sound, NoPage
  <2> QED BY <2>1, <2>2, <1>1, <1>14 DEF FreePages
<1>23. \A h \in Hdl : /\ t2.hd[h].used = t.hd[h].used /\ t2.hd[h].ss = t.hd[h].ss
                      /\ h # g => t2.hd[h].idx = t.hd[h].idx
  BY <1>15
<1>24. \A h \in Hdl, k \in 0 .. EMSPagesMax :
         AbsPage(t2, h, k) = IF h = g /\ k = PageCount(t, g) THEN FirstFree(t) ELSE AbsPage(t, h, k)
  BY <1>18, <1>4, <1>8
<1>25. \A x \in Page : t2.pd[x].frame = IF x = FirstFree(t) THEN f ELSE t.pd[x].frame
  BY <1>14, <1>4
<1>26. PageCount(t2, g) = PageCount(t, g) + 1 /\ LastPage(t2, g) = FirstFree(t) /\ t2.n = t.n + 1
  BY <1>4, <1>8, <1>13, <1>20, <1>21
<1>27. /\ FirstFree(t) \in FreePages(t) /\ t.pd[FirstFree(t)].frame = Nil
       /\ FreePages(t2) = FreePages(t) \ {FirstFree(t)}
  BY <1>4, <1>5, <1>6, <1>22
<1> QED BY <1>19, <1>23, <1>24, <1>25, <1>26, <1>27

(* The loop with the descriptor to link behind.                            *)
After(x, g, f) ==
  [t |-> [Link(x.t, g, x.last, FirstFree(x.t)) EXCEPT !.pd[FirstFree(x.t)].frame = f, !.n = @ + 1],
   last |-> FirstFree(x.t)]

(* AllocateEMSPages is that loop, run over all frames.                     *)
LEMMA AllocationLoop ==
  ASSUME NEW t, NEW g, NEW page, NEW fr, Len(fr) \in Nat
  PROVE  \E got : /\ got[0] = [t |-> t, last |-> page]
                  /\ \A i \in 1 .. Len(fr) : got[i] = After(got[i - 1], g, fr[i])
                  /\ AllocateEMSPages(t, g, page, fr) = got[Len(fr)].t
<1> DEFINE K == Len(fr)
           base == [t |-> t, last |-> page]
           Rec(f, m) == f = [i \in 0 .. m |-> IF i = 0 THEN base ELSE After(f[i - 1], g, fr[i])]
           P == {m \in 0 .. K : \E f : Rec(f, m)}
<1>1. P \in SUBSET Nat /\ 0 \in P
  <2>1. ASSUME NEW b PROVE \E f : f = [i \in 0 .. 0 |-> IF i = 0 THEN b ELSE After(f[i - 1], g, fr[i])]
    <3>1. PICK f : f = [i \in 0 .. 0 |-> b]
      OBVIOUS
    <3>2. f = [i \in 0 .. 0 |-> IF i = 0 THEN b ELSE After(f[i - 1], g, fr[i])]
      BY <3>1
    <3> QED BY <3>2
  <2>2. \E f : Rec(f, 0)
    <3> HIDE DEF base
    <3> QED BY <2>1
  <2> QED BY <2>2
<1>2. ASSUME NEW m \in P, m < K PROVE m + 1 \in P
  <2>1. PICK f : Rec(f, m)
    OBVIOUS
  <2> HIDE DEF base
  <2>2. PICK h : h = [i \in 0 .. m + 1 |-> IF i = m + 1 THEN After(f[m], g, fr[m + 1]) ELSE f[i]]
    OBVIOUS
  <2>3. m \in Nat /\ m + 1 \in 0 .. K
    BY <1>2
  <2>4. \A i \in 0 .. m : h[i] = f[i]
    BY <2>2, <2>3
  <2>5. \A i \in 0 .. m + 1 : h[i] = IF i = 0 THEN base ELSE After(h[i - 1], g, fr[i])
    <3> TAKE i \in 0 .. m + 1
    <3>1. CASE i = m + 1
      <4>1. h[i] = After(f[m], g, fr[i]) /\ i # 0 /\ i - 1 = m /\ h[m] = f[m]
        BY <2>2, <2>3, <2>4, <3>1
      <4> QED BY <4>1
    <3>2. CASE i \in 0 .. m
      <4>1. h[i] = f[i] /\ f[i] = IF i = 0 THEN base ELSE After(f[i - 1], g, fr[i])
        BY <2>1, <2>4, <3>2
      <4>2. i # 0 => i - 1 \in 0 .. m
        BY <2>3, <3>2
      <4> QED BY <4>1, <4>2, <2>4
    <3> QED BY <3>1, <3>2, <2>3
  <2>6. h = [i \in 0 .. m + 1 |-> h[i]]
    BY <2>2
  <2>7. Rec(h, m + 1)
    BY <2>5, <2>6
  <2> QED BY <2>3, <2>7
<1>3. K \in P
  <2> HIDE DEF P
  <2>1. 0 .. K \subseteq P
    BY <1>1, <1>2, UpTo
  <2> QED BY <2>1
<1>4. PICK got : got = CHOOSE f : Rec(f, K)
  OBVIOUS
<1>5. Rec(got, K)
  BY <1>3, <1>4
<1>6. AllocateEMSPages(t, g, page, fr) = got[K].t
  BY <1>4 DEF AllocateEMSPages, After
<1>7. got[0] = base /\ \A i \in 1 .. K : got[i] = After(got[i - 1], g, fr[i])
  BY <1>5
<1> QED BY <1>6, <1>7

(* EMSPagesUsed and the free descriptors add up to the size of the array.  *)
LEMMA FreeCount ==
  ASSUME NEW t, Sound(t)
  PROVE  /\ IsFiniteSet(FreePages(t)) /\ t.n \in 0 .. EMSPagesMax
         /\ Cardinality(FreePages(t)) = EMSPagesMax - t.n
         /\ t.n = Cardinality({p \in Page : t.pd[p] # NoPage})
<1> DEFINE A == {p \in Page : t.pd[p].frame # Nil}
<1>0. IsFiniteSet(Page) /\ Cardinality(Page) = EMSPagesMax /\ EMSPagesMax \in Nat
  BY Constants
<1>1. \A p \in Page : t.pd[p] = NoPage <=> t.pd[p].frame = Nil
  BY DEF Sound, NoPage
<1>2. FreePages(t) = Page \ A /\ A = {p \in Page : t.pd[p] # NoPage}
  BY <1>1 DEF FreePages
<1>3. t.n = Cardinality(A)
  BY DEF Sound
<1>4. Page \cap A = A /\ A \in SUBSET Page
  OBVIOUS
<1> HIDE DEF A
<1>5. IsFiniteSet(A) /\ Cardinality(A) \in Nat /\ Cardinality(A) <= EMSPagesMax
  BY <1>0, <1>4, FS_Subset, FS_CardinalityType
<1>6. /\ IsFiniteSet(Page \ A)
      /\ Cardinality(Page \ A) = EMSPagesMax - Cardinality(A)
  BY <1>0, <1>4, FS_Difference
<1> QED BY <1>0, <1>2, <1>3, <1>5, <1>6

(* The chain of g has m more pages that show the frames fr; nothing else   *)
(* has changed.                                                            *)
Grown(t, t2, g, fr, m) ==
  /\ Sound(t2)
  /\ \A h \in Hdl : /\ t2.hd[h].used = t.hd[h].used /\ t2.hd[h].ss = t.hd[h].ss
                    /\ h # g => t2.hd[h].idx = t.hd[h].idx
  /\ PageCount(t2, g) = PageCount(t, g) + m
  /\ \A h \in Hdl : \A k \in 0 .. EMSPagesMax :
       h # g \/ k < PageCount(t, g) => AbsPage(t2, h, k) = AbsPage(t, h, k)
  /\ \A p \in Page : t.pd[p].frame # Nil => t2.pd[p].frame = t.pd[p].frame
  /\ \A p \in Page : t2.pd[p].frame = t.pd[p].frame \/ \E i \in 1 .. m : t2.pd[p].frame = fr[i]
  /\ \A i \in 1 .. m : t2.pd[AbsPage(t2, g, PageCount(t, g) + i - 1)].frame = fr[i]
  /\ t2.n = t.n + m

(* One more turn of the loop.                                              *)
LEMMA GrownByOne ==
  ASSUME NEW t, Sound(t), NEW g \in Hdl, NEW fr, NEW m \in Nat, NEW x, Grown(t, x, g, fr, m),
         NEW t2, t2 = Appended(x, g, fr[m + 1]), fr[m + 1] \in Frame, FreePages(x) # {},
         \A p \in Page : x.pd[p].frame # fr[m + 1]
  PROVE  Grown(t, t2, g, fr, m + 1) /\ LastPage(t2, g) = FirstFree(x)
<1> DEFINE M == EMSPagesMax
<1>1. Sound(x)
  BY DEF Grown
<1>2. PICK p, L : p = FirstFree(x) /\ L = PageCount(t, g)
  OBVIOUS
<1>3. M \in Nat /\ L \in 0 .. M
  BY <1>2, ChainLength, Constants
<1>4. PageCount(x, g) = L + m /\ L + m \in 0 .. M
  BY <1>1, <1>2, ChainLength DEF Grown
<1>5. /\ Sound(t2)
      /\ \A h \in Hdl : /\ t2.hd[h].used = x.hd[h].used /\ t2.hd[h].ss = x.hd[h].ss
                        /\ h # g => t2.hd[h].idx = x.hd[h].idx
      /\ PageCount(t2, g) = L + m + 1
      /\ LastPage(t2, g) = p
      /\ \A h \in Hdl, k \in 0 .. M :
           AbsPage(t2, h, k) = IF h = g /\ k = L + m THEN p ELSE AbsPage(x, h, k)
      /\ \A y \in Page : t2.pd[y].frame = IF y = p THEN fr[m + 1] ELSE x.pd[y].frame
      /\ p \in FreePages(x) /\ x.pd[p].frame = Nil
      /\ t2.n = x.n + 1
  BY <1>1, <1>2, <1>4, Appending
<1>6. p \in Page
  BY <1>5 DEF FreePages
<1>7. \A h \in Hdl : /\ t2.hd[h].used = t.hd[h].used /\ t2.hd[h].ss = t.hd[h].ss
                     /\ h # g => t2.hd[h].idx = t.hd[h].idx
  BY <1>5 DEF Grown
<1>8. PageCount(t2, g) = PageCount(t, g) + (m + 1) /\ t2.n = t.n + (m + 1)
  <2>1. x.n = t.n + m
    BY DEF Grown
  <2>2. t.n \in 0 .. EMSPagesMax
    BY FreeCount
  <2> QED BY <1>2, <1>3, <1>5, <2>1, <2>2
<1>9. \A h \in Hdl : \A k \in 0 .. M : h # g \/ k < L => AbsPage(t2, h, k) = AbsPage(t, h, k)
  <2> TAKE h \in Hdl
  <2> TAKE k \in 0 .. M
  <2> HAVE h # g \/ k < L
  <2>1. ~ (h = g /\ k = L + m)
    BY <1>3
  <2>2. AbsPage(x, h, k) = AbsPage(t, h, k)
    BY <1>2 DEF Grown
  <2> QED BY <2>1, <2>2, <1>5
<1>10. \A y \in Page : t.pd[y].frame # Nil => t2.pd[y].frame = t.pd[y].frame
  <2> TAKE y \in Page
  <2> HAVE t.pd[y].frame # Nil
  <2>1. x.pd[y].frame = t.pd[y].frame
    BY DEF Grown
  <2> QED BY <2>1, <1>5
<1>11. \A y \in Page : t2.pd[y].frame = t.pd[y].frame \/ \E i \in 1 .. m + 1 : t2.pd[y].frame = fr[i]
  <2> TAKE y \in Page
  <2>1. CASE y = p
    <3>1. m + 1 \in 1 .. m + 1
      OBVIOUS
    <3> QED BY <2>1, <3>1, <1>5
  <2>2. CASE y # p
    <3>1. t2.pd[y].frame = x.pd[y].frame
      BY <2>2, <1>5
    <3>2. x.pd[y].frame = t.pd[y].frame \/ \E i \in 1 .. m : x.pd[y].frame = fr[i]
      BY DEF Grown
    <3>3. 1 .. m \subseteq 1 .. m + 1
      OBVIOUS
    <3> QED BY <3>1, <3>2, <3>3
  <2> QED BY <2>1, <2>2
<1>12. \A i \in 1 .. m + 1 : t2.pd[AbsPage(t2, g, L + i - 1)].frame = fr[i]
  <2> TAKE i \in 1 .. m + 1
  <2>1. L + i - 1 \in 0 .. M
    BY <1>3, <1>4
  <2>2. CASE i = m + 1
    <3>1. L + i - 1 = L + m
      BY <2>2, <1>3
    <3>2. AbsPage(t2, g, L + i - 1) = p
      BY <2>1, <3>1, <1>5
    <3> QED BY <3>2, <2>2, <1>5, <1>6
  <2>3. CASE i # m + 1
    <3>1. i \in 1 .. m /\ L + i - 1 # L + m /\ L + i - 1 < PageCount(x, g)
      BY <2>3, <1>3, <1>4
    <3>2. AbsPage(t2, g, L + i - 1) = AbsPage(x, g, L + i - 1)
      BY <2>1, <3>1, <1>5
    <3>3. AbsPage(x, g, L + i - 1) \in Page
      BY <2>1, <3>1, <1>1, ChainLength
    <3>4. x.pd[AbsPage(x, g, L + i - 1)].frame = fr[i]
      BY <3>1, <1>2 DEF Grown
    <3>5. x.pd[AbsPage(x, g, L + i - 1)].frame # Nil
      BY <3>3, <2>1, <1>1 DEF Sound
    <3> QED BY <3>2, <3>3, <3>4, <3>5, <1>5
  <2> QED BY <2>2, <2>3
<1>13. Grown(t, t2, g, fr, m + 1)
  BY <1>2, <1>5, <1>7, <1>8, <1>9, <1>10, <1>11, <1>12 DEF Grown
<1> QED BY <1>2, <1>5, <1>13

(* AllocateEMSPages extends one chain and nothing else, if the frames      *)
(* belong to no descriptor and there are enough free ones.                 *)
LEMMA Allocating ==
  ASSUME NEW t, Sound(t), NEW g \in Hdl, NEW page, page = LastPage(t, g),
         NEW fr, Len(fr) \in Nat, \A i \in 1 .. Len(fr) : fr[i] \in Frame,
         \A i, j \in 1 .. Len(fr) : fr[i] = fr[j] => i = j,
         \A i \in 1 .. Len(fr) : \A p \in Page : t.pd[p].frame # fr[i],
         Len(fr) <= EMSPagesMax - t.n
  PROVE  Grown(t, AllocateEMSPages(t, g, page, fr), g, fr, Len(fr))
<1>1. PICK got : /\ got[0] = [t |-> t, last |-> page]
                 /\ \A i \in 1 .. Len(fr) : got[i] = After(got[i - 1], g, fr[i])
                 /\ AllocateEMSPages(t, g, page, fr) = got[Len(fr)].t
  BY AllocationLoop
<1>2. PICK K : K = Len(fr)
  OBVIOUS
<1>3. K \in Nat /\ EMSPagesMax \in Nat /\ t.n \in 0 .. EMSPagesMax /\ K <= EMSPagesMax - t.n
  BY <1>2, Constants, FreeCount
<1> DEFINE P == {i \in 0 .. K : /\ Grown(t, got[i].t, g, fr, i)
                                /\ got[i].last = LastPage(got[i].t, g)}
<1>4. P \in SUBSET Nat /\ 0 \in P
  <2>1. got[0].t = t /\ got[0].last = page
    BY <1>1
  <2>2. PageCount(t, g) \in Nat /\ t.n \in Nat
    BY <1>3, ChainLength
  <2>3. Grown(t, t, g, fr, 0)
    BY <2>2 DEF Grown
  <2> QED BY <2>1, <2>3, <1>3
<1>5. ASSUME NEW i \in P, i < K PROVE i + 1 \in P
  <2>1. PICK x : x = got[i].t
    OBVIOUS
  <2>2. i \in Nat /\ i + 1 \in 1 .. K /\ (i + 1) - 1 = i
    BY <1>5, <1>3
  <2>3. Grown(t, x, g, fr, i) /\ got[i].last = LastPage(x, g)
    BY <2>1
  <2>4. got[i + 1] = After(got[i], g, fr[i + 1])
    BY <1>1, <1>2, <2>2
  <2>5. got[i + 1].t = Appended(x, g, fr[i + 1]) /\ got[i + 1].last = FirstFree(x)
    BY <2>1, <2>3, <2>4 DEF After, Appended
  <2>6. FreePages(x) # {}
    <3>1. Sound(x) /\ x.n = t.n + i
      BY <2>3 DEF Grown
    <3>2. Cardinality(FreePages(x)) = EMSPagesMax - (t.n + i)
      BY <3>1, FreeCount
    <3>3. EMSPagesMax - (t.n + i) # 0
      BY <1>3, <1>5, <2>2
    <3> QED BY <3>2, <3>3, FS_EmptySet
  <2>7. \A p \in Page : x.pd[p].frame # fr[i + 1]
    <3> TAKE p \in Page
    <3>1. t.pd[p].frame # fr[i + 1]
      BY <1>2, <2>2
    <3>2. x.pd[p].frame = t.pd[p].frame \/ \E j \in 1 .. i : x.pd[p].frame = fr[j]
      BY <2>3 DEF Grown
    <3>3. \A j \in 1 .. i : fr[j] # fr[i + 1]
      <4> TAKE j \in 1 .. i
      <4>1. j \in 1 .. Len(fr) /\ i + 1 \in 1 .. Len(fr) /\ j # i + 1
        BY <1>2, <1>3, <2>2
      <4> QED BY <4>1
    <3> QED BY <3>1, <3>2, <3>3
  <2>8. fr[i + 1] \in Frame
    BY <1>2, <2>2
  <2>9. PICK t2 : t2 = got[i + 1].t
    OBVIOUS
  <2>10. Grown(t, t2, g, fr, i + 1) /\ LastPage(t2, g) = FirstFree(x)
    BY <2>2, <2>3, <2>5, <2>6, <2>7, <2>8, <2>9, GrownByOne
  <2> QED BY <2>2, <2>5, <2>9, <2>10, <1>3
<1>6. K \in P
  <2> HIDE DEF P
  <2>1. 0 .. K \subseteq P
    BY <1>3, <1>4, <1>5, UpTo
  <2> QED BY <2>1, <1>3
<1> QED BY <1>1, <1>2, <1>6

(* What 47h, 48h and the flag of an open handle change is in no chain.     *)
LEMMA FlagsOnly ==
  ASSUME NEW t, Sound(t), NEW t2 \in Tables, t2.pd = t.pd, t2.n = t.n,
         \A h \in Hdl : t2.hd[h].idx = t.hd[h].idx
  PROVE  /\ Sound(t2)
         /\ \A h \in Hdl, k \in 0 .. EMSPagesMax : AbsPage(t2, h, k) = AbsPage(t, h, k)
         /\ \A h \in Hdl : PageCount(t2, h) = PageCount(t, h)
<1> DEFINE M == EMSPagesMax
<1>0. M \in Nat /\ t \in Tables
  BY Constants DEF Sound
<1>1. ASSUME NEW h \in Hdl PROVE \A k \in 0 .. M : AbsPage(t2, h, k) = AbsPage(t, h, k)
  <2> DEFINE q == [k \in 0 .. M |-> AbsPage(t, h, k)]
  <2>1. q[0] = t2.hd[h].idx
    BY <1>0, Walk
  <2>2. \A k \in 0 .. M - 1 : q[k + 1] = Following(t2, q[k])
    <3> TAKE k \in 0 .. M - 1
    <3>1. q[k + 1] = AbsPage(t, h, k + 1) /\ q[k] = AbsPage(t, h, k)
      BY <1>0
    <3>2. AbsPage(t, h, k + 1) = Following(t, AbsPage(t, h, k))
      BY <1>0, Walk
    <3> QED BY <3>1, <3>2 DEF Following
  <2>3. M \in 0 .. M
    BY <1>0
  <2>4. \A k \in 0 .. M : AbsPage(t2, h, k) = q[k]
    <3> HIDE DEF q
    <3> QED BY <2>1, <2>2, <2>3, WalkUnique
  <2> QED BY <2>4
<1>2. \A h \in Hdl : PageCount(t2, h) = PageCount(t, h)
  <2> TAKE h \in Hdl
  <2>1. {k \in 0 .. M - 1 : AbsPage(t2, h, k) # Nil} = {k \in 0 .. M - 1 : AbsPage(t, h, k) # Nil}
    <3>1. \A k \in 0 .. M - 1 : AbsPage(t2, h, k) = AbsPage(t, h, k)
      BY <1>0, <1>1
    <3> QED BY <3>1
  <2> QED BY <2>1 DEF PageCount
<1>3. Sound(t2)
  <2>1. \A g, h \in Hdl : \A i, j \in 0 .. M :
          AbsPage(t2, g, i) # Nil /\ AbsPage(t2, g, i) = AbsPage(t2, h, j) => g = h /\ i = j
    BY <1>1 DEF Sound
  <2>2. \A p \in Page : t2.pd[p].frame # Nil <=> \E g \in Hdl : \E i \in 0 .. M : AbsPage(t2, g, i) = p
    BY <1>1 DEF Sound
  <2> QED BY <2>1, <2>2 DEF Sound
<1> QED BY <1>1, <1>2, <1>3

(* A handle without a first page has no pages.                             *)
LEMMA EmptyChain ==
  ASSUME NEW t, Sound(t), NEW g \in Hdl, t.hd[g].idx = Nil
  PROVE  /\ PageCount(t, g) = 0 /\ LastPage(t, g) = Nil
         /\ \A k \in 0 .. EMSPagesMax : AbsPage(t, g, k) = Nil
<1>0. EMSPagesMax \in Nat /\ t \in Tables /\ Nil \notin Page
  BY Constants DEF Sound
<1>1. AbsPage(t, g, 0) = Nil
  BY <1>0, Walk
<1>2. PageCount(t, g) = 0
  <2>1. 0 \in 0 .. EMSPagesMax /\ PageCount(t, g) \in 0 .. EMSPagesMax
    BY <1>0, ChainLength
  <2>2. ~ (0 < PageCount(t, g))
    BY <1>0, <1>1, <2>1, ChainLength
  <2> QED BY <2>1, <2>2
<1>3. \A k \in 0 .. EMSPagesMax : AbsPage(t, g, k) = Nil
  BY <1>2, ChainLength
<1> QED BY <1>2, <1>3 DEF LastPage

(* What EMS_DEALLOCATE_PAGES makes of a table.                             *)
Freed(t, g) == [ReleaseFrom(t, g, 0) EXCEPT !.hd[g].used = FALSE]

(* The handle has no page left and is closed; nothing else has changed.    *)
LEMMA Freeing ==
  ASSUME NEW t, Sound(t), NEW g \in Hdl, NEW t2, t2 = Freed(t, g)
  PROVE  /\ Sound(t2)
         /\ \A h \in Hdl \ {g} : t2.hd[h] = t.hd[h]
         /\ t2.hd[g] = [idx |-> Nil, used |-> FALSE, ss |-> t.hd[g].ss]
         /\ \A h \in Hdl, k \in 0 .. EMSPagesMax :
              AbsPage(t2, h, k) = IF h = g THEN Nil ELSE AbsPage(t, h, k)
         /\ \A p \in Page : t2.pd[p].frame \in {Nil, t.pd[p].frame}
<1>1. PICK x : x = ReleaseFrom(t, g, 0)
  OBVIOUS
<1>2. 0 \in 0 .. PageCount(t, g)
  BY ChainLength
<1>3. /\ Sound(x)
      /\ \A h \in Hdl : /\ x.hd[h].used = t.hd[h].used /\ x.hd[h].ss = t.hd[h].ss
                        /\ h # g => x.hd[h].idx = t.hd[h].idx
      /\ x.hd[g].idx = Nil
      /\ \A h \in Hdl, k \in 0 .. EMSPagesMax :
           AbsPage(x, h, k) = IF h = g /\ k >= 0 THEN Nil ELSE AbsPage(t, h, k)
      /\ \A p \in Page : x.pd[p].frame \in {Nil, t.pd[p].frame}
  BY <1>1, <1>2, Releasing
<1>4. x \in Tables /\ t \in Tables
  BY <1>3 DEF Sound
<1>5. /\ t2.hd = [x.hd EXCEPT ![g].used = FALSE] /\ t2.pd = x.pd /\ t2.n = x.n
      /\ t2 \in Tables
  <2>1. t2 = [x EXCEPT !.hd[g].used = FALSE]
    BY <1>1 DEF Freed
  <2>2. [x.hd EXCEPT ![g].used = FALSE]
          \in [Hdl -> [idx : Page \cup {Nil}, used : BOOLEAN, ss : Slot \cup {Nil}]]
    BY <1>4 DEF Tables
  <2> QED BY <1>4, <2>1, <2>2 DEF Tables
<1>6. \A h \in Hdl : t2.hd[h].idx = x.hd[h].idx
  BY <1>4, <1>5 DEF Tables
<1>7. /\ Sound(t2)
      /\ \A h \in Hdl, k \in 0 .. EMSPagesMax : AbsPage(t2, h, k) = AbsPage(x, h, k)
  BY <1>3, <1>5, <1>6, FlagsOnly
<1>8. \A h \in Hdl \ {g} : t2.hd[h] = t.hd[h]
  <2> TAKE h \in Hdl \ {g}
  <2>1. t2.hd[h] = x.hd[h]
    BY <1>4, <1>5 DEF Tables
  <2>2. /\ x.hd[h] \in [idx : Page \cup {Nil}, used : BOOLEAN, ss : Slot \cup {Nil}]
        /\ t.hd[h] \in [idx : Page \cup {Nil}, used : BOOLEAN, ss : Slot \cup {Nil}]
    BY <1>4 DEF Tables
  <2>3. x.hd[h].idx = t.hd[h].idx /\ x.hd[h].used = t.hd[h].used /\ x.hd[h].ss = t.hd[h].ss
    BY <1>3
  <2> QED BY <2>1, <2>2, <2>3
<1>9. t2.hd[g] = [idx |-> Nil, used |-> FALSE, ss |-> t.hd[g].ss]
  <2>1. t2.hd[g] = [x.hd[g] EXCEPT !.used = FALSE]
    BY <1>4, <1>5 DEF Tables
  <2>2. x.hd[g] \in [idx : Page \cup {Nil}, used : BOOLEAN, ss : Slot \cup {Nil}]
    BY <1>4 DEF Tables
  <2>3. x.hd[g].idx = Nil /\ x.hd[g].ss = t.hd[g].ss
    BY <1>3
  <2> QED BY <2>1, <2>2, <2>3
<1>10. \A h \in Hdl, k \in 0 .. EMSPagesMax :
         AbsPage(t2, h, k) = IF h = g THEN Nil ELSE AbsPage(t, h, k)
  <2>1. \A k \in 0 .. EMSPagesMax : k >= 0
    BY Constants
  <2> QED BY <2>1, <1>3, <1>7
<1>11. \A p \in Page : t2.pd[p].frame \in {Nil, t.pd[p].frame}
  BY <1>3, <1>5
<1> QED BY <1>7, <1>8, <1>9, <1>10, <1>11

(* A chain has as many members as PageCount says.                          *)
LEMMA ChainSize ==
  ASSUME NEW t, Sound(t), NEW g \in Hdl
  PROVE  Cardinality(Chain(t, g)) = PageCount(t, g)
<1> DEFINE M == EMSPagesMax
<1>1. PICK L : L = PageCount(t, g)
  OBVIOUS
<1>2. /\ M \in Nat /\ L \in 0 .. M /\ Nil \notin Page
      /\ \A n \in 0 .. M : n < L => AbsPage(t, g, n) \in Page
      /\ \A n \in 0 .. M : n >= L => AbsPage(t, g, n) = Nil
  BY <1>1, ChainLength, Constants
<1> DEFINE f == [n \in 0 .. L - 1 |-> AbsPage(t, g, n)]
           C == {AbsPage(t, g, n) : n \in 0 .. L - 1}
<1>3. \A n \in 0 .. L - 1 : n \in 0 .. M /\ n < L
  BY <1>2
<1>4. Chain(t, g) = C
  <2>1. ASSUME NEW p \in Chain(t, g) PROVE p \in C
    <3>1. PICK n \in 0 .. M : p = AbsPage(t, g, n) /\ p # Nil
      BY DEF Chain
    <3>2. n \in 0 .. L - 1
      BY <3>1, <1>2
    <3> QED BY <3>1, <3>2
  <2>2. ASSUME NEW n \in 0 .. L - 1 PROVE AbsPage(t, g, n) \in Chain(t, g)
    BY <1>2, <1>3 DEF Chain
  <2> QED BY <2>1, <2>2
<1>5. f \in Bijection(0 .. L - 1, C)
  <2>1. f \in [0 .. L - 1 -> C] /\ \A p \in C : \E n \in 0 .. L - 1 : f[n] = p
    OBVIOUS
  <2>2. \A i, j \in 0 .. L - 1 : f[i] = f[j] => i = j
    <3> TAKE i, j \in 0 .. L - 1
    <3> HAVE f[i] = f[j]
    <3>1. AbsPage(t, g, i) = AbsPage(t, g, j) /\ AbsPage(t, g, i) # Nil
      BY <1>2, <1>3
    <3> QED BY <3>1, <1>3 DEF Sound
  <2> HIDE DEF f, C
  <2> QED BY <2>1, <2>2 DEF Bijection, Injection, Surjection, IsInjective
<1>6. IsFiniteSet(0 .. L - 1) /\ Cardinality(0 .. L - 1) = L
  <2>1. L - 1 \in Int /\ 0 \in Int
    BY <1>2
  <2>2. /\ IsFiniteSet(0 .. L - 1)
        /\ Cardinality(0 .. L - 1) = IF 0 > L - 1 THEN 0 ELSE (L - 1) - 0 + 1
    BY <2>1, FS_Interval
  <2> QED BY <2>2, <1>2
<1>7. Cardinality(C) = Cardinality(0 .. L - 1)
  <2> HIDE DEF f, C
  <2>1. ExistsBijection(0 .. L - 1, C)
    BY <1>5 DEF ExistsBijection
  <2> QED BY <2>1, <1>6, FS_Bijection
<1> QED BY <1>1, <1>4, <1>6, <1>7

(* A function from 1 .. n is a sequence of length n.                       *)
LEMMA SeqOf ==
  ASSUME NEW S, NEW n \in Nat, NEW f \in [1 .. n -> S]
  PROVE  f \in Seq(S) /\ Len(f) = n
<1>1. f \in Seq(S)
  BY SeqDef
<1>2. PICK l : l = Len(f)
  OBVIOUS
<1>3. l \in Nat /\ 1 .. l = 1 .. n
  BY <1>1, <1>2, LenProperties
<1>4. (l > 0 => l \in 1 .. n) /\ (n > 0 => n \in 1 .. l)
  BY <1>3
<1> QED BY <1>1, <1>2, <1>3, <1>4

(* The frames of a handle are a sequence of frames as long as its chain.   *)
LEMMA FramesMeaning ==
  ASSUME NEW t, Sound(t), NEW g \in Hdl
  PROVE  /\ FramesOf(t, g) \in Seq(Frame)
         /\ Len(FramesOf(t, g)) = PageCount(t, g) /\ PageCount(t, g) \in 0 .. EMSPagesMax
         /\ DOMAIN FramesOf(t, g) = 1 .. PageCount(t, g)
         /\ \A i \in 1 .. PageCount(t, g) :
              /\ FramesOf(t, g)[i] = t.pd[AbsPage(t, g, i - 1)].frame
              /\ i - 1 \in 0 .. EMSPagesMax /\ AbsPage(t, g, i - 1) \in Page
              /\ FramesOf(t, g)[i] \in Frame
<1> DEFINE M == EMSPagesMax
<1>1. PICK L : L = PageCount(t, g)
  OBVIOUS
<1>2. /\ M \in Nat /\ L \in 0 .. M
      /\ \A n \in 0 .. M : n < L => AbsPage(t, g, n) \in Page
  BY <1>1, ChainLength, Constants
<1>3. t \in Tables /\ Nil \notin Page
  BY Constants DEF Sound
<1>4. \A i \in 1 .. L : /\ i - 1 \in 0 .. M /\ AbsPage(t, g, i - 1) \in Page
                        /\ t.pd[AbsPage(t, g, i - 1)].frame \in Frame
  <2> TAKE i \in 1 .. L
  <2>1. i - 1 \in 0 .. M /\ i - 1 < L
    BY <1>2
  <2>2. PICK x : x = AbsPage(t, g, i - 1)
    OBVIOUS
  <2>3. x \in Page
    BY <1>2, <2>1, <2>2
  <2>4. t.pd[x].frame # Nil
    BY <2>1, <2>2, <2>3 DEF Sound
  <2>5. t.pd[x].frame \in Frame
    BY <1>3, <2>3, <2>4 DEF Tables
  <2> QED BY <2>1, <2>2, <2>3, <2>5
<1>5. PICK q : q = FramesOf(t, g)
  OBVIOUS
<1>6. q \in [1 .. L -> Frame] /\ \A i \in 1 .. L : q[i] = t.pd[AbsPage(t, g, i - 1)].frame
  BY <1>1, <1>4, <1>5 DEF FramesOf
<1>7. q \in Seq(Frame) /\ Len(q) = L
  BY <1>2, <1>6, SeqOf
<1> QED BY <1>1, <1>2, <1>4, <1>5, <1>6, <1>7

(* A frame occurs once in all the sequences.                               *)
LEMMA FramesDistinct ==
  ASSUME NEW t, Sound(t), NEW g \in Hdl, NEW h \in Hdl,
         NEW i \in 1 .. PageCount(t, g), NEW j \in 1 .. PageCount(t, h),
         FramesOf(t, g)[i] = FramesOf(t, h)[j]
  PROVE  g = h /\ i = j
<1>0. Nil \notin Page /\ Nil \notin Frame
  BY Constants
<1>1. PICK x, y : x = AbsPage(t, g, i - 1) /\ y = AbsPage(t, h, j - 1)
  OBVIOUS
<1>2. /\ i - 1 \in 0 .. EMSPagesMax /\ x \in Page /\ t.pd[x].frame \in Frame
      /\ j - 1 \in 0 .. EMSPagesMax /\ y \in Page
      /\ t.pd[x].frame = t.pd[y].frame
  BY <1>1, FramesMeaning
<1>3. x = y
  BY <1>0, <1>2 DEF Sound
<1>4. g = h /\ i - 1 = j - 1
  BY <1>0, <1>1, <1>2, <1>3 DEF Sound
<1>5. PageCount(t, g) \in Nat /\ PageCount(t, h) \in Nat
  BY ChainLength, Constants
<1> QED BY <1>4, <1>5

-----------------------------------------------------------------------------

(* Page maps as 4Eh, 4Fh and 5Bh store them.                               *)
Maps == UNION {[S -> Frame \cup {Hole}] : S \in SUBSET Phys}

(* A handle with a slot has saved something there, no two share one, and   *)
(* every slot in use has its handle.                                       *)
SlotsInv ==
  /\ state \in [Slot -> [Window -> Frame \cup {Hole}] \cup {Nil}]
  /\ \A g \in Hdl : hd[g].ss # Nil => state[hd[g].ss] # Nil
  /\ \A g, k \in Hdl : hd[g].ss # Nil /\ hd[g].ss = hd[k].ss => g = k
  /\ \A s \in Slot : state[s] # Nil => \E g \in Hdl : hd[g].ss = s

(* No two handles have the same name, and only handles in use have one.   *)
NamesInv == name \in [Hdl -> Names \cup {"", "SYSTEM"}] /\ NamesUnique

(* Every PTE shows a frame or what is there without EMS.                   *)
WindowsInv ==
  /\ pte \in [Phys \cup {Low} -> Frame \cup {Hole}]
  /\ stale \subseteq Phys \cup {Low}

(* A buffer that 4Eh or 4Fh has filled holds a page map.                   *)
BuffersInv ==
  /\ DOMAIN area = Areas
  /\ \A a \in Areas : area[a].kind # "none" => area[a].m \in Maps
  /\ mapptr \in Areas \cup {Nil}

(* The inductive invariant.                                                *)
EmsInv ==
  /\ Sound(table)
  /\ \A g \in Hdl \ Used : hd[g] = NoHandle
  /\ SlotsInv /\ NamesInv /\ WindowsInv /\ BuffersInv
  /\ others \subseteq Frame /\ ok \in BOOLEAN

(* What 42h reports is a number.                                           *)
LEMMA FreeIsNat ==
  ASSUME pagesUsed \in Nat
  PROVE  GetFreeEMSPages \in Nat
<1> DEFINE G == Pool_GetFree16KPages
<1>1. IsFiniteSet(FreeFrames)
  BY FrameFinite, FS_Subset DEF FreeFrames
<1>2. G \in Nat
  BY <1>1, FS_CardinalityType DEF Pool_GetFree16KPages
<1>3. EMSPagesMax \in Nat
  BY Constants
<1> HIDE DEF G
<1> QED BY <1>2, <1>3 DEF GetFreeEMSPages, G

(* The inductive invariant gives what the run checks of the tables.        *)
LEMMA WholeIfInv ==
  ASSUME EmsInv
  PROVE  HandlesWhole
<1> DEFINE M == EMSPagesMax
<1>0. /\ M \in Nat /\ Nil \notin Page /\ Nil \notin Frame /\ Nil \notin Slot
      /\ IsFiniteSet(Page)
  BY Constants
<1>1. Sound(table) /\ table \in Tables
  BY DEF EmsInv, Sound
<1>2. table.hd = hd /\ table.pd = pd /\ table.n = pagesUsed
  BY DEF table
<1>3. /\ hd \in [Hdl -> [idx : Page \cup {Nil}, used : BOOLEAN, ss : Slot \cup {Nil}]]
      /\ pd \in [Page -> [next : Page \cup {Nil}, frame : Frame \cup {Nil}]]
  BY <1>1, <1>2 DEF Tables
<1>4. pagesUsed \in 0 .. M /\ Cardinality(FreePages(table)) = M - pagesUsed
      /\ pagesUsed = Cardinality({p \in Page : pd[p] # NoPage})
  BY <1>1, <1>2, FreeCount
<1>5. EmsTypeOK
  BY <1>3, <1>4 DEF EmsTypeOK, EmsInv, SlotsInv, NamesInv, WindowsInv, BuffersInv
<1>6. ChainsPartition
  <2>1. \A g \in Hdl : AbsPage(table, g, M) = Nil
    <3>1. M \in 0 .. M
      BY <1>0
    <3>2. \A g \in Hdl : PageCount(table, g) \in 0 .. M /\ M >= PageCount(table, g)
      BY <1>0, <1>1, ChainLength
    <3> QED BY <3>1, <3>2, <1>1, ChainLength
  <2>2. \A g \in Hdl : Cardinality(Chain(table, g)) = PageCount(table, g)
    BY <1>1, ChainSize
  <2>3. \A g, k \in Hdl : g # k => Chain(table, g) \cap Chain(table, k) = {}
    <3>1. ASSUME NEW g \in Hdl, NEW k \in Hdl, g # k, NEW p,
                 p \in Chain(table, g), p \in Chain(table, k)
          PROVE  FALSE
      BY <3>1, <1>1 DEF Sound, Chain
    <3> QED BY <3>1
  <2>4. UNION {Chain(table, g) : g \in Used} = {p \in Page : pd[p].frame # Nil}
    <3>1. ASSUME NEW p, p \in UNION {Chain(table, g) : g \in Used}
          PROVE  p \in Page /\ pd[p].frame # Nil
      <4>1. PICK g \in Hdl : p \in Chain(table, g)
        BY <3>1 DEF Used
      <4>2. PICK i \in 0 .. M : p = AbsPage(table, g, i) /\ p # Nil
        BY <4>1 DEF Chain
      <4>3. p \in Page
        BY <4>2, <1>1, Walk
      <4> QED BY <4>2, <4>3, <1>1, <1>2 DEF Sound
    <3>2. ASSUME NEW p \in Page, pd[p].frame # Nil
          PROVE  p \in UNION {Chain(table, g) : g \in Used}
      <4>1. PICK g \in Hdl, i \in 0 .. M : AbsPage(table, g, i) = p
        BY <3>2, <1>1, <1>2 DEF Sound
      <4>2. p \in Chain(table, g)
        BY <4>1, <1>0 DEF Chain
      <4>3. g \in Used
        <5>1. SUFFICES ASSUME g \notin Used PROVE FALSE
          OBVIOUS
        <5>2. table.hd[g].idx = Nil
          BY <5>1, <1>2 DEF EmsInv, NoHandle
        <5>3. AbsPage(table, g, i) = Nil
          BY <5>2, <1>1, EmptyChain
        <5> QED BY <5>3, <4>1, <1>0
      <4> QED BY <4>2, <4>3
    <3> QED BY <3>1, <3>2
  <2>5. \A g \in Hdl \ Used : hd[g] = NoHandle
    BY DEF EmsInv
  <2> QED BY <2>1, <2>2, <2>3, <2>4, <2>5, <1>4 DEF ChainsPartition
<1>7. SlotsOwned
  <2> SUFFICES ASSUME NEW s \in Slot
               PROVE  Cardinality({g \in Used : hd[g].ss = s}) = IF state[s] = Nil THEN 0 ELSE 1
    BY DEF SlotsOwned
  <2>1. \A g \in Hdl : hd[g].ss # Nil => g \in Used
    BY DEF EmsInv, NoHandle
  <2>2. s # Nil
    BY <1>0
  <2>3. CASE state[s] = Nil
    <3>1. {g \in Used : hd[g].ss = s} = {}
      BY <2>2, <2>3 DEF EmsInv, SlotsInv, Used
    <3> QED BY <2>3, <3>1, FS_EmptySet
  <2>4. CASE state[s] # Nil
    <3>1. PICK g \in Hdl : hd[g].ss = s
      BY <2>4 DEF EmsInv, SlotsInv
    <3>2. g \in Used
      BY <2>1, <2>2, <3>1
    <3>3. \A k \in Hdl : hd[k].ss = s => k = g
      BY <2>2, <3>1 DEF EmsInv, SlotsInv
    <3>4. {k \in Used : hd[k].ss = s} = {g}
      BY <3>1, <3>2, <3>3 DEF Used
    <3> QED BY <2>4, <3>4, FS_Singleton
  <2> QED BY <2>3, <2>4
<1>8. NamesUnique
  BY DEF EmsInv, NamesInv
<1>9. FreePagesHaveDescriptors
  <2> DEFINE G == Pool_GetFree16KPages
  <2>1. GetFreeEMSPages <= M - pagesUsed
    <3>1. IsFiniteSet(FreeFrames)
      <4>1. IsFiniteSet(Frame)
        BY FrameFinite
      <4> QED BY <4>1, FS_Subset DEF FreeFrames
    <3>2. G \in Nat
      BY <3>1, FS_CardinalityType DEF Pool_GetFree16KPages
    <3> HIDE DEF G
    <3>3. GetFreeEMSPages = IF (IF M > pagesUsed THEN M - pagesUsed ELSE 0) < G
                            THEN (IF M > pagesUsed THEN M - pagesUsed ELSE 0) ELSE G
      BY DEF GetFreeEMSPages, G
    <3> QED BY <3>2, <3>3, <1>0, <1>4
  <2> QED BY <2>1, <1>4 DEF FreePagesHaveDescriptors
<1> QED BY <1>5, <1>6, <1>7, <1>8, <1>9 DEF HandlesWhole

(* SetTable makes the table of the next state what it is given.            *)
LEMMA TableSet ==
  ASSUME NEW t \in Tables, SetTable(t)
  PROVE  table' = t
BY DEF SetTable, table, Tables

(* The pool grants at most n frames, all different, none of them in a      *)
(* descriptor or with another client.                                      *)
LEMMA GrantedFrames ==
  ASSUME NEW n \in Nat, NEW fr \in Granted(n)
  PROVE  /\ Len(fr) \in 0 .. n
         /\ \A i \in 1 .. Len(fr) : fr[i] \in Frame /\ fr[i] \notin others
         /\ \A i, j \in 1 .. Len(fr) : fr[i] = fr[j] => i = j
         /\ \A i \in 1 .. Len(fr) : \A p \in Page : pd[p].frame # fr[i]
<1>1. PICK k \in 0 .. n : fr \in [1 .. k -> FreeFrames]
  BY DEF Granted
<1>2. k \in Nat
  OBVIOUS
<1>3. fr \in Seq(FreeFrames)
  BY <1>1, <1>2, SeqDef
<1>4. Len(fr) \in Nat /\ DOMAIN fr = 1 .. Len(fr) /\ DOMAIN fr = 1 .. k
  BY <1>1, <1>3, LenProperties
<1>5. Len(fr) = k
  <2>1. PICK l : l = Len(fr)
    OBVIOUS
  <2>2. l \in Nat /\ 1 .. l = 1 .. k
    BY <1>4, <2>1
  <2>3. l > 0 => l \in 1 .. k
    BY <2>2
  <2>4. k > 0 => k \in 1 .. l
    BY <2>2, <1>2
  <2> QED BY <2>1, <2>2, <2>3, <2>4, <1>2
<1>6. \A i \in 1 .. k : fr[i] \in Frame /\ fr[i] \notin FramesInUse
  BY <1>1 DEF FreeFrames
<1>7. \A i, j \in 1 .. k : fr[i] = fr[j] => i = j
  BY <1>4 DEF Granted
<1> QED BY <1>5, <1>6, <1>7 DEF FramesInUse

(* A call that relinks pages changes the chain of g only, and no page of   *)
(* another handle moves or gets another frame.                             *)
Touches(g) ==
  /\ Sound(table')
  /\ \A h \in Hdl \ {g} : hd'[h] = hd[h]
  /\ \A h \in Hdl \ {g} : \A k \in 0 .. EMSPagesMax : AbsPage(table', h, k) = AbsPage(table, h, k)
  /\ \A p \in Page : pd[p].frame # Nil /\ pd'[p].frame # Nil => pd'[p].frame = pd[p].frame

(* The invariant, as the lemmas about tables need it.                      *)
LEMMA TableFacts ==
  ASSUME EmsInv
  PROVE  /\ Sound(table) /\ table \in Tables
         /\ table.hd = hd /\ table.pd = pd /\ table.n = pagesUsed
         /\ hd \in [Hdl -> [idx : Page \cup {Nil}, used : BOOLEAN, ss : Slot \cup {Nil}]]
         /\ pd \in [Page -> [next : Page \cup {Nil}, frame : Frame \cup {Nil}]]
         /\ \A g \in Hdl \ Used : hd[g] = NoHandle
<1>1. Sound(table) /\ table \in Tables /\ \A g \in Hdl \ Used : hd[g] = NoHandle
  BY DEF EmsInv, Sound
<1>2. table.hd = hd /\ table.pd = pd /\ table.n = pagesUsed
  BY DEF table
<1> QED BY <1>1, <1>2 DEF Tables

(* The table of the next state is made of the next state's arrays.         *)
LEMMA PrimedTable ==
  /\ table'.hd = hd' /\ table'.pd = pd' /\ table'.n = pagesUsed'
BY DEF table

(* 43h finds a free handle when there is one.                              *)
LEMMA UnusedHandle ==
  ASSUME Used # Hdl, EmsInv
  PROVE  FirstUnused \in Hdl \ Used
<1>1. Hdl \ Used \in SUBSET Nat /\ Hdl \ Used # {}
  <2>1. Hdl \in SUBSET Nat
    BY DEF Hdl
  <2> QED BY <2>1 DEF Used
<1>2. \E g \in Hdl \ Used : \A k \in Hdl \ Used : g <= k
  <2> DEFINE S == Hdl \ Used
  <2>1. S \in SUBSET Nat /\ S # {}
    BY <1>1
  <2> HIDE DEF S
  <2>2. \E g \in S : \A k \in S : g <= k
    BY <2>1, LeastNat
  <2> QED BY <2>2 DEF S
<1> QED BY <1>2 DEF FirstUnused

(* g is open with exactly the frames fr, in that order.                    *)
Opened(g, fr) ==
  /\ hd'[g].used = TRUE /\ hd'[g].ss = Nil
  /\ PageCount(table', g) = Len(fr)
  /\ \A i \in 1 .. Len(fr) : pd'[AbsPage(table', g, i - 1)].frame = fr[i]

(* 43h opens a handle with all the frames or, when the pool fails on the   *)
(* way, leaves the handle closed and the tables as they were.              *)
LEMMA AllocateStep ==
  ASSUME EmsInv, NEW n \in 0 .. EMSPagesMax, EMS_ALLOCATE_PAGES(n)
  PROVE  \E g \in Hdl \ Used : \E fr \in Granted(n) :
           /\ Touches(g)
           /\ \/ ok' = TRUE /\ Opened(g, fr) /\ UNCHANGED name
              \/ ok' = FALSE /\ hd'[g] = NoHandle /\ name' = [name EXCEPT ![g] = ""]
<1> DEFINE M == EMSPagesMax
<1>0. M \in Nat /\ n \in Nat /\ Nil \notin Page
  BY Constants
<1>1. /\ Sound(table) /\ table \in Tables
      /\ table.hd = hd /\ table.pd = pd /\ table.n = pagesUsed
      /\ hd \in [Hdl -> [idx : Page \cup {Nil}, used : BOOLEAN, ss : Slot \cup {Nil}]]
      /\ pd \in [Page -> [next : Page \cup {Nil}, frame : Frame \cup {Nil}]]
      /\ \A k \in Hdl \ Used : hd[k] = NoHandle
  BY TableFacts
<1>2. PICK g, t : g = FirstUnused /\ t = [table EXCEPT !.hd[g].used = TRUE]
  OBVIOUS
<1>3. g \in Hdl \ Used
  BY <1>2, UnusedHandle DEF EMS_ALLOCATE_PAGES
<1> DEFINE Outcome(fr, t1) ==
             /\ t1 = AllocateEMSPages(t, g, Nil, fr)
             /\ IF Len(fr) = n THEN SetTable(t1) /\ ok' = TRUE /\ UNCHANGED name
                               ELSE FreeHandle(t1, g) /\ ok' = FALSE
<1>4a. PICK fr \in Granted(n) : \E t1 : Outcome(fr, t1)
  BY <1>2 DEF EMS_ALLOCATE_PAGES
<1>4b. PICK new : Outcome(fr, new)
  BY <1>4a
<1>4. /\ new = AllocateEMSPages(t, g, Nil, fr)
      /\ IF Len(fr) = n THEN SetTable(new) /\ ok' = TRUE /\ UNCHANGED name
                        ELSE FreeHandle(new, g) /\ ok' = FALSE
  BY <1>4b
<1> HIDE DEF Outcome
<1>5. /\ Len(fr) \in 0 .. n
      /\ \A i \in 1 .. Len(fr) : fr[i] \in Frame
      /\ \A i, j \in 1 .. Len(fr) : fr[i] = fr[j] => i = j
      /\ \A i \in 1 .. Len(fr) : \A p \in Page : pd[p].frame # fr[i]
  BY <1>0, GrantedFrames
<1>6. n <= M - pagesUsed
  <2>1. FreePagesHaveDescriptors
    BY WholeIfInv DEF HandlesWhole
  <2>2. Cardinality(FreePages(table)) = M - pagesUsed /\ pagesUsed \in 0 .. M
    BY <1>1, FreeCount
  <2>3. n <= GetFreeEMSPages
    BY DEF EMS_ALLOCATE_PAGES
  <2>4. GetFreeEMSPages \in Int
    BY <2>2, <1>0, FreeIsNat
  <2> QED BY <2>1, <2>2, <2>3, <2>4, <1>0 DEF FreePagesHaveDescriptors
<1>7. /\ t.hd = [hd EXCEPT ![g].used = TRUE] /\ t.pd = pd /\ t.n = pagesUsed /\ t \in Tables
  <2>1. [hd EXCEPT ![g].used = TRUE] \in [Hdl -> [idx : Page \cup {Nil}, used : BOOLEAN, ss : Slot \cup {Nil}]]
    BY <1>1
  <2> QED BY <1>1, <1>2, <2>1 DEF Tables
<1>8. \A h \in Hdl : /\ t.hd[h].idx = hd[h].idx /\ t.hd[h].ss = hd[h].ss
                     /\ h # g => t.hd[h] = hd[h]
  BY <1>1, <1>7
<1>9. hd[g] = NoHandle /\ t.hd[g].used = TRUE /\ t.hd[g].idx = Nil /\ t.hd[g].ss = Nil
  BY <1>1, <1>3, <1>7 DEF NoHandle
<1>10. /\ Sound(t)
       /\ \A h \in Hdl, k \in 0 .. M : AbsPage(t, h, k) = AbsPage(table, h, k)
  <2>1. t.pd = table.pd /\ t.n = table.n /\ \A h \in Hdl : t.hd[h].idx = table.hd[h].idx
    BY <1>1, <1>7, <1>8
  <2> QED BY <2>1, <1>1, <1>7, FlagsOnly
<1>11. PageCount(t, g) = 0 /\ LastPage(t, g) = Nil /\ \A k \in 0 .. M : AbsPage(t, g, k) = Nil
  BY <1>3, <1>9, <1>10, EmptyChain
<1>12. Grown(t, new, g, fr, Len(fr))
  <2>1. Len(fr) \in Nat /\ Len(fr) <= M - t.n
    <3>1. pagesUsed \in 0 .. M
      BY <1>1, FreeCount
    <3> QED BY <3>1, <1>0, <1>5, <1>6, <1>7
  <2>2. \A i \in 1 .. Len(fr) : \A p \in Page : t.pd[p].frame # fr[i]
    BY <1>5, <1>7
  <2> QED BY <1>3, <1>4, <1>5, <1>10, <1>11, <2>1, <2>2, Allocating
<1>13. /\ Sound(new) /\ new \in Tables
       /\ \A h \in Hdl : /\ new.hd[h].used = t.hd[h].used /\ new.hd[h].ss = t.hd[h].ss
                         /\ h # g => new.hd[h].idx = t.hd[h].idx
       /\ PageCount(new, g) = Len(fr)
       /\ \A h \in Hdl \ {g} : \A k \in 0 .. M : AbsPage(new, h, k) = AbsPage(table, h, k)
       /\ \A p \in Page : pd[p].frame # Nil => new.pd[p].frame = pd[p].frame
       /\ \A i \in 1 .. Len(fr) : new.pd[AbsPage(new, g, i - 1)].frame = fr[i]
  <2>1. Sound(new) /\ new \in Tables
    BY <1>12 DEF Grown, Sound
  <2>2. \A h \in Hdl : /\ new.hd[h].used = t.hd[h].used /\ new.hd[h].ss = t.hd[h].ss
                       /\ h # g => new.hd[h].idx = t.hd[h].idx
    BY <1>12 DEF Grown
  <2>3. PageCount(new, g) = 0 + Len(fr)
    BY <1>11, <1>12 DEF Grown
  <2>4. \A h \in Hdl \ {g} : \A k \in 0 .. M : AbsPage(new, h, k) = AbsPage(table, h, k)
    BY <1>10, <1>12 DEF Grown
  <2>5. \A p \in Page : pd[p].frame # Nil => new.pd[p].frame = pd[p].frame
    BY <1>7, <1>12 DEF Grown
  <2>6. \A i \in 1 .. Len(fr) : new.pd[AbsPage(new, g, 0 + i - 1)].frame = fr[i]
    BY <1>11, <1>12 DEF Grown
  <2>7. \A i \in 1 .. Len(fr) : 0 + i - 1 = i - 1
    BY <1>5
  <2>8. 0 + Len(fr) = Len(fr)
    BY <1>5
  <2> QED BY <2>1, <2>2, <2>3, <2>4, <2>5, <2>6, <2>7, <2>8
<1>14. \A h \in Hdl \ {g} : new.hd[h] = hd[h]
  <2> TAKE h \in Hdl \ {g}
  <2>1. /\ new.hd[h] \in [idx : Page \cup {Nil}, used : BOOLEAN, ss : Slot \cup {Nil}]
        /\ hd[h] \in [idx : Page \cup {Nil}, used : BOOLEAN, ss : Slot \cup {Nil}]
    BY <1>1, <1>13 DEF Tables
  <2>2. new.hd[h].idx = hd[h].idx /\ new.hd[h].used = hd[h].used /\ new.hd[h].ss = hd[h].ss
    BY <1>8, <1>13
  <2> QED BY <2>1, <2>2
<1>15. CASE Len(fr) = n
  <2>1. table' = new /\ ok' = TRUE /\ UNCHANGED name
    BY <1>4, <1>13, <1>15, TableSet
  <2>2. hd' = new.hd /\ pd' = new.pd
    BY <2>1, PrimedTable
  <2>3. Touches(g)
    BY <2>1, <2>2, <1>13, <1>14 DEF Touches
  <2>4. Opened(g, fr)
    BY <2>1, <2>2, <1>3, <1>9, <1>13 DEF Opened
  <2> QED BY <2>1, <2>3, <2>4, <1>3
<1>16. CASE Len(fr) # n
  <2>1. PICK x : x = Freed(new, g)
    OBVIOUS
  <2>2. SetTable(x) /\ name' = [name EXCEPT ![g] = ""] /\ ok' = FALSE
    BY <1>4, <1>16, <2>1 DEF FreeHandle, Freed
  <2>3. /\ Sound(x)
        /\ \A h \in Hdl \ {g} : x.hd[h] = new.hd[h]
        /\ x.hd[g] = [idx |-> Nil, used |-> FALSE, ss |-> new.hd[g].ss]
        /\ \A h \in Hdl, k \in 0 .. M : AbsPage(x, h, k) = IF h = g THEN Nil ELSE AbsPage(new, h, k)
        /\ \A p \in Page : x.pd[p].frame \in {Nil, new.pd[p].frame}
    <3>1. Sound(new) /\ g \in Hdl
      BY <1>3, <1>13
    <3> QED BY <2>1, <3>1, Freeing
  <2>4. table' = x
    <3>1. x \in Tables
      BY <2>3 DEF Sound
    <3> QED BY <2>2, <3>1, TableSet
  <2>5. hd' = x.hd /\ pd' = x.pd
    BY <2>4, PrimedTable
  <2>6. Touches(g)
    <3>1. \A h \in Hdl \ {g} : hd'[h] = hd[h]
      BY <2>3, <2>5, <1>14
    <3>2. \A h \in Hdl \ {g} : \A k \in 0 .. M : AbsPage(table', h, k) = AbsPage(table, h, k)
      BY <2>3, <2>4, <1>13
    <3>3. \A p \in Page : pd[p].frame # Nil /\ pd'[p].frame # Nil => pd'[p].frame = pd[p].frame
      BY <2>3, <2>5, <1>13
    <3> QED BY <2>3, <2>4, <3>1, <3>2, <3>3 DEF Touches
  <2>7. hd'[g] = NoHandle
    BY <2>3, <2>5, <1>3, <1>9, <1>13 DEF NoHandle
  <2> QED BY <2>2, <2>6, <2>7, <1>3
<1> QED BY <1>15, <1>16

(* 45h closes the handle and takes all its pages, and nothing else.        *)
LEMMA FreeingStep ==
  ASSUME EmsInv, NEW g \in Hdl, EMS_DEALLOCATE_PAGES(g)
  PROVE  /\ Touches(g) /\ hd'[g] = NoHandle /\ ok' = TRUE
         /\ name' = [name EXCEPT ![g] = ""]
<1> DEFINE M == EMSPagesMax
<1>1. /\ Sound(table) /\ table \in Tables /\ table.hd = hd /\ table.pd = pd
      /\ hd \in [Hdl -> [idx : Page \cup {Nil}, used : BOOLEAN, ss : Slot \cup {Nil}]]
  BY TableFacts
<1>2. PICK t, x : t = table /\ x = Freed(t, g)
  OBVIOUS
<1>3. SetTable(x) /\ name' = [name EXCEPT ![g] = ""] /\ ok' = TRUE /\ hd[g].ss = Nil
  BY <1>2 DEF EMS_DEALLOCATE_PAGES, MayFree, FreeHandle, Freed
<1>4. /\ Sound(x)
      /\ \A h \in Hdl \ {g} : x.hd[h] = t.hd[h]
      /\ x.hd[g] = [idx |-> Nil, used |-> FALSE, ss |-> t.hd[g].ss]
      /\ \A h \in Hdl, k \in 0 .. M : AbsPage(x, h, k) = IF h = g THEN Nil ELSE AbsPage(t, h, k)
      /\ \A p \in Page : x.pd[p].frame \in {Nil, t.pd[p].frame}
  BY <1>1, <1>2, Freeing
<1>5. table' = x
  <2>1. x \in Tables
    BY <1>4 DEF Sound
  <2> QED BY <1>3, <2>1, TableSet
<1>6. hd' = x.hd /\ pd' = x.pd
  BY <1>5, PrimedTable
<1>7. Touches(g)
  <2>1. \A h \in Hdl \ {g} : hd'[h] = hd[h]
    BY <1>1, <1>2, <1>4, <1>6
  <2>2. \A h \in Hdl \ {g} : \A k \in 0 .. M : AbsPage(table', h, k) = AbsPage(table, h, k)
    BY <1>2, <1>4, <1>5
  <2>3. \A p \in Page : pd[p].frame # Nil /\ pd'[p].frame # Nil => pd'[p].frame = pd[p].frame
    BY <1>1, <1>2, <1>4, <1>6
  <2> QED BY <1>4, <1>5, <2>1, <2>2, <2>3 DEF Touches
<1>8. hd'[g] = NoHandle
  BY <1>1, <1>2, <1>3, <1>4, <1>6 DEF NoHandle
<1> QED BY <1>3, <1>7, <1>8

(* The handle keeps its flags.                                             *)
Keeps(g) == hd'[g].used = hd[g].used /\ hd'[g].ss = hd[g].ss

(* 51h with fewer pages cuts the chain at its end.                         *)
LEMMA ShrinkStep ==
  ASSUME EmsInv, NEW g \in Hdl, NEW n \in 0 .. EMSPagesMax, Shrink(g, n)
  PROVE  /\ Touches(g) /\ Keeps(g) /\ ok' = TRUE
         /\ n < PageCount(table, g) /\ PageCount(table', g) = n
         /\ \A k \in 0 .. n - 1 : AbsPage(table', g, k) = AbsPage(table, g, k)
<1> DEFINE M == EMSPagesMax
<1>0. M \in Nat /\ Nil \notin Page
  BY Constants
<1>1. /\ Sound(table) /\ table \in Tables /\ table.hd = hd /\ table.pd = pd
      /\ hd \in [Hdl -> [idx : Page \cup {Nil}, used : BOOLEAN, ss : Slot \cup {Nil}]]
  BY TableFacts
<1>2. PICK t, x : t = table /\ x = ReleaseFrom(t, g, n)
  OBVIOUS
<1>3. SetTable(x) /\ ok' = TRUE /\ n < PageCount(t, g)
  BY <1>2 DEF Shrink
<1>4. /\ PageCount(t, g) \in 0 .. M
      /\ \A k \in 0 .. M : k < PageCount(t, g) => AbsPage(t, g, k) \in Page
  BY <1>1, <1>2, ChainLength
<1>5. n \in 0 .. PageCount(t, g) /\ n \in Nat
  BY <1>0, <1>3, <1>4
<1>6. /\ Sound(x)
      /\ \A h \in Hdl : /\ x.hd[h].used = t.hd[h].used /\ x.hd[h].ss = t.hd[h].ss
                        /\ h # g => x.hd[h].idx = t.hd[h].idx
      /\ \A h \in Hdl, k \in 0 .. M :
           AbsPage(x, h, k) = IF h = g /\ k >= n THEN Nil ELSE AbsPage(t, h, k)
      /\ \A p \in Page : x.pd[p].frame \in {Nil, t.pd[p].frame}
  BY <1>1, <1>2, <1>5, Releasing
<1>7. table' = x /\ x \in Tables
  <2>1. x \in Tables
    BY <1>6 DEF Sound
  <2> QED BY <1>3, <2>1, TableSet
<1>8. hd' = x.hd /\ pd' = x.pd
  BY <1>7, PrimedTable
<1>9. Touches(g)
  <2>1. \A h \in Hdl \ {g} : hd'[h] = hd[h]
    <3> TAKE h \in Hdl \ {g}
    <3>1. /\ x.hd[h] \in [idx : Page \cup {Nil}, used : BOOLEAN, ss : Slot \cup {Nil}]
          /\ hd[h] \in [idx : Page \cup {Nil}, used : BOOLEAN, ss : Slot \cup {Nil}]
      BY <1>1, <1>7 DEF Tables
    <3>2. x.hd[h].idx = hd[h].idx /\ x.hd[h].used = hd[h].used /\ x.hd[h].ss = hd[h].ss
      BY <1>1, <1>2, <1>6
    <3> QED BY <1>8, <3>1, <3>2
  <2>2. \A h \in Hdl \ {g} : \A k \in 0 .. M : AbsPage(table', h, k) = AbsPage(table, h, k)
    BY <1>2, <1>6, <1>7
  <2>3. \A p \in Page : pd[p].frame # Nil /\ pd'[p].frame # Nil => pd'[p].frame = pd[p].frame
    BY <1>1, <1>2, <1>6, <1>8
  <2> QED BY <1>6, <1>7, <2>1, <2>2, <2>3 DEF Touches
<1>10. Keeps(g)
  BY <1>1, <1>2, <1>6, <1>8 DEF Keeps
<1>11. PageCount(x, g) = n
  <2>1. /\ PageCount(x, g) \in 0 .. M
        /\ \A k \in 0 .. M : /\ k < PageCount(x, g) => AbsPage(x, g, k) \in Page
                             /\ k >= PageCount(x, g) => AbsPage(x, g, k) = Nil
    BY <1>6, ChainLength
  <2>2. AbsPage(x, g, n) = Nil
    BY <1>6, <1>5
  <2>3. \A k \in 0 .. M : k < n => AbsPage(x, g, k) \in Page
    <3> TAKE k \in 0 .. M
    <3> HAVE k < n
    <3>1. ~ (k >= n) /\ k < PageCount(t, g)
      BY <1>0, <1>3, <1>4, <1>5
    <3>2. AbsPage(x, g, k) = AbsPage(t, g, k)
      BY <1>6, <3>1
    <3> QED BY <1>4, <3>1, <3>2
  <2>4. ~ (n < PageCount(x, g))
    BY <1>0, <2>1, <2>2
  <2>5. ~ (PageCount(x, g) < n)
    BY <1>0, <2>1, <2>3
  <2> QED BY <2>1, <2>4, <2>5, <1>5
<1>12. \A k \in 0 .. n - 1 : AbsPage(x, g, k) = AbsPage(t, g, k)
  <2> TAKE k \in 0 .. n - 1
  <2>1. k \in 0 .. M /\ ~ (k >= n)
    BY <1>0, <1>5
  <2> QED BY <1>6, <2>1
<1> QED BY <1>2, <1>3, <1>7, <1>9, <1>10, <1>11, <1>12

(* 51h with more pages appends what the pool granted, also when it is less *)
(* than asked for.                                                         *)
LEMMA ExtendStep ==
  ASSUME EmsInv, NEW g \in Hdl, NEW n \in 0 .. EMSPagesMax, Extend(g, n)
  PROVE  \E fr \in Granted(n - PageCount(table, g)) :
           /\ Touches(g) /\ Keeps(g) /\ ok' \in BOOLEAN
           /\ n - PageCount(table, g) \in Nat
           /\ PageCount(table', g) = PageCount(table, g) + Len(fr)
           /\ \A k \in 0 .. PageCount(table, g) - 1 : AbsPage(table', g, k) = AbsPage(table, g, k)
           /\ \A i \in 1 .. Len(fr) :
                pd'[AbsPage(table', g, PageCount(table, g) + i - 1)].frame = fr[i]
           /\ \A p \in Page : pd[p].frame # Nil => pd'[p].frame = pd[p].frame
<1> DEFINE M == EMSPagesMax
<1>0. M \in Nat /\ n \in Nat /\ Nil \notin Page
  BY Constants
<1>1. /\ Sound(table) /\ table \in Tables /\ table.hd = hd /\ table.pd = pd /\ table.n = pagesUsed
      /\ hd \in [Hdl -> [idx : Page \cup {Nil}, used : BOOLEAN, ss : Slot \cup {Nil}]]
  BY TableFacts
<1>2. PICK t, L, more : t = table /\ L = PageCount(t, g) /\ more = n - L
  OBVIOUS
<1>3. L \in 0 .. M /\ \A k \in 0 .. M : k < L => AbsPage(t, g, k) \in Page
  BY <1>1, <1>2, ChainLength
<1>4. more > 0 /\ more \in Nat /\ more <= GetFreeEMSPages
  <2>1. more > 0 /\ more <= GetFreeEMSPages
    BY <1>2 DEF Extend
  <2> QED BY <2>1, <1>0, <1>2, <1>3
<1> DEFINE Outcome(fr, t1) ==
             /\ t1 = AllocateEMSPages(t, g, LastPage(t, g), fr)
             /\ SetTable(t1) /\ ok' = (Len(fr) = more)
<1>5a. PICK fr \in Granted(more) : \E t1 : Outcome(fr, t1)
  BY <1>2 DEF Extend
<1>5b. PICK x : Outcome(fr, x)
  BY <1>5a
<1>5. /\ x = AllocateEMSPages(t, g, LastPage(t, g), fr)
      /\ SetTable(x) /\ ok' = (Len(fr) = more)
  BY <1>5b
<1> HIDE DEF Outcome
<1>6. /\ Len(fr) \in 0 .. more
      /\ \A i \in 1 .. Len(fr) : fr[i] \in Frame
      /\ \A i, j \in 1 .. Len(fr) : fr[i] = fr[j] => i = j
      /\ \A i \in 1 .. Len(fr) : \A p \in Page : pd[p].frame # fr[i]
  BY <1>4, GrantedFrames
<1>7. more <= M - pagesUsed /\ pagesUsed \in 0 .. M
  <2>1. FreePagesHaveDescriptors
    BY WholeIfInv DEF HandlesWhole
  <2>2. Cardinality(FreePages(table)) = M - pagesUsed /\ pagesUsed \in 0 .. M
    BY <1>1, FreeCount
  <2>3. GetFreeEMSPages \in Int
    BY <2>2, <1>0, FreeIsNat
  <2> QED BY <2>1, <2>2, <2>3, <1>0, <1>4 DEF FreePagesHaveDescriptors
<1>8. Grown(t, x, g, fr, Len(fr))
  <2>1. Len(fr) \in Nat /\ Len(fr) <= M - t.n
    BY <1>0, <1>1, <1>2, <1>4, <1>6, <1>7
  <2>2. \A i \in 1 .. Len(fr) : \A p \in Page : t.pd[p].frame # fr[i]
    BY <1>1, <1>2, <1>6
  <2>3. Sound(t)
    BY <1>1, <1>2
  <2> QED BY <1>5, <1>6, <2>1, <2>2, <2>3, Allocating
<1>9. /\ Sound(x)
      /\ \A h \in Hdl : /\ x.hd[h].used = t.hd[h].used /\ x.hd[h].ss = t.hd[h].ss
                        /\ h # g => x.hd[h].idx = t.hd[h].idx
      /\ PageCount(x, g) = L + Len(fr)
      /\ \A h \in Hdl : \A k \in 0 .. M :
           h # g \/ k < L => AbsPage(x, h, k) = AbsPage(t, h, k)
      /\ \A p \in Page : t.pd[p].frame # Nil => x.pd[p].frame = t.pd[p].frame
      /\ \A i \in 1 .. Len(fr) : x.pd[AbsPage(x, g, L + i - 1)].frame = fr[i]
  BY <1>2, <1>8 DEF Grown
<1>10. table' = x /\ x \in Tables
  <2>1. x \in Tables
    BY <1>9 DEF Sound
  <2> QED BY <1>5, <2>1, TableSet
<1>11. hd' = x.hd /\ pd' = x.pd
  BY <1>10, PrimedTable
<1>12. Touches(g)
  <2>1. \A h \in Hdl \ {g} : hd'[h] = hd[h]
    <3> TAKE h \in Hdl \ {g}
    <3>1. /\ x.hd[h] \in [idx : Page \cup {Nil}, used : BOOLEAN, ss : Slot \cup {Nil}]
          /\ hd[h] \in [idx : Page \cup {Nil}, used : BOOLEAN, ss : Slot \cup {Nil}]
      BY <1>1, <1>10 DEF Tables
    <3>2. x.hd[h].idx = hd[h].idx /\ x.hd[h].used = hd[h].used /\ x.hd[h].ss = hd[h].ss
      BY <1>1, <1>2, <1>9
    <3> QED BY <1>11, <3>1, <3>2
  <2>2. \A h \in Hdl \ {g} : \A k \in 0 .. M : AbsPage(table', h, k) = AbsPage(table, h, k)
    BY <1>2, <1>9, <1>10
  <2>3. \A p \in Page : pd[p].frame # Nil /\ pd'[p].frame # Nil => pd'[p].frame = pd[p].frame
    BY <1>1, <1>2, <1>9, <1>11
  <2> QED BY <1>9, <1>10, <2>1, <2>2, <2>3 DEF Touches
<1>13. Keeps(g)
  BY <1>1, <1>2, <1>9, <1>11 DEF Keeps
<1>14. \A k \in 0 .. L - 1 : AbsPage(x, g, k) = AbsPage(t, g, k)
  <2> TAKE k \in 0 .. L - 1
  <2>1. k \in 0 .. M /\ k < L
    BY <1>0, <1>3
  <2> QED BY <1>9, <2>1
<1>15. ok' \in BOOLEAN
  BY <1>5
<1> QED BY <1>1, <1>2, <1>4, <1>5, <1>9, <1>10, <1>11, <1>12, <1>13, <1>14, <1>15

(* 47h and 48h change the slot of one handle, and no chain.                *)
LEMMA FlagStep ==
  ASSUME EmsInv, NEW g \in Hdl, NEW s \in Slot \cup {Nil},
         hd' = [hd EXCEPT ![g].ss = s], UNCHANGED <<pd, pagesUsed>>
  PROVE  /\ Sound(table') /\ Used' = Used
         /\ \A h \in Hdl, k \in 0 .. EMSPagesMax : AbsPage(table', h, k) = AbsPage(table, h, k)
         /\ \A h \in Hdl : PageCount(table', h) = PageCount(table, h)
         /\ \A h \in Hdl : hd'[h].ss = IF h = g THEN s ELSE hd[h].ss
         /\ \A h \in Hdl \ {g} : hd'[h] = hd[h]
         /\ hd'[g].used = hd[g].used
<1>1. /\ Sound(table) /\ table \in Tables /\ table.hd = hd /\ table.pd = pd /\ table.n = pagesUsed
      /\ hd \in [Hdl -> [idx : Page \cup {Nil}, used : BOOLEAN, ss : Slot \cup {Nil}]]
      /\ pd \in [Page -> [next : Page \cup {Nil}, frame : Frame \cup {Nil}]]
  BY TableFacts
<1>2. PICK t2 : t2 = table'
  OBVIOUS
<1>3. /\ t2.hd = [hd EXCEPT ![g].ss = s] /\ t2.pd = pd /\ t2.n = pagesUsed
      /\ t2 = [hd |-> t2.hd, pd |-> t2.pd, n |-> t2.n]
  BY <1>2 DEF table
<1>4. [hd EXCEPT ![g].ss = s] \in [Hdl -> [idx : Page \cup {Nil}, used : BOOLEAN, ss : Slot \cup {Nil}]]
  BY <1>1
<1>5. t2 \in Tables
  <2>1. pagesUsed \in Int
    BY <1>1 DEF Tables
  <2> QED BY <1>1, <1>3, <1>4, <2>1 DEF Tables
<1>6. \A h \in Hdl : /\ hd'[h].idx = hd[h].idx /\ hd'[h].used = hd[h].used
                     /\ hd'[h].ss = IF h = g THEN s ELSE hd[h].ss
                     /\ h # g => hd'[h] = hd[h]
  BY <1>1
<1>7. /\ Sound(t2)
      /\ \A h \in Hdl, k \in 0 .. EMSPagesMax : AbsPage(t2, h, k) = AbsPage(table, h, k)
      /\ \A h \in Hdl : PageCount(t2, h) = PageCount(table, h)
  <2>1. \A h \in Hdl : t2.hd[h].idx = table.hd[h].idx
    BY <1>1, <1>3, <1>6
  <2> QED BY <1>1, <1>3, <1>5, <2>1, FlagsOnly
<1>8. Used' = Used
  BY <1>6 DEF Used
<1> QED BY <1>2, <1>6, <1>7, <1>8

(* What a call that relinks pages does to the handle's entry and name.     *)
Closed(g) == hd'[g] = NoHandle /\ hd[g].ss = Nil /\ name' = [name EXCEPT ![g] = ""]
StaysOpen(g) == hd'[g].used = TRUE /\ hd'[g].ss = hd[g].ss /\ name' = name

(* A call that relinks pages of one handle keeps the invariant.            *)
LEMMA HandleInv ==
  ASSUME EmsInv, NEW g \in Hdl, Touches(g), ok' \in BOOLEAN,
         UNCHANGED <<state, windows, buffers, others>>, Closed(g) \/ StaysOpen(g)
  PROVE  EmsInv'
<1>1. /\ hd \in [Hdl -> [idx : Page \cup {Nil}, used : BOOLEAN, ss : Slot \cup {Nil}]]
      /\ \A h \in Hdl \ Used : hd[h] = NoHandle
  BY TableFacts
<1>2. NoHandle.ss = Nil /\ NoHandle.used = FALSE
  BY DEF NoHandle
<1>3. \A h \in Hdl \ {g} : hd'[h] = hd[h] /\ (h \in Used' <=> h \in Used)
  <2>1. \A h \in Hdl \ {g} : hd'[h] = hd[h]
    BY DEF Touches
  <2> QED BY <2>1 DEF Used
<1>4. hd'[g].ss = hd[g].ss /\ (g \notin Used' => hd'[g] = NoHandle)
  <2>1. CASE Closed(g)
    <3>1. hd'[g] = NoHandle /\ hd[g].ss = Nil
      BY <2>1 DEF Closed
    <3> QED BY <3>1, <1>2
  <2>2. CASE StaysOpen(g)
    <3>1. hd'[g].used = TRUE /\ hd'[g].ss = hd[g].ss
      BY <2>2 DEF StaysOpen
    <3> QED BY <3>1 DEF Used
  <2> QED BY <2>1, <2>2
<1>5. SlotsInv'
  <2>1. state' = state /\ SlotsInv
    BY DEF EmsInv
  <2> QED BY <1>3, <1>4, <2>1 DEF SlotsInv
<1>6. NamesInv'
  <2>1. name \in [Hdl -> Names \cup {"", "SYSTEM"}] /\ NamesUnique
    BY DEF EmsInv, NamesInv
  <2>2. Used \subseteq Hdl /\ Used' \subseteq Hdl
    BY DEF Used
  <2>3. CASE Closed(g)
    <3>1. hd'[g] = NoHandle
      BY <2>3 DEF Closed
    <3>2. g \notin Used'
      BY <3>1, <1>2 DEF Used
    <3>3. name' = [name EXCEPT ![g] = ""]
      BY <2>3 DEF Closed
    <3>4. NamesUnique'
      BY <2>1, <2>2, <1>3, <3>2, <3>3 DEF NamesUnique
    <3> QED BY <2>1, <3>3, <3>4 DEF NamesInv
  <2>4. CASE StaysOpen(g)
    <3>1. hd'[g].used = TRUE /\ name' = name
      BY <2>4 DEF StaysOpen
    <3>2. g \in Used' /\ (g \notin Used => name[g] = "")
      BY <2>1, <3>1 DEF Used, NamesUnique
    <3>3. NamesUnique'
      BY <2>1, <2>2, <1>3, <3>1, <3>2 DEF NamesUnique
    <3> QED BY <2>1, <3>1, <3>3 DEF NamesInv
  <2> QED BY <2>3, <2>4
<1>8. Sound(table') /\ \A h \in Hdl \ Used' : hd'[h] = NoHandle
  BY <1>1, <1>3, <1>4 DEF Touches
<1>7. WindowsInv' /\ BuffersInv' /\ others' \subseteq Frame
  BY DEF EmsInv, WindowsInv, BuffersInv, windows, buffers
<1> QED BY <1>5, <1>6, <1>7, <1>8 DEF EmsInv

(* The tables before EMS_Init2 gives the system handle its pages.          *)
LEMMA EmptyTable ==
  /\ Sound(Empty) /\ PageCount(Empty, 0) = 0 /\ LastPage(Empty, 0) = Nil
  /\ Empty.hd[0] = [idx |-> Nil, used |-> TRUE, ss |-> Nil]
  /\ \A h \in Hdl \ {0} : Empty.hd[h] = NoHandle
  /\ \A p \in Page : Empty.pd[p] = NoPage
  /\ Empty.n = 0
<1> DEFINE M == EMSPagesMax
<1>0. M \in Nat /\ 0 \in Hdl /\ Nil \notin Page
  BY Constants
<1>1. PICK t, H : t = Empty /\ H = [[h \in Hdl |-> NoHandle] EXCEPT ![0].used = TRUE]
  OBVIOUS
<1>2. t.hd = H /\ t.pd = [p \in Page |-> NoPage] /\ t.n = 0 /\ t = [hd |-> t.hd, pd |-> t.pd, n |-> t.n]
  BY <1>1 DEF Empty
<1>3. /\ H \in [Hdl -> [idx : Page \cup {Nil}, used : BOOLEAN, ss : Slot \cup {Nil}]]
      /\ H[0] = [idx |-> Nil, used |-> TRUE, ss |-> Nil]
      /\ \A h \in Hdl \ {0} : H[h] = NoHandle
      /\ \A h \in Hdl : H[h].idx = Nil
  BY <1>1, <1>0 DEF NoHandle
<1>4. t \in Tables
  <2>1. t.hd \in [Hdl -> [idx : Page \cup {Nil}, used : BOOLEAN, ss : Slot \cup {Nil}]]
    BY <1>2, <1>3
  <2>2. t.pd \in [Page -> [next : Page \cup {Nil}, frame : Frame \cup {Nil}]]
    BY <1>2 DEF NoPage
  <2> QED BY <1>2, <2>1, <2>2 DEF Tables
<1>5. ASSUME NEW h \in Hdl PROVE \A k \in 0 .. M : AbsPage(t, h, k) = Nil
  <2> DEFINE q == [k \in 0 .. M |-> Nil]
  <2>1. q[0] = t.hd[h].idx
    BY <1>0, <1>2, <1>3
  <2>2. \A k \in 0 .. M - 1 : q[k + 1] = Following(t, q[k])
    BY <1>0 DEF Following
  <2>3. M \in 0 .. M
    BY <1>0
  <2>4. \A k \in 0 .. M : AbsPage(t, h, k) = q[k]
    <3> HIDE DEF q
    <3> QED BY <1>4, <2>1, <2>2, <2>3, WalkUnique
  <2> QED BY <2>4
<1>6. \A p \in Page : t.pd[p] = NoPage /\ t.pd[p].frame = Nil
  BY <1>2 DEF NoPage
<1>7. Sound(t)
  <2>1. {p \in Page : t.pd[p].frame # Nil} = {}
    BY <1>6
  <2>2. t.n = Cardinality({p \in Page : t.pd[p].frame # Nil})
    BY <1>2, <2>1, FS_EmptySet
  <2>3. \A g, h \in Hdl : \A i, j \in 0 .. M :
          AbsPage(t, g, i) # Nil /\ AbsPage(t, g, i) = AbsPage(t, h, j) => g = h /\ i = j
    BY <1>5
  <2>4. \A p \in Page : t.pd[p].frame # Nil <=> \E g \in Hdl : \E i \in 0 .. M : AbsPage(t, g, i) = p
    BY <1>0, <1>5, <1>6
  <2> QED BY <1>4, <1>6, <2>2, <2>3, <2>4 DEF Sound
<1>8. t.hd[0].idx = Nil
  BY <1>0, <1>2, <1>3
<1>9. PageCount(t, 0) = 0 /\ LastPage(t, 0) = Nil
  BY <1>0, <1>7, <1>8, EmptyChain
<1> QED BY <1>1, <1>2, <1>3, <1>6, <1>7, <1>9

(* Without EMS a physical page shows conventional memory or a hole.        *)
LEMMA IdentityType == Identity \in [Phys \cup {Low} -> Frame \cup {Hole}]
<1>1. PICK n, f : n = Conv /\ f = ConvFrames
  OBVIOUS
<1>2. f \in Seq(Frame) /\ n = Len(f) /\ PhysPages \in Nat /\ FrameSize \in 0 .. PhysPages - n
  BY <1>1, EmsAssumption DEF EmsAssumption, Conv
<1>3. n \in Nat /\ \A i \in 1 .. n : f[i] \in Frame
  BY <1>2, LenProperties
<1>4. ASSUME NEW p \in Phys \cup {Low}
      PROVE  (IF p >= PhysPages - n THEN f[p - (PhysPages - n) + 1] ELSE Hole) \in Frame \cup {Hole}
  <2>1. p >= PhysPages - n => p - (PhysPages - n) + 1 \in 1 .. n
    BY <1>2, <1>3 DEF Phys, Low
  <2> QED BY <1>3, <2>1
<1>5. Identity = [p \in Phys \cup {Low} |-> IF p >= PhysPages - n THEN f[p - (PhysPages - n) + 1] ELSE Hole]
  BY <1>1 DEF Identity
<1> QED BY <1>4, <1>5

(* EMS_Init1 and EMS_Init2 establish the invariant; the system handle has  *)
(* the conventional pages, in order.                                       *)
LEMMA InitInv ==
  ASSUME EmsInit
  PROVE  /\ EmsInv
         /\ PageCount(table, 0) = Conv
         /\ \A i \in 1 .. Conv : pd[AbsPage(table, 0, i - 1)].frame = ConvFrames[i]
         /\ hd[0].used = TRUE /\ \A h \in Hdl \ {0} : hd[h] = NoHandle
         /\ \A h \in Hdl : hd[h].ss = Nil
<1> DEFINE M == EMSPagesMax
<1>0. M \in Nat /\ 0 \in Hdl /\ Nil \notin Page /\ NumHandles \in Nat
  BY Constants
<1>1. PICK t, fr : t = AllocateEMSPages(Empty, 0, Nil, ConvFrames) /\ fr = ConvFrames
  OBVIOUS
<1>2. hd = t.hd /\ pd = t.pd /\ pagesUsed = t.n
  BY <1>1 DEF EmsInit
<1>3. /\ fr \in Seq(Frame) /\ Conv = Len(fr) /\ Conv <= M
      /\ \A i, j \in DOMAIN fr : fr[i] = fr[j] => i = j
  BY <1>1, EmsAssumption DEF EmsAssumption, Conv
<1>4. /\ Len(fr) \in Nat /\ DOMAIN fr = 1 .. Len(fr) /\ \A i \in 1 .. Len(fr) : fr[i] \in Frame
      /\ \A i \in 1 .. Len(fr) : fr[i] # Nil
  <2>1. Nil \notin Frame
    BY Constants
  <2> QED BY <1>3, <2>1, LenProperties
<1>5. PICK e : e = Empty
  OBVIOUS
<1>6. /\ Sound(e) /\ PageCount(e, 0) = 0 /\ LastPage(e, 0) = Nil
      /\ e.hd[0] = [idx |-> Nil, used |-> TRUE, ss |-> Nil]
      /\ \A h \in Hdl \ {0} : e.hd[h] = NoHandle
      /\ \A p \in Page : e.pd[p] = NoPage
      /\ e.n = 0
  BY <1>5, EmptyTable
<1>7. Grown(e, t, 0, fr, Len(fr))
  <2>1. \A i \in 1 .. Len(fr) : \A p \in Page : e.pd[p].frame # fr[i]
    BY <1>4, <1>6 DEF NoPage
  <2>2. Len(fr) <= M - e.n
    BY <1>0, <1>3, <1>4, <1>6
  <2>3. t = AllocateEMSPages(e, 0, Nil, fr) /\ \A i, j \in 1 .. Len(fr) : fr[i] = fr[j] => i = j
    BY <1>1, <1>3, <1>4, <1>5
  <2> QED BY <1>0, <1>4, <1>6, <2>1, <2>2, <2>3, Allocating
<1>8. /\ Sound(t) /\ t \in Tables
      /\ \A h \in Hdl : /\ t.hd[h].used = e.hd[h].used /\ t.hd[h].ss = e.hd[h].ss
                        /\ h # 0 => t.hd[h].idx = e.hd[h].idx
      /\ PageCount(t, 0) = 0 + Len(fr)
      /\ \A i \in 1 .. Len(fr) : t.pd[AbsPage(t, 0, 0 + i - 1)].frame = fr[i]
  BY <1>6, <1>7 DEF Grown, Sound
<1>9. table = t
  BY <1>2, <1>8 DEF table, Tables
<1>10. /\ hd[0].used = TRUE /\ hd[0].ss = Nil
       /\ \A h \in Hdl \ {0} : hd[h] = NoHandle
       /\ \A h \in Hdl : hd[h].ss = Nil
  <2>1. hd[0].used = TRUE /\ hd[0].ss = Nil
    BY <1>0, <1>2, <1>6, <1>8
  <2>2. \A h \in Hdl \ {0} : hd[h] = NoHandle
    <3> TAKE h \in Hdl \ {0}
    <3>1. t.hd[h] \in [idx : Page \cup {Nil}, used : BOOLEAN, ss : Slot \cup {Nil}]
      BY <1>8 DEF Tables
    <3>2. t.hd[h].idx = Nil /\ t.hd[h].used = FALSE /\ t.hd[h].ss = Nil
      BY <1>6, <1>8 DEF NoHandle
    <3> QED BY <1>2, <3>1, <3>2 DEF NoHandle
  <2>3. \A h \in Hdl : hd[h].ss = Nil
    BY <2>1, <2>2 DEF NoHandle
  <2> QED BY <2>1, <2>2, <2>3
<1>11. PageCount(table, 0) = Conv /\ \A i \in 1 .. Conv : pd[AbsPage(table, 0, i - 1)].frame = fr[i]
  <2>1. 0 + Len(fr) = Len(fr) /\ \A i \in 1 .. Len(fr) : 0 + i - 1 = i - 1
    BY <1>4
  <2> QED BY <1>2, <1>3, <1>8, <1>9, <2>1
<1>12. Used = {0}
  BY <1>0, <1>10 DEF Used, NoHandle
<1>13. \A h \in Hdl \ Used : hd[h] = NoHandle
  BY <1>10, <1>12
<1>14. SlotsInv
  BY <1>10 DEF EmsInit, SlotsInv
<1>15. NamesInv
  <2>1. name = [h \in Hdl |-> IF h = 0 THEN "SYSTEM" ELSE ""]
    BY DEF EmsInit
  <2>2. name \in [Hdl -> Names \cup {"", "SYSTEM"}]
    BY <2>1
  <2>3. NamesUnique
    BY <2>1, <1>12 DEF NamesUnique
  <2> QED BY <2>2, <2>3 DEF NamesInv
<1>16. WindowsInv
  <2>1. Identity \in [Phys \cup {Low} -> Frame \cup {Hole}]
    BY IdentityType
  <2> QED BY <2>1 DEF EmsInit, WindowsInv
<1>17. BuffersInv /\ others \subseteq Frame /\ ok \in BOOLEAN
  BY DEF EmsInit, BuffersInv, NoArea
<1> QED BY <1>1, <1>8, <1>9, <1>10, <1>11, <1>13, <1>14, <1>15, <1>16, <1>17 DEF EmsInv

(* The frames of the pages of g; only they, or what is there without EMS,  *)
(* come into a window that is mapped through g.                            *)
Behind(g) == {pd[AbsPage(table, g, k)].frame : k \in 0 .. PageCount(table, g) - 1}
Mapped(g) ==
  /\ pte' \in [Phys \cup {Low} -> Frame \cup {Hole}]
  /\ \A p \in Phys \cup {Low} : pte'[p] \in {pte[p], Identity[p]} \cup Behind(g)

(* A valid logical page shows a page of the handle.                        *)
LEMMA ShownRange ==
  ASSUME EmsInv, NEW g \in Hdl, NEW log \in Nat \cup {Nil}, Valid(g, log), NEW p
  PROVE  Shown(g, log, p) \in {Identity[p]} \cup (Behind(g) \cap Frame)
<1> DEFINE M == EMSPagesMax
<1>1. /\ Sound(table) /\ table \in Tables
      /\ pd \in [Page -> [next : Page \cup {Nil}, frame : Frame \cup {Nil}]]
  BY TableFacts
<1>2. M \in Nat /\ Nil \notin Frame /\ Nil \notin Page
  BY Constants
<1>3. CASE log = Nil
  BY <1>3 DEF Shown
<1>4. CASE log # Nil
  <2>1. PICK x, f : x = AbsPage(table, g, log) /\ f = pd[x].frame
    OBVIOUS
  <2>2. x # Nil
    BY <1>4, <2>1 DEF Valid
  <2>3. log \in 0 .. M
    <3>1. SUFFICES ASSUME log > M PROVE FALSE
      BY <1>2, <1>4
    <3> QED BY <3>1, <2>1, <2>2 DEF AbsPage
  <2>4. PageCount(table, g) \in 0 .. M /\ ~ (log >= PageCount(table, g))
    BY <1>1, <2>1, <2>2, <2>3, ChainLength
  <2>5. log \in 0 .. PageCount(table, g) - 1
    BY <2>3, <2>4, <1>2
  <2>6. x \in Page
    BY <1>1, <2>1, <2>2, <2>3, Walk
  <2>7. f \in Frame \cup {Nil}
    BY <1>1, <2>1, <2>6
  <2>8. f \in Behind(g)
    BY <2>1, <2>5 DEF Behind
  <2>9. Shown(g, log, p) = IF f = Nil THEN Identity[p] ELSE f
    BY <1>4, <2>1 DEF Shown
  <2> QED BY <2>7, <2>8, <2>9
<1> QED BY <1>3, <1>4

(* 44h maps through its handle only and flushes the TLB.                   *)
LEMMA MapPageStep ==
  ASSUME EmsInv, NEW g \in Hdl, NEW log \in Page \cup {Nil}, NEW p \in Phys,
         EMS_MAP_HANDLE_PAGE(g, log, p)
  PROVE  Mapped(g) /\ stale' = {}
<1>1. pte \in [Phys \cup {Low} -> Frame \cup {Hole}]
  BY DEF EmsInv, WindowsInv
<1>2. PICK x : x = Shown(g, log, p)
  OBVIOUS
<1>3. pte' = [pte EXCEPT ![p] = x] /\ stale' = {} /\ Valid(g, log)
  BY <1>2 DEF EMS_MAP_HANDLE_PAGE
<1>4. log \in Nat \cup {Nil}
  BY DEF Page
<1>5. x \in {Identity[p]} \cup (Behind(g) \cap Frame)
  BY <1>2, <1>3, <1>4, ShownRange
<1>6. Identity[p] \in Frame \cup {Hole}
  BY IdentityType
<1> QED BY <1>1, <1>3, <1>5, <1>6 DEF Mapped

(* 50h stops at the first bad item.                                        *)
LEMMA GoodPrefixFact ==
  ASSUME NEW g, NEW sub, NEW list, NEW n \in Nat, n = Len(list)
  PROVE  /\ GoodPrefix(g, sub, list) \in 0 .. n
         /\ \A i \in 1 .. GoodPrefix(g, sub, list) : GoodItem(g, sub, list[i])
<1> DEFINE Good(i) == GoodItem(g, sub, list[i])
           Is(k) == (\A i \in 1 .. k : Good(i)) /\ (k < n => ~ Good(k + 1))
           Bad == {i \in 1 .. n : ~ Good(i)}
<1> HIDE DEF Good
<1>1. \E k \in 0 .. n : Is(k)
  <2>1. CASE Bad = {}
    <3>1. n \in 0 .. n /\ Is(n)
      BY <2>1
    <3> QED BY <3>1
  <2>2. CASE Bad # {}
    <3>1. PICK b \in Bad : \A j \in Bad : b <= j
      <4>1. Bad \in SUBSET Nat
        OBVIOUS
      <4> HIDE DEF Bad
      <4> QED BY <2>2, <4>1, LeastNat
    <3>2. b - 1 \in 0 .. n /\ (b - 1) + 1 = b /\ ~ Good(b) /\ b \in 1 .. n
      BY <3>1
    <3>3. \A i \in 1 .. b - 1 : Good(i)
      <4> SUFFICES ASSUME NEW i \in 1 .. b - 1, ~ Good(i) PROVE FALSE
        OBVIOUS
      <4>1. i \in Bad
        BY <3>2
      <4> QED BY <4>1, <3>1, <3>2
    <3> QED BY <3>2, <3>3
  <2> QED BY <2>1, <2>2
<1>2. GoodPrefix(g, sub, list) = CHOOSE k \in 0 .. n : Is(k)
  BY DEF GoodPrefix, Good
<1>3. PICK k : k = CHOOSE x \in 0 .. n : Is(x)
  OBVIOUS
<1>4. k \in 0 .. n /\ Is(k)
  <2> HIDE DEF Is
  <2> QED BY <1>1, <1>3
<1> QED BY <1>2, <1>3, <1>4 DEF Good

(* 50h maps through its handle only, and flushes if it succeeds.           *)
LEMMA MapMultipleStep ==
  ASSUME EmsInv, NEW g \in Hdl, NEW sub, NEW list \in Lists, ems4_map_multiple(g, sub, list)
  PROVE  /\ Mapped(g) /\ stale' \subseteq Phys \cup {Low} /\ ok' \in BOOLEAN
         /\ ok' => stale' = {}
<1>1. pte \in [Phys \cup {Low} -> Frame \cup {Hole}] /\ stale \subseteq Phys \cup {Low}
  BY DEF EmsInv, WindowsInv
<1>2. list \in Seq((Nat \cup {Nil}) \X Nat)
  BY EmsAssumption DEF EmsAssumption
<1>3. PICK k, n : k = GoodPrefix(g, sub, list) /\ n = Len(list)
  OBVIOUS
<1>4. n \in Nat /\ DOMAIN list = 1 .. n /\ \A i \in 1 .. n : list[i] \in (Nat \cup {Nil}) \X Nat
  BY <1>2, <1>3, LenProperties
<1>5. k \in 0 .. n /\ \A i \in 1 .. k : GoodItem(g, sub, list[i])
  BY <1>3, <1>4, GoodPrefixFact
<1> DEFINE to(i) == EMSPage2Segm(list[i][2])
           last(p) == {i \in 1 .. k : to(i) = p /\ \A j \in (i + 1) .. k : to(j) # p}
<1>6. /\ pte' = [p \in DOMAIN pte |-> IF last(p) = {} THEN pte[p]
                   ELSE Shown(g, list[CHOOSE i \in last(p) : TRUE][1], p)]
      /\ stale' = StaleAfter({to(i) : i \in 1 .. k}, k = n)
      /\ ok' = (k = n)
  BY <1>3 DEF ems4_map_multiple
<1>7. ASSUME NEW p \in Phys \cup {Low}
      PROVE  pte'[p] \in ({pte[p], Identity[p]} \cup Behind(g)) /\ pte'[p] \in Frame \cup {Hole}
  <2>1. pte[p] \in Frame \cup {Hole} /\ Identity[p] \in Frame \cup {Hole}
    BY <1>1, IdentityType
  <2>2. CASE last(p) = {}
    BY <1>1, <1>6, <2>1, <2>2
  <2>3. CASE last(p) # {}
    <3>1. PICK i : i = CHOOSE j \in last(p) : TRUE
      OBVIOUS
    <3>2. i \in last(p)
      <4> HIDE DEF last
      <4> QED BY <2>3, <3>1
    <3>3. i \in 1 .. k
      BY <3>2
    <3>4. pte'[p] = Shown(g, list[i][1], p)
      <4> HIDE DEF last
      <4> QED BY <1>1, <1>6, <2>3, <3>1
    <3>5. list[i][1] \in Nat \cup {Nil} /\ Valid(g, list[i][1])
      <4>1. i \in 1 .. n
        BY <3>3, <1>4, <1>5
      <4>2. list[i][1] \in Nat \cup {Nil}
        BY <4>1, <1>4
      <4>3. GoodItem(g, sub, list[i])
        BY <3>3, <1>5
      <4> QED BY <4>2, <4>3 DEF GoodItem
    <3>6. Shown(g, list[i][1], p) \in {Identity[p]} \cup (Behind(g) \cap Frame)
      <4>1. PICK log : log = list[i][1]
        OBVIOUS
      <4>2. Shown(g, log, p) \in {Identity[p]} \cup (Behind(g) \cap Frame)
        BY <4>1, <3>5, ShownRange
      <4> QED BY <4>1, <4>2
    <3> QED BY <2>1, <3>4, <3>6
  <2> QED BY <2>2, <2>3
<1>8. Mapped(g)
  <2>1. pte' \in [Phys \cup {Low} -> Frame \cup {Hole}]
    <3>1. DOMAIN pte = Phys \cup {Low}
      BY <1>1
    <3>2. pte' = [p \in Phys \cup {Low} |-> pte'[p]]
      <4> HIDE DEF last
      <4> QED BY <1>6, <3>1
    <3> QED BY <3>2, <1>7
  <2> QED BY <2>1, <1>7 DEF Mapped
<1>9. stale' \subseteq Phys \cup {Low}
  BY <1>1, <1>6 DEF StaleAfter, EMSPage2Segm
<1>10. ok' \in BOOLEAN /\ (ok' => stale' = {})
  BY <1>6 DEF StaleAfter
<1> QED BY <1>8, <1>9, <1>10

(* A page map laid over the windows shows frames.                          *)
LEMMA OverType ==
  ASSUME WindowsInv, NEW m \in Maps
  PROVE  Over(m) \in [Phys \cup {Low} -> Frame \cup {Hole}]
<1>1. pte \in [Phys \cup {Low} -> Frame \cup {Hole}]
  BY DEF WindowsInv
<1>2. PICK S \in SUBSET Phys : m \in [S -> Frame \cup {Hole}]
  BY DEF Maps
<1> QED BY <1>1, <1>2 DEF Over

(* A recorded part of the windows is a page map.                           *)
LEMMA OnlyType ==
  ASSUME WindowsInv, NEW S \in SUBSET Phys
  PROVE  Only(pte, S) \in [S -> Frame \cup {Hole}] /\ Only(pte, S) \in Maps
<1>1. pte \in [Phys \cup {Low} -> Frame \cup {Hole}]
  BY DEF WindowsInv
<1>2. Only(pte, S) \in [S -> Frame \cup {Hole}]
  BY <1>1 DEF Only
<1> QED BY <1>2 DEF Maps

(* The page frame is part of the physical pages.                           *)
LEMMA WindowInFrame == Window \subseteq Phys
<1>1. PICK n : n = Conv
  OBVIOUS
<1>2. n \in Nat /\ PhysPages \in Nat /\ FrameSize \in 0 .. PhysPages - n
  BY <1>1, EmsAssumption, LenProperties DEF EmsAssumption, Conv
<1> QED BY <1>2 DEF Window, Phys

(* A call that changes windows and buffers only keeps the tables whole.    *)
LEMMA BufferInv ==
  ASSUME EmsInv, UNCHANGED <<handles, state, others>>, WindowsInv', BuffersInv', ok' \in BOOLEAN
  PROVE  EmsInv' /\ table' = table
<1>1. /\ Sound(table) /\ SlotsInv /\ NamesInv /\ others \subseteq Frame
      /\ \A h \in Hdl \ Used : hd[h] = NoHandle
  BY DEF EmsInv
<1>2. hd' = hd /\ pd' = pd /\ pagesUsed' = pagesUsed /\ name' = name /\ state' = state /\ others' = others
  BY DEF handles
<1>3. table' = table /\ Used' = Used
  BY <1>2 DEF table, Used
<1>4. SlotsInv' /\ NamesInv'
  BY <1>1, <1>2, <1>3 DEF SlotsInv, NamesInv, NamesUnique
<1>5. Sound(table') /\ \A h \in Hdl \ Used' : hd'[h] = NoHandle
  BY <1>1, <1>2, <1>3
<1> QED BY <1>1, <1>2, <1>3, <1>4, <1>5 DEF EmsInv

(* 4Eh, 4Fh and 5Bh fill one buffer with a page map.                       *)
LEMMA StoredType ==
  ASSUME BuffersInv, WindowsInv, NEW a \in Areas, NEW S \in SUBSET Phys, NEW kind,
         area' = [area EXCEPT ![a] = [kind |-> kind, m |-> Only(pte, S)]]
  PROVE  /\ DOMAIN area' = Areas
         /\ \A b \in Areas : area'[b].kind # "none" => area'[b].m \in Maps
         /\ area'[a] = [kind |-> kind, m |-> Only(pte, S)]
         /\ \A b \in Areas \ {a} : area'[b] = area[b]
<1>1. PICK x : x = Only(pte, S)
  OBVIOUS
<1>2. x \in Maps
  BY <1>1, OnlyType
<1>3. area' = [area EXCEPT ![a] = [kind |-> kind, m |-> x]] /\ DOMAIN area = Areas
  BY <1>1 DEF BuffersInv
<1>4. DOMAIN area' = Areas /\ area'[a] = [kind |-> kind, m |-> x]
      /\ \A b \in Areas \ {a} : area'[b] = area[b]
  BY <1>3
<1>5. \A b \in Areas : area'[b].kind # "none" => area'[b].m \in Maps
  BY <1>2, <1>4 DEF BuffersInv
<1> QED BY <1>1, <1>4, <1>5

(* 4Eh and 5Bh lay a stored map over the windows and flush, or refuse.     *)
LEMMA SetFromStep ==
  ASSUME WindowsInv, NEW buf, NEW b, SetFrom(b, buf),
         buf[b].kind # "none" => buf[b].m \in Maps
  PROVE  /\ WindowsInv' /\ ok' \in BOOLEAN
         /\ \/ buf[b].kind = "map" /\ pte' = Over(buf[b].m) /\ stale' = {}
            \/ UNCHANGED windows
<1>1. CASE buf[b].kind = "map"
  <2>1. pte' = Over(buf[b].m) /\ stale' = {} /\ ok' = TRUE
    BY <1>1 DEF SetFrom
  <2>2. buf[b].m \in Maps
    BY <1>1
  <2>3. Over(buf[b].m) \in [Phys \cup {Low} -> Frame \cup {Hole}]
    <3>1. PICK m : m = buf[b].m
      OBVIOUS
    <3> QED BY <2>2, <3>1, OverType
  <2> QED BY <1>1, <2>1, <2>3 DEF WindowsInv
<1>2. CASE buf[b].kind # "map"
  <2>1. ok' = FALSE /\ UNCHANGED windows
    BY <1>2 DEF SetFrom
  <2> QED BY <2>1 DEF WindowsInv, windows
<1> QED BY <1>1, <1>2

(* 47h takes a free slot: nobody else's saved context is overwritten.      *)
LEMMA SaveInv ==
  ASSUME EmsInv, NEW g \in Hdl, EMS_SAVE_PAGES(g)
  PROVE  EmsInv'
<1>1. PICK s \in Slot :
        /\ state[s] = Nil
        /\ hd' = [hd EXCEPT ![g].ss = s] /\ state' = [state EXCEPT ![s] = Only(pte, Window)]
  BY DEF EMS_SAVE_PAGES
<1>2. /\ pd' = pd /\ pagesUsed' = pagesUsed /\ name' = name /\ pte' = pte /\ stale' = stale
      /\ area' = area /\ mapptr' = mapptr /\ others' = others /\ ok' = TRUE
      /\ g \in Used /\ hd[g].ss = Nil
  BY DEF EMS_SAVE_PAGES, windows, buffers
<1>3. /\ Sound(table') /\ Used' = Used
      /\ \A h \in Hdl : hd'[h].ss = IF h = g THEN s ELSE hd[h].ss
      /\ \A h \in Hdl \ {g} : hd'[h] = hd[h]
  BY <1>1, <1>2, FlagStep
<1>4. \A h \in Hdl \ Used' : hd'[h] = NoHandle
  BY <1>2, <1>3 DEF EmsInv
<1>5. SlotsInv'
  <2>1. PICK m : m = Only(pte, Window)
    OBVIOUS
  <2>2. m \in [Window -> Frame \cup {Hole}]
    BY <2>1, OnlyType, WindowInFrame DEF EmsInv
  <2>3. m # Nil /\ s # Nil
    BY <2>2, Constants, EmsAssumption DEF EmsAssumption
  <2>4. /\ state \in [Slot -> [Window -> Frame \cup {Hole}] \cup {Nil}]
        /\ \A h \in Hdl : hd[h].ss # Nil => state[hd[h].ss] # Nil
        /\ \A h, k \in Hdl : hd[h].ss # Nil /\ hd[h].ss = hd[k].ss => h = k
        /\ \A r \in Slot : state[r] # Nil => \E h \in Hdl : hd[h].ss = r
    BY DEF EmsInv, SlotsInv
  <2>5. /\ state' \in [Slot -> [Window -> Frame \cup {Hole}] \cup {Nil}]
        /\ \A r \in Slot : state'[r] = IF r = s THEN m ELSE state[r]
    BY <1>1, <2>1, <2>2, <2>4
  <2>6. \A h \in Hdl : hd[h].ss # s
    BY <1>1, <2>3, <2>4
  <2>7. \A h \in Hdl : hd[h].ss \in Slot \cup {Nil}
    BY TableFacts
  <2>8. \A h \in Hdl : hd'[h].ss # Nil => state'[hd'[h].ss] # Nil
    BY <1>3, <2>3, <2>4, <2>5, <2>6, <2>7
  <2>9. \A h, k \in Hdl : hd'[h].ss # Nil /\ hd'[h].ss = hd'[k].ss => h = k
    BY <1>3, <2>4, <2>6
  <2>10. \A r \in Slot : state'[r] # Nil => \E h \in Hdl : hd'[h].ss = r
    <3>1. Nil \notin Slot
      BY Constants
    <3>2. ASSUME NEW r \in Slot, state'[r] # Nil, r # s PROVE \E h \in Hdl : hd'[h].ss = r
      BY <3>1, <3>2, <1>2, <1>3, <2>4, <2>5
    <3> QED BY <1>3, <3>2
  <2> QED BY <2>5, <2>8, <2>9, <2>10 DEF SlotsInv
<1>6. NamesInv' /\ WindowsInv' /\ BuffersInv' /\ others' \subseteq Frame
  BY <1>2, <1>3 DEF EmsInv, NamesInv, NamesUnique, WindowsInv, BuffersInv
<1> QED BY <1>2, <1>3, <1>4, <1>5, <1>6 DEF EmsInv

(* 48h gives the slot back.                                                *)
LEMMA RestoreInv ==
  ASSUME EmsInv, NEW g \in Hdl, EMS_RESTORE_PAGES(g)
  PROVE  EmsInv' /\ state[hd[g].ss] \in [Window -> Frame \cup {Hole}]
<1>1. PICK s : s = hd[g].ss
  OBVIOUS
<1>2. /\ g \in Used /\ s # Nil /\ pte' = Over(state[s]) /\ stale' = {}
      /\ state' = [state EXCEPT ![s] = Nil] /\ hd' = [hd EXCEPT ![g].ss = Nil]
      /\ pd' = pd /\ pagesUsed' = pagesUsed /\ name' = name
      /\ area' = area /\ mapptr' = mapptr /\ others' = others /\ ok' = TRUE
  BY <1>1 DEF EMS_RESTORE_PAGES, ReleasedSlot, buffers
<1>3. s \in Slot /\ \A h \in Hdl : hd[h].ss \in Slot \cup {Nil}
  BY <1>1, <1>2, TableFacts
<1>4. /\ Sound(table') /\ Used' = Used
      /\ \A h \in Hdl : hd'[h].ss = IF h = g THEN Nil ELSE hd[h].ss
      /\ \A h \in Hdl \ {g} : hd'[h] = hd[h]
  BY <1>2, FlagStep
<1>5. \A h \in Hdl \ Used' : hd'[h] = NoHandle
  BY <1>2, <1>4 DEF EmsInv
<1>6. /\ state \in [Slot -> [Window -> Frame \cup {Hole}] \cup {Nil}]
      /\ \A h \in Hdl : hd[h].ss # Nil => state[hd[h].ss] # Nil
      /\ \A h, k \in Hdl : hd[h].ss # Nil /\ hd[h].ss = hd[k].ss => h = k
      /\ \A r \in Slot : state[r] # Nil => \E h \in Hdl : hd[h].ss = r
  BY DEF EmsInv, SlotsInv
<1>7. state[s] \in [Window -> Frame \cup {Hole}]
  BY <1>1, <1>2, <1>3, <1>6
<1>8. SlotsInv'
  <2>1. /\ state' \in [Slot -> [Window -> Frame \cup {Hole}] \cup {Nil}]
        /\ \A r \in Slot : state'[r] = IF r = s THEN Nil ELSE state[r]
    BY <1>2, <1>3, <1>6
  <2>2. \A h \in Hdl : hd'[h].ss # Nil => state'[hd'[h].ss] # Nil
    BY <1>1, <1>2, <1>3, <1>4, <1>6, <2>1
  <2>3. \A h, k \in Hdl : hd'[h].ss # Nil /\ hd'[h].ss = hd'[k].ss => h = k
    BY <1>4, <1>6
  <2>4. \A r \in Slot : state'[r] # Nil => \E h \in Hdl : hd'[h].ss = r
    BY <1>1, <1>4, <1>6, <2>1
  <2> QED BY <2>1, <2>2, <2>3, <2>4 DEF SlotsInv
<1>9. NamesInv' /\ BuffersInv' /\ others' \subseteq Frame
  BY <1>2, <1>4 DEF EmsInv, NamesInv, NamesUnique, BuffersInv
<1>10. WindowsInv'
  <2>1. state[s] \in Maps
    BY <1>7, WindowInFrame DEF Maps
  <2>2. PICK m : m = state[s]
    OBVIOUS
  <2>3. Over(m) \in [Phys \cup {Low} -> Frame \cup {Hole}]
    BY <2>1, <2>2, OverType DEF EmsInv
  <2> QED BY <1>2, <2>2, <2>3 DEF WindowsInv
<1> QED BY <1>1, <1>2, <1>4, <1>5, <1>7, <1>8, <1>9, <1>10 DEF EmsInv

(* 4Eh, 4Fh and 5Bh change windows and buffers only, and flush when they   *)
(* map.                                                                    *)
LEMMA BufferCalls ==
  ASSUME EmsInv,
         \/ \E a \in Areas : GetPageMap(a) \/ SetPageMap(a) \/ SetPartialMap(a)
         \/ \E a, b \in Areas : GetAndSetPageMap(a, b)
         \/ \E a \in Areas, S \in SUBSET Phys : GetPartialMap(a, S)
         \/ GetAltMap \/ \E b \in Areas \cup {Nil} : SetAltMap(b)
  PROVE  /\ UNCHANGED <<handles, state, others>> /\ ok' \in BOOLEAN
         /\ WindowsInv' /\ BuffersInv'
         /\ ok' /\ pte' # pte => stale' = {}
<1>1. /\ WindowsInv /\ BuffersInv
      /\ DOMAIN area = Areas /\ \A a \in Areas : area[a].kind # "none" => area[a].m \in Maps
      /\ mapptr \in Areas \cup {Nil}
  BY DEF EmsInv, BuffersInv
<1>2. ASSUME NEW a \in Areas, GetPageMap(a)
      PROVE  /\ UNCHANGED <<handles, state, others>> /\ ok' \in BOOLEAN
             /\ WindowsInv' /\ BuffersInv' /\ pte' = pte
  <2>1. /\ area' = [area EXCEPT ![a] = [kind |-> "map", m |-> Only(pte, Phys)]]
        /\ pte' = pte /\ stale' = stale /\ mapptr' = mapptr /\ ok' = TRUE
        /\ UNCHANGED <<handles, state, others>>
    BY <1>2 DEF GetPageMap, Stored, windows
  <2>2. /\ DOMAIN area' = Areas
        /\ \A b \in Areas : area'[b].kind # "none" => area'[b].m \in Maps
    BY <1>1, <2>1, StoredType
  <2> QED BY <1>1, <2>1, <2>2 DEF WindowsInv, BuffersInv
<1>3. ASSUME NEW b \in Areas \cup {Nil}, SetAltMap(b)
      PROVE  /\ UNCHANGED <<handles, state, others>> /\ ok' \in BOOLEAN
             /\ WindowsInv' /\ BuffersInv' /\ (pte' # pte => stale' = {})
  <2>1. mapptr' = b /\ area' = area /\ UNCHANGED <<handles, state, others>>
    BY <1>3 DEF SetAltMap
  <2>2. BuffersInv'
    BY <1>1, <2>1 DEF BuffersInv
  <2>3. CASE b = Nil
    BY <1>1, <1>3, <2>1, <2>2, <2>3 DEF SetAltMap, windows, WindowsInv
  <2>4. CASE b # Nil
    <3>1. SetFrom(b, area) /\ b \in Areas
      BY <1>3, <2>4 DEF SetAltMap
    <3>2. /\ WindowsInv' /\ ok' \in BOOLEAN
          /\ (pte' = Over(area[b].m) /\ stale' = {}) \/ UNCHANGED windows
      BY <1>1, <3>1, SetFromStep
    <3> QED BY <2>1, <2>2, <3>2 DEF windows
  <2> QED BY <2>3, <2>4
<1>4. ASSUME NEW a \in Areas, SetPageMap(a)
      PROVE  /\ UNCHANGED <<handles, state, others>> /\ ok' \in BOOLEAN
             /\ WindowsInv' /\ BuffersInv' /\ (pte' # pte => stale' = {})
  <2>1. SetFrom(a, area) /\ area' = area /\ mapptr' = mapptr /\ UNCHANGED <<handles, state, others>>
    BY <1>4 DEF SetPageMap, buffers
  <2>2. /\ WindowsInv' /\ ok' \in BOOLEAN
        /\ (pte' = Over(area[a].m) /\ stale' = {}) \/ UNCHANGED windows
    BY <1>1, <2>1, SetFromStep
  <2> QED BY <1>1, <2>1, <2>2 DEF BuffersInv, windows
<1>5. ASSUME NEW a \in Areas, SetPartialMap(a)
      PROVE  /\ UNCHANGED <<handles, state, others>> /\ ok' \in BOOLEAN
             /\ WindowsInv' /\ BuffersInv' /\ stale' = {}
  <2>1. /\ area[a].kind = "part" /\ pte' = Over(area[a].m) /\ stale' = {} /\ ok' = TRUE
        /\ area' = area /\ mapptr' = mapptr /\ UNCHANGED <<handles, state, others>>
    BY <1>5 DEF SetPartialMap, buffers
  <2>2. PICK m \in Maps : m = area[a].m
    BY <1>1, <2>1
  <2>3. Over(m) \in [Phys \cup {Low} -> Frame \cup {Hole}]
    BY <1>1, OverType
  <2> QED BY <1>1, <2>1, <2>2, <2>3 DEF BuffersInv, WindowsInv
<1>6. ASSUME NEW a \in Areas, NEW b \in Areas, GetAndSetPageMap(a, b)
      PROVE  /\ UNCHANGED <<handles, state, others>> /\ ok' \in BOOLEAN
             /\ WindowsInv' /\ BuffersInv' /\ (pte' # pte => stale' = {})
  <2>1. /\ area' = [area EXCEPT ![a] = [kind |-> "map", m |-> Only(pte, Phys)]]
        /\ SetFrom(b, area') /\ mapptr' = mapptr /\ UNCHANGED <<handles, state, others>>
    BY <1>6 DEF GetAndSetPageMap, Stored
  <2>2. /\ DOMAIN area' = Areas
        /\ \A c \in Areas : area'[c].kind # "none" => area'[c].m \in Maps
    BY <1>1, <2>1, StoredType
  <2>3. PICK buf : buf = area'
    OBVIOUS
  <2>4. /\ WindowsInv' /\ ok' \in BOOLEAN
        /\ (pte' = Over(buf[b].m) /\ stale' = {}) \/ UNCHANGED windows
    BY <1>1, <2>1, <2>2, <2>3, SetFromStep
  <2> QED BY <1>1, <2>1, <2>2, <2>4 DEF BuffersInv, windows
<1>7. ASSUME NEW a \in Areas, NEW S \in SUBSET Phys, GetPartialMap(a, S)
      PROVE  /\ UNCHANGED <<handles, state, others>> /\ ok' \in BOOLEAN
             /\ WindowsInv' /\ BuffersInv' /\ pte' = pte
  <2>1. /\ area' = [area EXCEPT ![a] = [kind |-> "part", m |-> Only(pte, S)]]
        /\ pte' = pte /\ stale' = stale /\ mapptr' = mapptr /\ ok' = TRUE
        /\ UNCHANGED <<handles, state, others>>
    BY <1>7 DEF GetPartialMap, windows
  <2>2. /\ DOMAIN area' = Areas
        /\ \A b \in Areas : area'[b].kind # "none" => area'[b].m \in Maps
    BY <1>1, <2>1, StoredType
  <2> QED BY <1>1, <2>1, <2>2 DEF WindowsInv, BuffersInv
<1>8. ASSUME GetAltMap
      PROVE  /\ UNCHANGED <<handles, state, others>> /\ ok' \in BOOLEAN
             /\ WindowsInv' /\ BuffersInv' /\ pte' = pte
  <2>1. CASE mapptr = Nil
    BY <1>1, <1>8, <2>1 DEF GetAltMap, windows, buffers, WindowsInv, BuffersInv
  <2>2. CASE mapptr # Nil
    <3>1. mapptr \in Areas /\ GetPageMap(mapptr)
      BY <1>1, <1>8, <2>2 DEF GetAltMap
    <3>2. PICK a \in Areas : a = mapptr
      BY <3>1
    <3>3. GetPageMap(a)
      BY <3>1, <3>2
    <3> QED BY <1>2, <3>3
  <2> QED BY <2>1, <2>2
<1> QED BY <1>2, <1>3, <1>4, <1>5, <1>6, <1>7, <1>8

(* Every call keeps the invariant.                                         *)
LEMMA StepInv ==
  ASSUME EmsInv, [EmsNext]_emsVars
  PROVE  EmsInv'
<1>1. ASSUME NEW n \in 0 .. EMSPagesMax, EMS_ALLOCATE_PAGES(n) PROVE EmsInv'
  <2>1. PICK g \in Hdl \ Used, fr \in Granted(n) :
          /\ Touches(g)
          /\ \/ ok' = TRUE /\ Opened(g, fr) /\ UNCHANGED name
             \/ ok' = FALSE /\ hd'[g] = NoHandle /\ name' = [name EXCEPT ![g] = ""]
    BY <1>1, AllocateStep
  <2>2. hd[g].ss = Nil
    BY DEF EmsInv, NoHandle
  <2>3. Closed(g) \/ StaysOpen(g)
    <3>1. CASE ok' = TRUE /\ Opened(g, fr) /\ UNCHANGED name
      BY <2>2, <3>1 DEF Opened, StaysOpen
    <3>2. CASE ok' = FALSE /\ hd'[g] = NoHandle /\ name' = [name EXCEPT ![g] = ""]
      BY <2>2, <3>2 DEF Closed
    <3> QED BY <2>1, <3>1, <3>2
  <2>4. UNCHANGED <<state, windows, buffers, others>>
    BY <1>1 DEF EMS_ALLOCATE_PAGES
  <2>5. ok' \in BOOLEAN
    BY <2>1
  <2> QED BY <2>1, <2>3, <2>4, <2>5, HandleInv
<1>2. ASSUME NEW g \in Hdl, EMS_DEALLOCATE_PAGES(g) PROVE EmsInv'
  <2>1. Touches(g) /\ hd'[g] = NoHandle /\ ok' = TRUE /\ name' = [name EXCEPT ![g] = ""]
    BY <1>2, FreeingStep
  <2>2. hd[g].ss = Nil
    BY <1>2 DEF EMS_DEALLOCATE_PAGES, MayFree
  <2>3. UNCHANGED <<state, windows, buffers, others>>
    BY <1>2 DEF EMS_DEALLOCATE_PAGES
  <2>4. Closed(g)
    BY <2>1, <2>2 DEF Closed
  <2> QED BY <2>1, <2>3, <2>4, HandleInv
<1>3. ASSUME NEW g \in Hdl, NEW n \in 0 .. EMSPagesMax, ems4_realloc(g, n) PROVE EmsInv'
  <2>2. Touches(g) /\ Keeps(g) /\ ok' \in BOOLEAN
    <3>1. CASE Shrink(g, n)
      BY <3>1, ShrinkStep
    <3>2. CASE Extend(g, n)
      BY <3>2, ExtendStep
    <3> QED BY <1>3, <3>1, <3>2 DEF ems4_realloc
  <2>3. g \in Used /\ hd[g].used = TRUE /\ name' = name
    <3>1. hd[g].used \in BOOLEAN
      BY TableFacts
    <3> QED BY <1>3, <3>1 DEF ems4_realloc, Used
  <2>4. StaysOpen(g)
    BY <2>2, <2>3 DEF Keeps, StaysOpen
  <2>5. UNCHANGED <<state, windows, buffers, others>>
    BY <1>3 DEF ems4_realloc
  <2> QED BY <2>2, <2>4, <2>5, HandleInv
<1>4. ASSUME NEW g \in Hdl, NEW log \in Page \cup {Nil}, NEW p \in Phys,
             EMS_MAP_HANDLE_PAGE(g, log, p)
      PROVE  EmsInv'
  <2>1. Mapped(g) /\ stale' = {}
    BY <1>4, MapPageStep
  <2>2. WindowsInv'
    BY <2>1 DEF Mapped, WindowsInv
  <2>3. UNCHANGED <<handles, state, others>> /\ BuffersInv' /\ ok' \in BOOLEAN
    BY <1>4 DEF EMS_MAP_HANDLE_PAGE, buffers, EmsInv, BuffersInv
  <2> QED BY <2>2, <2>3, BufferInv
<1>5. ASSUME NEW g \in Hdl, NEW sub \in 0 .. 1, NEW list \in Lists, ems4_map_multiple(g, sub, list)
      PROVE  EmsInv'
  <2>1. Mapped(g) /\ stale' \subseteq Phys \cup {Low} /\ ok' \in BOOLEAN
    BY <1>5, MapMultipleStep
  <2>2. WindowsInv'
    BY <2>1 DEF Mapped, WindowsInv
  <2>3. UNCHANGED <<handles, state, others>> /\ BuffersInv'
    BY <1>5 DEF ems4_map_multiple, buffers, EmsInv, BuffersInv
  <2> QED BY <2>1, <2>2, <2>3, BufferInv
<1>6. ASSUME NEW g \in Hdl, EMS_SAVE_PAGES(g) PROVE EmsInv'
  BY <1>6, SaveInv
<1>7. ASSUME NEW g \in Hdl, EMS_RESTORE_PAGES(g) PROVE EmsInv'
  BY <1>7, RestoreInv
<1>8. ASSUME \/ \E a \in Areas : GetPageMap(a) \/ SetPageMap(a) \/ SetPartialMap(a)
             \/ \E a, b \in Areas : GetAndSetPageMap(a, b)
             \/ \E a \in Areas, S \in SUBSET Phys : GetPartialMap(a, S)
             \/ GetAltMap \/ \E b \in Areas \cup {Nil} : SetAltMap(b)
      PROVE  EmsInv'
  BY <1>8, BufferCalls, BufferInv
<1>9. ASSUME NEW g \in Hdl, NEW nm \in Names \cup {""}, SetName(g, nm) PROVE EmsInv'
  <2>1. /\ g \in Used /\ (nm = "" \/ ~ TakenName(nm))
        /\ name' = [name EXCEPT ![g] = nm] /\ ok' = TRUE
        /\ hd' = hd /\ pd' = pd /\ pagesUsed' = pagesUsed /\ state' = state
        /\ UNCHANGED <<windows, buffers, others>>
    BY <1>9 DEF SetName
  <2>2. table' = table /\ Used' = Used
    BY <2>1 DEF table, Used
  <2>3. Sound(table') /\ SlotsInv' /\ \A h \in Hdl \ Used' : hd'[h] = NoHandle
    BY <2>1, <2>2 DEF EmsInv, SlotsInv
  <2>4. NamesInv'
    <3>1. name \in [Hdl -> Names \cup {"", "SYSTEM"}] /\ NamesUnique
      BY DEF EmsInv, NamesInv
    <3>2. name' = [name EXCEPT ![g] = nm] /\ g \in Used
      BY <1>9 DEF SetName
    <3>3. \A h \in Used : nm # "" => name[h] # nm
      BY <1>9 DEF SetName, TakenName
    <3>4. Used \subseteq Hdl
      BY DEF Used
    <3>5. NamesUnique'
      BY <2>2, <3>1, <3>2, <3>3, <3>4 DEF NamesUnique
    <3> QED BY <3>1, <3>2, <3>5 DEF NamesInv
  <2>5. WindowsInv' /\ BuffersInv' /\ others' \subseteq Frame
    BY <2>1 DEF EmsInv, WindowsInv, BuffersInv, windows, buffers
  <2> QED BY <2>1, <2>3, <2>4, <2>5 DEF EmsInv
<1>10. ASSUME \/ \E f \in Frame : PoolTaken(f) \/ PoolReturned(f)
              \/ UNCHANGED emsVars
       PROVE  EmsInv'
  <2>1. /\ UNCHANGED <<handles, state, windows, buffers, ok>> /\ others' \subseteq Frame
    BY <1>10 DEF PoolTaken, PoolReturned, EmsInv, emsVars, handles, windows, buffers
  <2>2. /\ hd' = hd /\ pd' = pd /\ pagesUsed' = pagesUsed /\ name' = name
        /\ state' = state /\ UNCHANGED <<windows, buffers>> /\ ok' = ok
    BY <2>1 DEF handles
  <2>3. table' = table /\ Used' = Used
    BY <2>2 DEF table, Used
  <2>4. /\ Sound(table') /\ SlotsInv' /\ NamesInv'
        /\ \A h \in Hdl \ Used' : hd'[h] = NoHandle
    BY <2>2, <2>3 DEF EmsInv, SlotsInv, NamesInv, NamesUnique
  <2>5. WindowsInv' /\ BuffersInv'
    BY <2>2 DEF EmsInv, WindowsInv, BuffersInv, windows, buffers
  <2> QED BY <2>1, <2>2, <2>4, <2>5 DEF EmsInv
<1> QED
  BY <1>1, <1>2, <1>3, <1>4, <1>5, <1>6, <1>7, <1>8, <1>9, <1>10 DEF EmsNext

(* The tables are whole in every reachable state, for every number of      *)
(* handles, pages, slots, frames and physical pages.                       *)
THEOREM HandlesAlwaysWhole == EmsSpec => []HandlesWhole
<1>1. EmsInit => EmsInv
  BY InitInv
<1>2. EmsInv /\ [EmsNext]_emsVars => EmsInv'
  BY StepInv
<1>3. EmsInv => HandlesWhole
  BY WholeIfInv
<1> QED BY <1>1, <1>2, <1>3, PTL DEF EmsSpec

(* A page that a call leaves in its place keeps its frame.                 *)
LEMMA PagesKept ==
  ASSUME EmsInv, NEW g \in Hdl, NEW h \in Hdl, NEW k \in 0 .. EMSPagesMax,
         Touches(g), AbsPage(table, h, k) # Nil,
         AbsPage(table', h, k) = AbsPage(table, h, k)
  PROVE  /\ AbsPage(table, h, k) \in Page
         /\ pd'[AbsPage(table, h, k)].frame = pd[AbsPage(table, h, k)].frame
<1>1. Sound(table) /\ table \in Tables /\ table.pd = pd
  BY TableFacts
<1>2. Sound(table') /\ table'.pd = pd'
  BY PrimedTable DEF Touches
<1>3. PICK x : x = AbsPage(table, h, k)
  OBVIOUS
<1>4. x \in Page
  BY <1>1, <1>3, Walk
<1>5. pd[x].frame # Nil
  BY <1>1, <1>3, <1>4 DEF Sound
<1>6. pd'[x].frame # Nil
  <2>1. AbsPage(table', h, k) = x
    BY <1>3
  <2>2. PICK t : t = table'
    OBVIOUS
  <2>3. Sound(t) /\ t.pd = pd' /\ AbsPage(t, h, k) = x
    BY <1>2, <2>1, <2>2
  <2> QED BY <1>4, <2>3 DEF Sound
<1> QED BY <1>3, <1>4, <1>5, <1>6 DEF Touches

(* What a call answers and what it did agree, call by call.                *)
LEMMA AnswersStep ==
  ASSUME EmsInv, [EmsNext]_emsVars
  PROVE  [FailureKeepsHandles /\ FlushedOnSuccess]_emsVars
<1> DEFINE M == EMSPagesMax
<1>0. M \in Nat /\ Nil \notin Page /\ \A n \in Page : n \in 0 .. M
  BY Constants DEF Page
<1>1. ASSUME NEW n \in 0 .. EMSPagesMax, EMS_ALLOCATE_PAGES(n)
      PROVE  FailureKeepsHandles /\ FlushedOnSuccess
  <2>1. PICK g \in Hdl \ Used, fr \in Granted(n) :
          /\ Touches(g)
          /\ \/ ok' = TRUE /\ Opened(g, fr) /\ UNCHANGED name
             \/ ok' = FALSE /\ hd'[g] = NoHandle /\ name' = [name EXCEPT ![g] = ""]
    BY <1>1, AllocateStep
  <2>2. pte' = pte /\ state' = state
    BY <1>1 DEF EMS_ALLOCATE_PAGES, windows
  <2>3. ASSUME ok' = FALSE
        PROVE  FailureKeepsHandles
    <3>1. hd'[g] = NoHandle /\ g \in Hdl \ Used
      BY <2>1, <2>3
    <3>2. name' = name
      <4>1. name' = [name EXCEPT ![g] = ""]
        BY <2>1, <2>3
      <4> QED BY <3>1, <4>1 DEF EmsInv, NamesInv, NamesUnique
    <3>3. \A h \in Hdl \ {g} : hd'[h] = hd[h]
      BY <2>1 DEF Touches
    <3>4. {h \in Hdl : hd'[h].used} = Used
      <4>1. ~ hd'[g].used
        BY <3>1 DEF NoHandle
      <4> QED BY <2>1, <3>3, <4>1 DEF Used
    <3>5. \A h \in Hdl, k \in Page : AbsPage(table, h, k) # Nil =>
            AbsPage(table', h, k) = AbsPage(table, h, k)
      <4> TAKE h \in Hdl, k \in Page
      <4> HAVE AbsPage(table, h, k) # Nil
      <4>1. h # g
        <5>1. SUFFICES ASSUME h = g PROVE FALSE
          OBVIOUS
        <5>2. table.hd[g].idx = Nil
          BY <3>1, TableFacts DEF NoHandle
        <5>3. AbsPage(table, g, k) = Nil
          BY <5>2, <1>0, <3>1, TableFacts, EmptyChain
        <5> QED BY <5>1, <5>3
      <4> QED BY <4>1, <1>0, <2>1 DEF Touches
    <3>6. \A h \in Hdl, k \in Page : AbsPage(table, h, k) # Nil =>
            pd'[AbsPage(table, h, k)].frame = pd[AbsPage(table, h, k)].frame
      BY <1>0, <2>1, <3>5, PagesKept
    <3> QED BY <2>2, <3>2, <3>4, <3>5, <3>6 DEF FailureKeepsHandles
  <2>4. ok' \in BOOLEAN
    BY <2>1
  <2> QED BY <2>2, <2>3, <2>4 DEF FailureKeepsHandles, FlushedOnSuccess
<1>2. ASSUME NEW g \in Hdl, EMS_DEALLOCATE_PAGES(g)
      PROVE  FailureKeepsHandles /\ FlushedOnSuccess
  BY <1>2 DEF EMS_DEALLOCATE_PAGES, windows, FailureKeepsHandles, FlushedOnSuccess
<1>3. ASSUME NEW g \in Hdl, NEW n \in 0 .. EMSPagesMax, ems4_realloc(g, n)
      PROVE  FailureKeepsHandles /\ FlushedOnSuccess
  <2>1. pte' = pte /\ state' = state /\ name' = name
    BY <1>3 DEF ems4_realloc, windows
  <2>2. CASE Shrink(g, n)
    BY <2>1, <2>2 DEF Shrink, FailureKeepsHandles, FlushedOnSuccess
  <2>3. CASE Extend(g, n)
    <3>1. PICK L, fr :
            /\ L = PageCount(table, g)
            /\ Touches(g) /\ Keeps(g)
            /\ \A k \in 0 .. L - 1 : AbsPage(table', g, k) = AbsPage(table, g, k)
      BY <2>3, ExtendStep
    <3>2. /\ L \in 0 .. M
          /\ \A k \in 0 .. M : k >= L => AbsPage(table, g, k) = Nil
      BY <3>1, TableFacts, ChainLength
    <3>3. {h \in Hdl : hd'[h].used} = Used
      BY <3>1 DEF Touches, Keeps, Used
    <3>4. \A h \in Hdl, k \in Page : AbsPage(table, h, k) # Nil =>
            AbsPage(table', h, k) = AbsPage(table, h, k)
      <4> TAKE h \in Hdl, k \in Page
      <4> HAVE AbsPage(table, h, k) # Nil
      <4>1. CASE h # g
        BY <4>1, <1>0, <3>1 DEF Touches
      <4>2. CASE h = g
        <5>1. k \in 0 .. M /\ ~ (k >= L)
          BY <4>2, <1>0, <3>2
        <5>2. k \in 0 .. L - 1
          BY <5>1, <1>0, <3>2
        <5> QED BY <5>2, <4>2, <3>1
      <4> QED BY <4>1, <4>2
    <3>5. \A h \in Hdl, k \in Page : AbsPage(table, h, k) # Nil =>
            pd'[AbsPage(table, h, k)].frame = pd[AbsPage(table, h, k)].frame
      BY <1>0, <3>1, <3>4, PagesKept
    <3> QED BY <2>1, <3>3, <3>4, <3>5 DEF FailureKeepsHandles, FlushedOnSuccess
  <2> QED BY <1>3, <2>2, <2>3 DEF ems4_realloc
<1>4. ASSUME hd' = hd, pd' = pd, pagesUsed' = pagesUsed, UNCHANGED <<name, state>>
      PROVE  FailureKeepsHandles
  <2>1. table' = table
    BY <1>4 DEF table
  <2> QED BY <1>4, <2>1 DEF FailureKeepsHandles, Used
<1>5. ASSUME NEW g \in Hdl, NEW log \in Page \cup {Nil}, NEW p \in Phys,
             EMS_MAP_HANDLE_PAGE(g, log, p)
      PROVE  FailureKeepsHandles /\ FlushedOnSuccess
  BY <1>5 DEF EMS_MAP_HANDLE_PAGE, FailureKeepsHandles, FlushedOnSuccess
<1>6. ASSUME NEW g \in Hdl, NEW sub \in 0 .. 1, NEW list \in Lists, ems4_map_multiple(g, sub, list)
      PROVE  FailureKeepsHandles /\ FlushedOnSuccess
  <2>1. ok' => stale' = {}
    BY <1>6, MapMultipleStep
  <2>2. hd' = hd /\ pd' = pd /\ pagesUsed' = pagesUsed /\ UNCHANGED <<name, state>>
    BY <1>6 DEF ems4_map_multiple, handles
  <2> QED BY <2>1, <2>2, <1>4 DEF FlushedOnSuccess
<1>7. ASSUME NEW g \in Hdl, EMS_SAVE_PAGES(g) \/ EMS_RESTORE_PAGES(g)
      PROVE  FailureKeepsHandles /\ FlushedOnSuccess
  BY <1>7 DEF EMS_SAVE_PAGES, EMS_RESTORE_PAGES, windows, FailureKeepsHandles, FlushedOnSuccess
<1>8. ASSUME \/ \E a \in Areas : GetPageMap(a) \/ SetPageMap(a) \/ SetPartialMap(a)
             \/ \E a, b \in Areas : GetAndSetPageMap(a, b)
             \/ \E a \in Areas, S \in SUBSET Phys : GetPartialMap(a, S)
             \/ GetAltMap \/ \E b \in Areas \cup {Nil} : SetAltMap(b)
      PROVE  FailureKeepsHandles /\ FlushedOnSuccess
  <2>1. UNCHANGED <<handles, state, others>> /\ (ok' /\ pte' # pte => stale' = {})
    BY <1>8, BufferCalls
  <2>2. hd' = hd /\ pd' = pd /\ pagesUsed' = pagesUsed /\ UNCHANGED <<name, state>>
    BY <2>1 DEF handles
  <2> QED BY <2>1, <2>2, <1>4 DEF FlushedOnSuccess
<1>9. ASSUME NEW g \in Hdl, NEW nm \in Names \cup {""}, SetName(g, nm)
      PROVE  FailureKeepsHandles /\ FlushedOnSuccess
  BY <1>9 DEF SetName, windows, FailureKeepsHandles, FlushedOnSuccess
<1>10. ASSUME NEW f \in Frame, PoolTaken(f) \/ PoolReturned(f)
       PROVE  FailureKeepsHandles /\ FlushedOnSuccess
  <2>1. /\ hd' = hd /\ pd' = pd /\ pagesUsed' = pagesUsed /\ UNCHANGED <<name, state>>
        /\ pte' = pte
    BY <1>10 DEF PoolTaken, PoolReturned, handles, windows
  <2> QED BY <2>1, <1>4 DEF FlushedOnSuccess
<1> QED
  BY <1>1, <1>2, <1>3, <1>5, <1>6, <1>7, <1>8, <1>9, <1>10 DEF EmsNext

(* A call that fails has closed no handle and taken no page, and after one *)
(* that succeeds the processor sees the page tables as they are.           *)
THEOREM AnswersAlwaysKept == EmsSpec => AnswersKept
<1>1. EmsInit => EmsInv
  BY InitInv
<1>2. EmsInv /\ [EmsNext]_emsVars => EmsInv'
  BY StepInv
<1>3. EmsInv /\ [EmsNext]_emsVars => [FailureKeepsHandles /\ FlushedOnSuccess]_emsVars
  BY AnswersStep
<1> QED BY <1>1, <1>2, <1>3, PTL DEF EmsSpec, AnswersKept

(* The other handles show the same frames.                                 *)
LEMMA OthersKeepFrames ==
  ASSUME EmsInv, NEW g \in Hdl, Touches(g), NEW h \in Hdl \ {g}
  PROVE  FramesOf(table', h) = FramesOf(table, h)
<1>1. PICK t, u : t = table /\ u = table'
  OBVIOUS
<1>2. Sound(t) /\ t.pd = pd /\ Sound(u) /\ u.pd = pd'
  BY <1>1, TableFacts, PrimedTable DEF Touches
<1>3. \A k \in 0 .. EMSPagesMax : AbsPage(u, h, k) = AbsPage(t, h, k)
  BY <1>1 DEF Touches
<1>4. PageCount(u, h) = PageCount(t, h)
  <2>1. \A k \in 0 .. EMSPagesMax - 1 : AbsPage(u, h, k) = AbsPage(t, h, k)
    BY <1>3, Constants
  <2> QED BY <2>1 DEF PageCount
<1>5. \A i \in 1 .. PageCount(t, h) : u.pd[AbsPage(u, h, i - 1)].frame = t.pd[AbsPage(t, h, i - 1)].frame
  <2> TAKE i \in 1 .. PageCount(t, h)
  <2>1. i - 1 \in 0 .. EMSPagesMax /\ AbsPage(t, h, i - 1) \in Page
    BY <1>2, FramesMeaning
  <2>2. AbsPage(t, h, i - 1) # Nil /\ AbsPage(u, h, i - 1) = AbsPage(t, h, i - 1)
    BY <1>3, <2>1, Constants
  <2>3. pd'[AbsPage(t, h, i - 1)].frame = pd[AbsPage(t, h, i - 1)].frame
    BY <1>1, <2>1, <2>2, PagesKept
  <2> QED BY <1>2, <2>2, <2>3
<1> QED BY <1>1, <1>4, <1>5 DEF FramesOf

(* No chain changes: no handle's frames do.                                *)
LEMMA SameFrames ==
  ASSUME pd' = pd, EmsInv,
         \A h \in Hdl, k \in 0 .. EMSPagesMax : AbsPage(table', h, k) = AbsPage(table, h, k),
         \A h \in Hdl : PageCount(table', h) = PageCount(table, h)
  PROVE  MappedPages' = MappedPages
<1>1. PICK t, u : t = table /\ u = table'
  OBVIOUS
<1>2. Sound(t) /\ t.pd = pd /\ u.pd = pd
  BY <1>1, TableFacts, PrimedTable
<1>3. \A h \in Hdl : \A i \in 1 .. PageCount(t, h) :
        u.pd[AbsPage(u, h, i - 1)].frame = t.pd[AbsPage(t, h, i - 1)].frame
  <2> TAKE h \in Hdl
  <2> TAKE i \in 1 .. PageCount(t, h)
  <2>1. i - 1 \in 0 .. EMSPagesMax
    BY <1>2, FramesMeaning
  <2> QED BY <1>1, <1>2, <2>1
<1>4. \A h \in Hdl : FramesOf(u, h) = FramesOf(t, h)
  BY <1>1, <1>3 DEF FramesOf
<1> QED BY <1>1, <1>4 DEF MappedPages

(* 47h saves the page frame as the context of the handle.                  *)
LEMMA SaveMaps ==
  ASSUME EmsInv, NEW g \in Hdl, EMS_SAVE_PAGES(g)
  PROVE  Service!Save(g)
<1>1. PICK s \in Slot :
        /\ state[s] = Nil
        /\ hd' = [hd EXCEPT ![g].ss = s] /\ state' = [state EXCEPT ![s] = Only(pte, Window)]
  BY DEF EMS_SAVE_PAGES
<1>2. /\ pd' = pd /\ pagesUsed' = pagesUsed /\ pte' = pte /\ area' = area
      /\ g \in Used /\ hd[g].ss = Nil
  BY DEF EMS_SAVE_PAGES, windows, buffers
<1>3. /\ Sound(table') /\ Used' = Used
      /\ \A h \in Hdl, k \in 0 .. EMSPagesMax : AbsPage(table', h, k) = AbsPage(table, h, k)
      /\ \A h \in Hdl : PageCount(table', h) = PageCount(table, h)
      /\ \A h \in Hdl : hd'[h].ss = IF h = g THEN s ELSE hd[h].ss
  BY <1>1, <1>2, FlagStep
<1>4. MappedPages' = MappedPages
  BY <1>2, <1>3, SameFrames DEF MappedPages
<1>5. MappedContext[g] = Nil /\ MappedContext' = [MappedContext EXCEPT ![g] = Only(pte, Window)]
  <2>1. PICK m : m = Only(pte, Window)
    OBVIOUS
  <2>2. state \in [Slot -> [Window -> Frame \cup {Hole}] \cup {Nil}]
        /\ \A h \in Hdl : hd[h].ss # Nil => state[hd[h].ss] # Nil
    BY DEF EmsInv, SlotsInv
  <2>3. s # Nil /\ \A h \in Hdl : hd[h].ss \in Slot \cup {Nil}
    BY Constants, TableFacts
  <2>4. \A h \in Hdl : hd[h].ss # s
    BY <1>1, <2>2, <2>3
  <2>5. \A r \in Slot : state'[r] = IF r = s THEN m ELSE state[r]
    BY <1>1, <2>1, <2>2
  <2>6. \A h \in Hdl : (IF hd'[h].ss = Nil THEN Nil ELSE state'[hd'[h].ss])
                       = IF h = g THEN m ELSE IF hd[h].ss = Nil THEN Nil ELSE state[hd[h].ss]
    BY <1>3, <2>3, <2>4, <2>5
  <2> QED BY <1>2, <2>1, <2>6 DEF MappedContext
<1>6. Service!Restricted(MappedWindow, Window) = Only(pte, Window)
  BY WindowInFrame DEF Service!Restricted, MappedWindow, Only
<1>7. MappedWindow' = MappedWindow /\ MappedRecords' = MappedRecords
  BY <1>2 DEF MappedWindow, MappedRecords, Only
<1> QED BY <1>2, <1>3, <1>4, <1>5, <1>6, <1>7 DEF Service!Save

(* What the service calls owned is what the chain reaches.                 *)
LEMMA OwnedPages ==
  ASSUME EmsInv, NEW g \in Hdl
  PROVE  /\ Service!Owned(g) = Behind(g)
         /\ \A f \in Service!Owned(g) : \E p \in Page : pd[p].frame = f
<1>1. PICK t : t = table
  OBVIOUS
<1>2. Sound(t) /\ t.pd = pd
  BY <1>1, TableFacts
<1>3. PICK L, q : L = PageCount(t, g) /\ q = FramesOf(t, g)
  OBVIOUS
<1>4. /\ L \in Nat /\ DOMAIN q = 1 .. L
      /\ \A i \in 1 .. L : q[i] = pd[AbsPage(t, g, i - 1)].frame /\ AbsPage(t, g, i - 1) \in Page
  <2>1. EMSPagesMax \in Nat
    BY Constants
  <2> QED BY <1>2, <1>3, <2>1, FramesMeaning
<1>5. Service!Owned(g) = {q[i] : i \in 1 .. L}
  BY <1>1, <1>3, <1>4 DEF Service!Owned, MappedPages
<1>6. Behind(g) = {pd[AbsPage(t, g, k)].frame : k \in 0 .. L - 1}
  BY <1>1, <1>3 DEF Behind
<1>7. {q[i] : i \in 1 .. L} = {pd[AbsPage(t, g, k)].frame : k \in 0 .. L - 1}
  <2>1. ASSUME NEW i \in 1 .. L PROVE q[i] \in {pd[AbsPage(t, g, k)].frame : k \in 0 .. L - 1}
    <3>1. i - 1 \in 0 .. L - 1
      BY <1>4
    <3> QED BY <1>4, <3>1
  <2>2. ASSUME NEW k \in 0 .. L - 1 PROVE pd[AbsPage(t, g, k)].frame \in {q[i] : i \in 1 .. L}
    <3>1. k + 1 \in 1 .. L /\ (k + 1) - 1 = k
      BY <1>4
    <3>2. q[k + 1] = pd[AbsPage(t, g, (k + 1) - 1)].frame
      BY <1>4, <3>1
    <3> QED BY <3>1, <3>2
  <2> QED BY <2>1, <2>2
<1> QED BY <1>4, <1>5, <1>6, <1>7

(* A frame in no descriptor belongs to no handle.                          *)
LEMMA NotOwned ==
  ASSUME EmsInv, NEW f \in Frame, \A p \in Page : pd[p].frame # f
  PROVE  f \in Frame \ Service!AllOwned
<1>1. \A h \in Hdl : f \notin Service!Owned(h)
  BY OwnedPages
<1> QED BY <1>1 DEF Service!AllOwned

(* The pages of one handle change.                                         *)
LEMMA OneHandle ==
  ASSUME EmsInv, NEW g \in Hdl, Touches(g)
  PROVE  /\ MappedPages[g] = FramesOf(table, g)
         /\ MappedPages'[g] = FramesOf(table', g)
         /\ MappedPages' = [MappedPages EXCEPT ![g] = FramesOf(table', g)]
         /\ Service!ChangedOnly(g)
<1>1. PICK P, Q : P = MappedPages /\ Q = MappedPages'
  OBVIOUS
<1>2. PICK t, u : t = table /\ u = table'
  OBVIOUS
<1>3. P = [h \in Hdl |-> FramesOf(t, h)] /\ Q = [h \in Hdl |-> FramesOf(u, h)]
  BY <1>1, <1>2 DEF MappedPages
<1>4. \A h \in Hdl \ {g} : FramesOf(u, h) = FramesOf(t, h)
  BY <1>2, OthersKeepFrames
<1>5. Q[g] = FramesOf(u, g) /\ P[g] = FramesOf(t, g) /\ Q = [P EXCEPT ![g] = FramesOf(u, g)]
  BY <1>3, <1>4
<1>6. Q = [P EXCEPT ![g] = Q[g]]
  BY <1>5
<1> QED BY <1>1, <1>2, <1>5, <1>6 DEF Service!ChangedOnly

(* Slots and their handles as before: the contexts are.                    *)
LEMMA ContextKept ==
  ASSUME state' = state, \A h \in Hdl : hd'[h].ss = hd[h].ss
  PROVE  MappedContext' = MappedContext
BY DEF MappedContext

(* Windows and buffers as before: so they are for the service.             *)
LEMMA WindowsKept ==
  ASSUME UNCHANGED <<windows, buffers>>
  PROVE  MappedWindow' = MappedWindow /\ MappedRecords' = MappedRecords
BY DEF windows, buffers, MappedWindow, MappedRecords, Only

(* 43h opens a handle with fresh pages, or does nothing.                   *)
LEMMA AllocateMaps ==
  ASSUME EmsInv, NEW n \in 0 .. EMSPagesMax, EMS_ALLOCATE_PAGES(n)
  PROVE  (\E g \in Hdl : Service!Open(g)) \/ UNCHANGED Service!sVars
<1>1. PICK g \in Hdl \ Used, fr \in Granted(n) :
        /\ Touches(g)
        /\ \/ ok' = TRUE /\ Opened(g, fr) /\ UNCHANGED name
           \/ ok' = FALSE /\ hd'[g] = NoHandle /\ name' = [name EXCEPT ![g] = ""]
  BY AllocateStep
<1>2. g \in Hdl /\ g \notin Used /\ Touches(g) /\ fr \in Granted(n)
      /\ (Opened(g, fr) \/ hd'[g] = NoHandle)
  BY <1>1
<1>3. hd[g] = NoHandle
  BY <1>2 DEF EmsInv
<1>4. state' = state /\ UNCHANGED <<windows, buffers>>
  BY DEF EMS_ALLOCATE_PAGES
<1>5. hd'[g].ss = hd[g].ss
  BY <1>2, <1>3 DEF Opened, NoHandle
<1>6. \A h \in Hdl \ {g} : hd'[h] = hd[h]
  BY <1>2 DEF Touches
<1>7. MappedContext' = MappedContext /\ MappedWindow' = MappedWindow /\ MappedRecords' = MappedRecords
  BY <1>4, <1>5, <1>6, ContextKept, WindowsKept
<1>8. /\ MappedPages[g] = FramesOf(table, g) /\ MappedPages'[g] = FramesOf(table', g)
      /\ MappedPages' = [MappedPages EXCEPT ![g] = FramesOf(table', g)]
      /\ Service!ChangedOnly(g)
  BY <1>2, OneHandle
<1>9. CASE Opened(g, fr)
  <2>1. Used' = Used \cup {g}
    BY <1>2, <1>6, <1>9 DEF Opened, Used
  <2>2. PICK u, q : u = table' /\ q = FramesOf(u, g)
    OBVIOUS
  <2>3. Sound(u) /\ u.pd = pd'
    BY <1>2, <2>2, PrimedTable DEF Touches
  <2>4. PICK L : L = Len(fr)
    OBVIOUS
  <2>5. /\ L \in Nat /\ \A i \in 1 .. L : fr[i] \in Frame
        /\ \A i, j \in 1 .. L : fr[i] = fr[j] => i = j
        /\ \A i \in 1 .. L : \A p \in Page : pd[p].frame # fr[i]
    <3>1. n \in Nat
      BY Constants
    <3> QED BY <1>2, <2>4, <3>1, GrantedFrames
  <2>6. PageCount(u, g) = L /\ \A i \in 1 .. L : pd'[AbsPage(u, g, i - 1)].frame = fr[i]
    BY <1>9, <2>2, <2>4 DEF Opened
  <2>7. DOMAIN q = 1 .. L /\ \A i \in 1 .. L : q[i] = fr[i]
    BY <1>2, <2>2, <2>3, <2>6, FramesMeaning
  <2>8. Service!Fresh(q)
    <3>1. \A i \in 1 .. L : fr[i] \in Frame \ Service!AllOwned
      BY <2>5, NotOwned
    <3> QED BY <2>5, <2>7, <3>1 DEF Service!Fresh
  <2>9. Service!Open(g)
    BY <1>2, <1>7, <1>8, <2>1, <2>2, <2>8 DEF Service!Open
  <2> QED BY <1>2, <2>9
<1>10. CASE hd'[g] = NoHandle
  <2>1. Used' = Used
    BY <1>2, <1>3, <1>6, <1>10 DEF Used, NoHandle
  <2>2. PICK t, u : t = table /\ u = table'
    OBVIOUS
  <2>3. Sound(t) /\ t.hd = hd /\ Sound(u) /\ u.hd = hd'
    BY <1>2, <2>2, TableFacts, PrimedTable DEF Touches
  <2>4. PageCount(t, g) = 0 /\ PageCount(u, g) = 0
    BY <1>2, <1>3, <1>10, <2>3, EmptyChain DEF NoHandle
  <2>5. FramesOf(u, g) = FramesOf(t, g)
    BY <2>4 DEF FramesOf
  <2>6. MappedPages' = MappedPages
    <3>1. MappedPages = [h \in Hdl |-> FramesOf(table, h)]
      BY DEF MappedPages
    <3> QED BY <1>2, <1>8, <2>2, <2>5, <3>1
  <2> QED BY <1>7, <2>1, <2>6 DEF Service!sVars
<1> QED BY <1>2, <1>9, <1>10

(* 45h closes the handle.                                                  *)
LEMMA FreeMaps ==
  ASSUME EmsInv, NEW g \in Hdl, EMS_DEALLOCATE_PAGES(g)
  PROVE  Service!Close(g)
<1>1. Touches(g) /\ hd'[g] = NoHandle
  BY FreeingStep
<1>2. g \in Used /\ hd[g].ss = Nil /\ state' = state /\ UNCHANGED <<windows, buffers>>
  BY DEF EMS_DEALLOCATE_PAGES, MayFree
<1>3. \A h \in Hdl \ {g} : hd'[h] = hd[h]
  BY <1>1 DEF Touches
<1>4. MappedContext' = MappedContext /\ MappedWindow' = MappedWindow /\ MappedRecords' = MappedRecords
  <2>1. hd'[g].ss = hd[g].ss
    BY <1>1, <1>2 DEF NoHandle
  <2> QED BY <1>2, <1>3, <2>1, ContextKept, WindowsKept
<1>5. MappedContext[g] = Nil
  BY <1>2 DEF MappedContext
<1>6. Used' = Used \ {g}
  BY <1>1, <1>3 DEF Used, NoHandle
<1>7. MappedPages' = [MappedPages EXCEPT ![g] = << >>]
  <2>1. PICK u : u = table'
    OBVIOUS
  <2>2. Sound(u) /\ u.hd = hd'
    BY <1>1, <2>1, PrimedTable DEF Touches
  <2>3. PageCount(u, g) = 0
    BY <1>1, <2>2, EmptyChain DEF NoHandle
  <2>4. FramesOf(u, g) = << >>
    <3>1. FramesOf(u, g) \in Seq(Frame) /\ Len(FramesOf(u, g)) = 0
      BY <2>2, <2>3, FramesMeaning
    <3> QED BY <3>1, EmptySeq
  <2> QED BY <1>1, <2>1, <2>4, OneHandle
<1> QED BY <1>2, <1>4, <1>5, <1>6, <1>7 DEF Service!Close

(* 51h cuts the pages of a handle at the end or extends them there with    *)
(* fresh ones.                                                             *)
LEMMA ResizeMaps ==
  ASSUME EmsInv, NEW g \in Hdl, NEW n \in 0 .. EMSPagesMax, ems4_realloc(g, n)
  PROVE  Service!Cut(g) \/ Service!Extend(g)
<1>1. g \in Used /\ state' = state /\ UNCHANGED <<windows, buffers>>
  BY DEF ems4_realloc
<1>2. Touches(g) /\ Keeps(g)
  <2>1. CASE Shrink(g, n)
    BY <2>1, ShrinkStep
  <2>2. CASE Extend(g, n)
    BY <2>2, ExtendStep
  <2> QED BY <2>1, <2>2 DEF ems4_realloc
<1>3. \A h \in Hdl \ {g} : hd'[h] = hd[h]
  BY <1>2 DEF Touches
<1>4. Used' = Used
  BY <1>2, <1>3 DEF Keeps, Used
<1>5. MappedContext' = MappedContext /\ MappedWindow' = MappedWindow /\ MappedRecords' = MappedRecords
  BY <1>1, <1>2, <1>3, ContextKept, WindowsKept DEF Keeps
<1>6. /\ MappedPages[g] = FramesOf(table, g) /\ MappedPages'[g] = FramesOf(table', g)
      /\ Service!ChangedOnly(g)
  BY <1>2, OneHandle
<1>7. PICK t, u : t = table /\ u = table'
  OBVIOUS
<1>8. Sound(t) /\ t.pd = pd /\ Sound(u) /\ u.pd = pd'
  BY <1>2, <1>7, TableFacts, PrimedTable DEF Touches
<1>9. PICK L, K, p, q : /\ L = PageCount(t, g) /\ p = FramesOf(t, g)
                        /\ K = PageCount(u, g) /\ q = FramesOf(u, g)
  OBVIOUS
<1>10. /\ p \in Seq(Frame) /\ Len(p) = L /\ DOMAIN p = 1 .. L
       /\ q \in Seq(Frame) /\ Len(q) = K /\ DOMAIN q = 1 .. K
       /\ L \in 0 .. EMSPagesMax /\ K \in 0 .. EMSPagesMax /\ EMSPagesMax \in Nat
       /\ \A i \in 1 .. L : p[i] = pd[AbsPage(t, g, i - 1)].frame /\ i - 1 \in 0 .. EMSPagesMax
                            /\ AbsPage(t, g, i - 1) \in Page /\ p[i] \in Frame
       /\ \A i \in 1 .. K : q[i] = pd'[AbsPage(u, g, i - 1)].frame /\ q[i] \in Frame
  BY <1>8, <1>9, FramesMeaning, Constants
<1>11. ASSUME NEW i \in 1 .. L, i <= K, AbsPage(u, g, i - 1) = AbsPage(t, g, i - 1)
       PROVE  q[i] = p[i]
  <2>1. /\ i \in 1 .. K /\ i - 1 \in 0 .. EMSPagesMax
        /\ AbsPage(t, g, i - 1) \in Page /\ AbsPage(t, g, i - 1) # Nil
    <3>1. i \in 1 .. K
      BY <1>10, <1>11
    <3>2. i - 1 \in 0 .. EMSPagesMax /\ AbsPage(t, g, i - 1) \in Page
      BY <1>10
    <3>3. Nil \notin Page
      BY Constants
    <3> QED BY <3>1, <3>2, <3>3
  <2>2. pd'[AbsPage(t, g, i - 1)].frame = pd[AbsPage(t, g, i - 1)].frame
    BY <1>2, <1>7, <1>11, <2>1, PagesKept
  <2> QED BY <1>10, <1>11, <2>1, <2>2
<1>12. CASE Shrink(g, n)
  <2>1. n < L /\ K = n /\ \A k \in 0 .. n - 1 : AbsPage(u, g, k) = AbsPage(t, g, k)
    BY <1>7, <1>9, <1>12, ShrinkStep
  <2>2. \A i \in 1 .. K : q[i] = p[i]
    <3> TAKE i \in 1 .. K
    <3>1. i \in 1 .. L /\ i <= K /\ i - 1 \in 0 .. n - 1
      BY <1>10, <2>1
    <3> QED BY <1>11, <2>1, <3>1
  <2>3. q = SubSeq(p, 1, K)
    <3>1. \A i \in 1 .. K : p[i] \in Frame
      BY <1>10, <2>1
    <3>2. /\ SubSeq(p, 1, K) \in Seq(Frame)
          /\ Len(SubSeq(p, 1, K)) = IF 1 <= K THEN K - 1 + 1 ELSE 0
          /\ \A i \in 1 .. K - 1 + 1 : SubSeq(p, 1, K)[i] = p[1 + i - 1]
      <4>1. 1 \in Int /\ K \in Int
        BY <1>10
      <4> QED BY <3>1, <4>1, SubSeqProperties
    <3>3. Len(SubSeq(p, 1, K)) = K /\ \A i \in 1 .. K : SubSeq(p, 1, K)[i] = p[i]
      <4>1. K - 1 + 1 = K /\ \A i \in 1 .. K : 1 + i - 1 = i
        BY <1>10
      <4> QED BY <1>10, <3>2, <4>1
    <3> QED BY <1>10, <2>2, <3>2, <3>3, SeqEqual
  <2>4. MappedPages[g] = p /\ MappedPages'[g] = q /\ Len(q) = K /\ Len(q) <= Len(p)
    BY <1>6, <1>7, <1>9, <1>10, <2>1
  <2>5. Service!Cut(g)
    BY <1>1, <1>4, <1>5, <1>6, <2>3, <2>4 DEF Service!Cut
  <2> QED BY <2>5
<1>13. CASE Extend(g, n)
  <2>1. PICK fr \in Granted(n - L) :
          /\ n - L \in Nat /\ K = L + Len(fr)
          /\ \A k \in 0 .. L - 1 : AbsPage(u, g, k) = AbsPage(t, g, k)
          /\ \A i \in 1 .. Len(fr) : pd'[AbsPage(u, g, L + i - 1)].frame = fr[i]
    BY <1>7, <1>9, <1>13, ExtendStep
  <2>2. PICK more : more = Len(fr)
    OBVIOUS
  <2>3. /\ more \in Nat /\ \A i \in 1 .. more : fr[i] \in Frame
        /\ \A i, j \in 1 .. more : fr[i] = fr[j] => i = j
        /\ \A i \in 1 .. more : \A x \in Page : pd[x].frame # fr[i]
    BY <2>1, <2>2, GrantedFrames
  <2>4. \A i \in 1 .. L : q[i] = p[i]
    <3> TAKE i \in 1 .. L
    <3>1. i <= K /\ i - 1 \in 0 .. L - 1
      BY <1>10, <2>1, <2>2, <2>3
    <3> QED BY <1>11, <2>1, <3>1
  <2>5. SubSeq(q, 1, L) = p
    <3>1. \A i \in 1 .. L : q[i] \in Frame
      BY <1>10, <2>4
    <3>2. /\ SubSeq(q, 1, L) \in Seq(Frame)
          /\ Len(SubSeq(q, 1, L)) = IF 1 <= L THEN L - 1 + 1 ELSE 0
          /\ \A i \in 1 .. L - 1 + 1 : SubSeq(q, 1, L)[i] = q[1 + i - 1]
      <4>1. 1 \in Int /\ L \in Int
        BY <1>10
      <4> QED BY <3>1, <4>1, SubSeqProperties
    <3>3. Len(SubSeq(q, 1, L)) = L /\ \A i \in 1 .. L : SubSeq(q, 1, L)[i] = p[i]
      <4>1. L - 1 + 1 = L /\ \A i \in 1 .. L : 1 + i - 1 = i
        BY <1>10
      <4> QED BY <1>10, <2>4, <3>2, <4>1
    <3> QED BY <1>10, <3>2, <3>3, SeqEqual
  <2>6. Service!Fresh(SubSeq(q, L + 1, K))
    <3>1. \A i \in L + 1 .. K : q[i] \in Frame
      BY <1>10
    <3>2. /\ SubSeq(q, L + 1, K) \in Seq(Frame)
          /\ Len(SubSeq(q, L + 1, K)) = IF L + 1 <= K THEN K - (L + 1) + 1 ELSE 0
          /\ \A i \in 1 .. K - (L + 1) + 1 : SubSeq(q, L + 1, K)[i] = q[L + 1 + i - 1]
      <4>1. L + 1 \in Int /\ K \in Int
        BY <1>10
      <4> QED BY <3>1, <4>1, SubSeqProperties
    <3>3. PICK r : r = SubSeq(q, L + 1, K)
      OBVIOUS
    <3>4. K - (L + 1) + 1 = more /\ (~ (L + 1 <= K) => more = 0)
      BY <1>10, <2>1, <2>2, <2>3
    <3>5. r \in Seq(Frame) /\ Len(r) = more /\ \A i \in 1 .. more : r[i] = q[L + 1 + i - 1]
      BY <3>2, <3>3, <3>4
    <3>6. DOMAIN r = 1 .. more
      BY <3>5, LenProperties
    <3>7. \A i \in 1 .. more : r[i] = fr[i]
      <4> TAKE i \in 1 .. more
      <4>1. L + 1 + i - 1 = L + i /\ L + i \in 1 .. K /\ (L + i) - 1 = L + i - 1
        BY <1>10, <2>1, <2>2, <2>3
      <4>2. q[L + i] = pd'[AbsPage(u, g, (L + i) - 1)].frame
        BY <1>10, <4>1
      <4> QED BY <2>1, <2>2, <3>5, <4>1, <4>2
    <3>8. \A i \in 1 .. more : fr[i] \in Frame \ Service!AllOwned
      BY <2>3, NotOwned
    <3>9. Service!Fresh(r)
      BY <2>3, <3>6, <3>7, <3>8 DEF Service!Fresh
    <3> QED BY <3>3, <3>9
  <2>7. MappedPages[g] = p /\ MappedPages'[g] = q /\ Len(q) = K /\ Len(p) = L /\ K >= L
    BY <1>6, <1>7, <1>9, <1>10, <2>1, <2>2, <2>3
  <2>8. Service!Extend(g)
    BY <1>1, <1>4, <1>5, <1>6, <2>5, <2>6, <2>7 DEF Service!Extend
  <2> QED BY <2>8
<1> QED BY <1>12, <1>13 DEF ems4_realloc

(* Tables as before: so are handles, pages and contexts.                   *)
LEMMA HandlesKept ==
  ASSUME UNCHANGED <<handles, state>>
  PROVE  Used' = Used /\ MappedPages' = MappedPages /\ MappedContext' = MappedContext
BY DEF handles, Used, MappedPages, MappedContext, FramesOf, table

(* 44h and 50h map pages of an open handle.                                *)
LEMMA MapMaps ==
  ASSUME EmsInv, NEW g \in Used, Mapped(g), UNCHANGED <<handles, state, buffers>>
  PROVE  Service!Map(g)
<1>1. Used' = Used /\ MappedPages' = MappedPages /\ MappedContext' = MappedContext
  BY HandlesKept
<1>2. MappedRecords' = MappedRecords
  BY DEF buffers, MappedRecords
<1>3. g \in Hdl /\ Service!Owned(g) = Behind(g)
  BY OwnedPages DEF Used
<1>4. /\ pte' \in [Phys \cup {Low} -> Frame \cup {Hole}]
      /\ \A p \in Phys : pte'[p] \in {pte[p], Identity[p]} \cup Behind(g)
  BY DEF Mapped
<1>5. /\ MappedWindow' = [p \in Phys |-> pte'[p]] /\ MappedWindow = [p \in Phys |-> pte[p]]
      /\ Only(Identity, Phys) = [p \in Phys |-> Identity[p]]
  BY DEF MappedWindow, Only
<1>6. MappedWindow' \in [Phys -> Frame \cup {Hole}]
  BY <1>4, <1>5
<1>7. \A p \in Phys : MappedWindow'[p] \in {MappedWindow[p], Only(Identity, Phys)[p]} \cup Service!Owned(g)
  BY <1>3, <1>4, <1>5
<1> QED BY <1>1, <1>2, <1>6, <1>7 DEF Service!Map

(* Over lays a map over the window.                                        *)
LEMMA OverMaps ==
  ASSUME WindowsInv, NEW m \in Maps, pte' = Over(m)
  PROVE  MappedWindow' = Service!Overlaid(m, MappedWindow)
<1>1. DOMAIN pte = Phys \cup {Low}
  BY DEF WindowsInv
<1>2. pte' = [p \in Phys \cup {Low} |-> IF p \in DOMAIN m THEN m[p] ELSE pte[p]]
  BY <1>1 DEF Over
<1>3. MappedWindow' = [p \in Phys |-> pte'[p]] /\ MappedWindow = [p \in Phys |-> pte[p]]
  BY DEF MappedWindow, Only
<1>4. MappedWindow' = [p \in Phys |-> IF p \in DOMAIN m THEN m[p] ELSE MappedWindow[p]]
  BY <1>2, <1>3
<1> QED BY <1>4 DEF Service!Overlaid

(* 48h lays the saved context over the window and forgets it.              *)
LEMMA RestoreMaps ==
  ASSUME EmsInv, NEW g \in Hdl, EMS_RESTORE_PAGES(g)
  PROVE  Service!Restore(g)
<1>1. PICK s : s = hd[g].ss
  OBVIOUS
<1>2. /\ g \in Used /\ s # Nil /\ pte' = Over(state[s])
      /\ state' = [state EXCEPT ![s] = Nil] /\ hd' = [hd EXCEPT ![g].ss = Nil]
      /\ pd' = pd /\ pagesUsed' = pagesUsed /\ area' = area
  BY <1>1 DEF EMS_RESTORE_PAGES, ReleasedSlot, buffers
<1>3. s \in Slot /\ \A h \in Hdl : hd[h].ss \in Slot \cup {Nil}
  BY <1>1, <1>2, TableFacts
<1>4. state[s] \in [Window -> Frame \cup {Hole}]
  BY <1>1, RestoreInv
<1>5. /\ Used' = Used
      /\ \A h \in Hdl, k \in 0 .. EMSPagesMax : AbsPage(table', h, k) = AbsPage(table, h, k)
      /\ \A h \in Hdl : PageCount(table', h) = PageCount(table, h)
      /\ \A h \in Hdl : hd'[h].ss = IF h = g THEN Nil ELSE hd[h].ss
  BY <1>2, FlagStep
<1>6. MappedPages' = MappedPages
  BY <1>2, <1>5, SameFrames
<1>7. MappedContext[g] = state[s] /\ MappedContext[g] # Nil
  <2>1. state[s] # Nil
    BY <1>4, EmsAssumption DEF EmsAssumption
  <2> QED BY <1>1, <1>2, <2>1 DEF MappedContext
<1>8. MappedContext' = [MappedContext EXCEPT ![g] = Nil]
  <2>1. state \in [Slot -> [Window -> Frame \cup {Hole}] \cup {Nil}]
        /\ \A h, k \in Hdl : hd[h].ss # Nil /\ hd[h].ss = hd[k].ss => h = k
    BY DEF EmsInv, SlotsInv
  <2>2. \A r \in Slot : state'[r] = IF r = s THEN Nil ELSE state[r]
    BY <1>2, <2>1
  <2>3. \A h \in Hdl \ {g} : hd[h].ss # s
    BY <1>1, <1>2, <2>1
  <2>4. \A h \in Hdl : (IF hd'[h].ss = Nil THEN Nil ELSE state'[hd'[h].ss])
                       = IF h = g THEN Nil ELSE IF hd[h].ss = Nil THEN Nil ELSE state[hd[h].ss]
    BY <1>3, <1>5, <2>2, <2>3
  <2> QED BY <2>4 DEF MappedContext
<1>9. MappedWindow' = Service!Overlaid(MappedContext[g], MappedWindow)
  <2>1. state[s] \in Maps
    BY <1>4, WindowInFrame DEF Maps
  <2>2. PICK m : m = state[s]
    OBVIOUS
  <2>3. WindowsInv /\ m \in Maps /\ pte' = Over(m)
    BY <1>2, <2>1, <2>2 DEF EmsInv
  <2>4. MappedWindow' = Service!Overlaid(m, MappedWindow)
    BY <2>3, OverMaps
  <2> QED BY <1>7, <2>2, <2>4
<1>10. MappedRecords' = MappedRecords
  BY <1>2 DEF MappedRecords
<1> QED BY <1>2, <1>5, <1>6, <1>7, <1>8, <1>9, <1>10 DEF Service!Restore

(* What a call stores is a part of the window of that moment.              *)
LEMMA RecordMaps ==
  ASSUME EmsInv, NEW a \in Areas, NEW S \in SUBSET Phys, NEW kind, kind # "none",
         area' = [area EXCEPT ![a] = [kind |-> kind, m |-> Only(pte, S)]]
  PROVE  Service!Record
<1> DEFINE Rest == {area[c].m : c \in {b \in Areas \ {a} : area[b].kind # "none"}}
<1>1. PICK x : x = Only(pte, S)
  OBVIOUS
<1>2. /\ DOMAIN area' = Areas /\ area'[a] = [kind |-> kind, m |-> x]
      /\ \A b \in Areas \ {a} : area'[b] = area[b]
  BY <1>1, StoredType DEF EmsInv
<1>3. MappedRecords' = Rest \cup {x}
  <2>1. MappedRecords' = {area'[c].m : c \in {b \in Areas : area'[b].kind # "none"}}
    BY DEF MappedRecords
  <2>2. area'[a].kind # "none" /\ area'[a].m = x
    BY <1>2
  <2> QED BY <1>2, <2>1, <2>2
<1>4. Rest \subseteq MappedRecords
  BY DEF MappedRecords
<1>5. x \in Service!Recordable
  <2>1. Service!Restricted(MappedWindow, S) = x
    BY <1>1 DEF Service!Restricted, MappedWindow, Only
  <2> QED BY <2>1 DEF Service!Recordable
<1> HIDE DEF Rest
<1>6. MappedRecords' = (MappedRecords \ (MappedRecords \ Rest)) \cup {x}
  BY <1>3, <1>4
<1>7. MappedRecords \ Rest \in SUBSET MappedRecords
  OBVIOUS
<1> QED BY <1>5, <1>6, <1>7 DEF Service!Record

(* What a call lays over the window was recorded before.                   *)
LEMMA LayMaps ==
  ASSUME EmsInv, NEW b \in Areas, area[b].kind # "none", pte' = Over(area[b].m)
  PROVE  Service!LayOver
<1>1. area[b].m \in MappedRecords /\ area[b].m \in Maps
  BY DEF MappedRecords, EmsInv, BuffersInv
<1>2. PICK m : m = area[b].m
  OBVIOUS
<1>3. m \in Maps /\ pte' = Over(m) /\ WindowsInv
  BY <1>1, <1>2 DEF EmsInv
<1>4. MappedWindow' = Service!Overlaid(m, MappedWindow)
  BY <1>3, OverMaps
<1> QED BY <1>1, <1>2, <1>4 DEF Service!LayOver

(* The same for 4Eh and 5Bh, which may refuse.                             *)
LEMMA SetFromMaps ==
  ASSUME EmsInv, NEW b \in Areas, SetFrom(b, area)
  PROVE  Service!LayOver \/ MappedWindow' = MappedWindow
<1>1. CASE area[b].kind = "map"
  <2>1. pte' = Over(area[b].m) /\ area[b].kind # "none"
    BY <1>1 DEF SetFrom
  <2> QED BY <2>1, LayMaps
<1>2. CASE area[b].kind # "map"
  <2>1. pte' = pte
    BY <1>2 DEF SetFrom, windows
  <2> QED BY <2>1 DEF MappedWindow, Only
<1> QED BY <1>1, <1>2

(* 4Eh, 4Fh and 5Bh use records and nothing else.                          *)
LEMMA BufferMaps ==
  ASSUME EmsInv,
         \/ \E a \in Areas : GetPageMap(a) \/ SetPageMap(a) \/ SetPartialMap(a)
         \/ \E a, b \in Areas : GetAndSetPageMap(a, b)
         \/ \E a \in Areas, S \in SUBSET Phys : GetPartialMap(a, S)
         \/ GetAltMap \/ \E b \in Areas \cup {Nil} : SetAltMap(b)
  PROVE  Service!UseRecords
<1>1. Used' = Used /\ MappedPages' = MappedPages /\ MappedContext' = MappedContext
  <2>1. UNCHANGED <<handles, state>>
    BY BufferCalls
  <2> QED BY <2>1, HandlesKept
<1>2. ASSUME NEW a \in Areas, GetPageMap(a)
      PROVE  Service!Record /\ MappedWindow' = MappedWindow
  <2>1. area' = [area EXCEPT ![a] = [kind |-> "map", m |-> Only(pte, Phys)]] /\ pte' = pte
    BY <1>2 DEF GetPageMap, Stored, windows
  <2>2. MappedWindow' = MappedWindow
    BY <2>1 DEF MappedWindow, Only
  <2>3. "map" # "none" /\ Phys \in SUBSET Phys
    OBVIOUS
  <2> QED BY <2>1, <2>2, <2>3, RecordMaps
<1>3. ASSUME NEW a \in Areas, SetPageMap(a)
      PROVE  /\ Service!LayOver \/ MappedWindow' = MappedWindow
             /\ MappedRecords' = MappedRecords
  <2>1. SetFrom(a, area) /\ area' = area
    BY <1>3 DEF SetPageMap, buffers
  <2> QED BY <2>1, SetFromMaps DEF MappedRecords
<1>4. ASSUME NEW a \in Areas, SetPartialMap(a)
      PROVE  Service!LayOver /\ MappedRecords' = MappedRecords
  <2>1. area[a].kind # "none" /\ pte' = Over(area[a].m) /\ area' = area
    BY <1>4 DEF SetPartialMap, buffers
  <2> QED BY <2>1, LayMaps DEF MappedRecords
<1>5. ASSUME NEW a \in Areas, NEW b \in Areas, GetAndSetPageMap(a, b)
      PROVE  /\ Service!LayOver \/ MappedWindow' = MappedWindow
             /\ Service!Record
  <2>1. /\ area' = [area EXCEPT ![a] = [kind |-> "map", m |-> Only(pte, Phys)]]
        /\ SetFrom(b, area')
    BY <1>5 DEF GetAndSetPageMap, Stored
  <2>2. Service!Record
    <3>1. "map" # "none" /\ Phys \in SUBSET Phys
      OBVIOUS
    <3> QED BY <2>1, <3>1, RecordMaps
  <2>3. /\ \A c \in Areas \ {a} : area'[c] = area[c]
        /\ area'[a] = [kind |-> "map", m |-> Only(pte, Phys)]
    BY <2>1, StoredType DEF EmsInv
  <2>4. CASE b # a
    <3>1. SetFrom(b, area)
      BY <2>1, <2>3, <2>4 DEF SetFrom
    <3> QED BY <2>2, <3>1, SetFromMaps
  <2>5. CASE b = a
    <3>1. PICK m : m = Only(pte, Phys)
      OBVIOUS
    <3>2. area'[b].kind = "map" /\ area'[b].m = m
      BY <2>3, <2>5, <3>1
    <3>3. pte' = Over(m)
      BY <2>1, <3>2 DEF SetFrom
    <3>4. m \in Maps /\ WindowsInv /\ m = [p \in Phys |-> pte[p]]
      BY <3>1, OnlyType DEF EmsInv, Only
    <3>5. MappedWindow' = Service!Overlaid(m, MappedWindow)
      BY <3>3, <3>4, OverMaps
    <3>6. MappedWindow' = MappedWindow
      BY <3>4, <3>5 DEF Service!Overlaid, MappedWindow, Only
    <3> QED BY <2>2, <3>6
  <2> QED BY <2>4, <2>5
<1>6. ASSUME NEW a \in Areas, NEW S \in SUBSET Phys, GetPartialMap(a, S)
      PROVE  Service!Record /\ MappedWindow' = MappedWindow
  <2>1. area' = [area EXCEPT ![a] = [kind |-> "part", m |-> Only(pte, S)]] /\ pte' = pte
    BY <1>6 DEF GetPartialMap, windows
  <2>2. MappedWindow' = MappedWindow
    BY <2>1 DEF MappedWindow, Only
  <2>3. "part" # "none"
    OBVIOUS
  <2> QED BY <2>1, <2>2, <2>3, RecordMaps
<1>7. ASSUME GetAltMap
      PROVE  /\ Service!Record \/ MappedRecords' = MappedRecords
             /\ MappedWindow' = MappedWindow
  <2>1. CASE mapptr = Nil
    <3>1. UNCHANGED <<windows, buffers>>
      BY <1>7, <2>1 DEF GetAltMap
    <3> QED BY <3>1, WindowsKept
  <2>2. CASE mapptr # Nil
    <3>1. PICK a \in Areas : a = mapptr
      BY <2>2 DEF EmsInv, BuffersInv
    <3>2. GetPageMap(a)
      BY <1>7, <2>2, <3>1 DEF GetAltMap
    <3> QED BY <1>2, <3>2
  <2> QED BY <2>1, <2>2
<1>8. ASSUME NEW b \in Areas \cup {Nil}, SetAltMap(b)
      PROVE  /\ Service!LayOver \/ MappedWindow' = MappedWindow
             /\ MappedRecords' = MappedRecords
  <2>1. area' = area /\ MappedRecords' = MappedRecords
    BY <1>8 DEF SetAltMap, MappedRecords
  <2>2. CASE b = Nil
    <3>1. pte' = pte
      BY <1>8, <2>2 DEF SetAltMap, windows
    <3> QED BY <2>1, <3>1 DEF MappedWindow, Only
  <2>3. CASE b # Nil
    <3>1. b \in Areas /\ SetFrom(b, area)
      BY <1>8, <2>3 DEF SetAltMap
    <3> QED BY <2>1, <3>1, SetFromMaps
  <2> QED BY <2>2, <2>3
<1> QED BY <1>1, <1>2, <1>3, <1>4, <1>5, <1>6, <1>7, <1>8 DEF Service!UseRecords

(* Installation gives the service its first state.                         *)
LEMMA InitMaps ==
  ASSUME EmsInit
  PROVE  Service!ServiceInit
<1>1. /\ EmsInv /\ hd[0].used = TRUE /\ \A h \in Hdl \ {0} : hd[h] = NoHandle
      /\ \A h \in Hdl : hd[h].ss = Nil
  BY InitInv
<1>2. 0 \in Hdl
  BY Constants
<1>3. Used = {0}
  BY <1>1, <1>2 DEF Used, NoHandle
<1>4. PICK t : t = table
  OBVIOUS
<1>5. Sound(t) /\ t.hd = hd
  BY <1>1, <1>4, TableFacts
<1>6. PICK P : P = MappedPages
  OBVIOUS
<1>7. P = [g \in Hdl |-> FramesOf(t, g)]
  BY <1>4, <1>6 DEF MappedPages
<1>8. P \in [Hdl -> Seq(Frame)]
  BY <1>5, <1>7, FramesMeaning
<1>9. \A g, h \in Hdl : \A i \in DOMAIN P[g], j \in DOMAIN P[h] :
        P[g][i] = P[h][j] => g = h /\ i = j
  <2> TAKE g, h \in Hdl
  <2>1. DOMAIN P[g] = 1 .. PageCount(t, g) /\ DOMAIN P[h] = 1 .. PageCount(t, h)
    BY <1>5, <1>7, FramesMeaning
  <2> TAKE i \in DOMAIN P[g], j \in DOMAIN P[h]
  <2> HAVE P[g][i] = P[h][j]
  <2>2. FramesOf(t, g)[i] = FramesOf(t, h)[j]
    BY <1>7
  <2> QED BY <1>5, <2>1, <2>2, FramesDistinct
<1>10. \A h \in Hdl \ Used : P[h] = << >>
  <2> TAKE h \in Hdl \ Used
  <2>1. PageCount(t, h) = 0
    BY <1>1, <1>3, <1>5, EmptyChain DEF NoHandle
  <2>2. FramesOf(t, h) \in Seq(Frame) /\ Len(FramesOf(t, h)) = 0
    BY <1>5, <2>1, FramesMeaning
  <2>3. FramesOf(t, h) = << >>
    BY <2>2, EmptySeq
  <2> QED BY <1>7, <2>3
<1>11. MappedContext = [h \in Hdl |-> Nil]
  BY <1>1 DEF MappedContext
<1>12. MappedWindow = Only(Identity, Phys)
  BY DEF MappedWindow, EmsInit
<1>13. MappedRecords = {}
  BY DEF MappedRecords, EmsInit, NoArea
<1> QED
  BY <1>2, <1>3, <1>6, <1>8, <1>9, <1>10, <1>11, <1>12, <1>13 DEF Service!ServiceInit

(* Every call is a step of the service or none.                            *)
LEMMA StepMaps ==
  ASSUME EmsInv, [EmsNext]_emsVars
  PROVE  [Service!ServiceNext]_(Service!sVars)
<1>1. ASSUME NEW n \in 0 .. EMSPagesMax, EMS_ALLOCATE_PAGES(n)
      PROVE  Service!ServiceNext \/ UNCHANGED Service!sVars
  BY <1>1, AllocateMaps DEF Service!ServiceNext
<1>2. ASSUME NEW g \in Hdl, EMS_DEALLOCATE_PAGES(g) PROVE Service!ServiceNext
  BY <1>2, FreeMaps DEF Service!ServiceNext
<1>3. ASSUME NEW g \in Hdl, NEW n \in 0 .. EMSPagesMax, ems4_realloc(g, n)
      PROVE  Service!ServiceNext
  BY <1>3, ResizeMaps DEF Service!ServiceNext
<1>4. ASSUME NEW g \in Hdl, NEW log \in Page \cup {Nil}, NEW p \in Phys,
             EMS_MAP_HANDLE_PAGE(g, log, p)
      PROVE  Service!ServiceNext
  <2>1. Mapped(g) /\ g \in Used /\ UNCHANGED <<handles, state, buffers>>
    BY <1>4, MapPageStep DEF EMS_MAP_HANDLE_PAGE
  <2> QED BY <2>1, MapMaps DEF Service!ServiceNext
<1>5. ASSUME NEW g \in Hdl, NEW sub \in 0 .. 1, NEW list \in Lists, ems4_map_multiple(g, sub, list)
      PROVE  Service!ServiceNext
  <2>1. g \in Used /\ UNCHANGED <<handles, state, buffers>>
    BY <1>5 DEF ems4_map_multiple
  <2>2. Mapped(g)
    BY <1>5, MapMultipleStep
  <2> QED BY <2>1, <2>2, MapMaps DEF Service!ServiceNext
<1>6. ASSUME NEW g \in Hdl, EMS_SAVE_PAGES(g) \/ EMS_RESTORE_PAGES(g) PROVE Service!ServiceNext
  BY <1>6, SaveMaps, RestoreMaps DEF Service!ServiceNext
<1>7. ASSUME \/ \E a \in Areas : GetPageMap(a) \/ SetPageMap(a) \/ SetPartialMap(a)
             \/ \E a, b \in Areas : GetAndSetPageMap(a, b)
             \/ \E a \in Areas, S \in SUBSET Phys : GetPartialMap(a, S)
             \/ GetAltMap \/ \E b \in Areas \cup {Nil} : SetAltMap(b)
      PROVE  Service!ServiceNext
  BY <1>7, BufferMaps DEF Service!ServiceNext
<1>8. ASSUME \/ \E g \in Hdl, nm \in Names \cup {""} : SetName(g, nm)
             \/ \E f \in Frame : PoolTaken(f) \/ PoolReturned(f)
             \/ UNCHANGED emsVars
      PROVE  UNCHANGED Service!sVars
  <2>1. /\ hd' = hd /\ pd' = pd /\ pagesUsed' = pagesUsed /\ state' = state
        /\ UNCHANGED <<windows, buffers>>
    BY <1>8 DEF SetName, PoolTaken, PoolReturned, emsVars, handles, windows, buffers
  <2>2. Used' = Used /\ MappedPages' = MappedPages /\ MappedContext' = MappedContext
    BY <2>1 DEF Used, MappedPages, MappedContext, FramesOf, table
  <2>3. MappedWindow' = MappedWindow /\ MappedRecords' = MappedRecords
    BY <2>1, WindowsKept
  <2> QED BY <2>2, <2>3 DEF Service!sVars
<1> QED
  BY <1>1, <1>2, <1>3, <1>4, <1>5, <1>6, <1>7, <1>8 DEF EmsNext

(* The handlers of int 67h implement the EMS service: the pages of a       *)
(* handle are a sequence that changes only at its end, a context comes     *)
(* back as it was saved, and the window shows what was mapped through an   *)
(* owner or recorded.                                                      *)
THEOREM EmsIsTheService == EmsSpec => ImplementsService
<1>1. EmsInit => EmsInv /\ Service!ServiceInit
  BY InitInv, InitMaps
<1>2. EmsInv /\ [EmsNext]_emsVars => EmsInv'
  BY StepInv
<1>3. EmsInv /\ [EmsNext]_emsVars => [Service!ServiceNext]_(Service!sVars)
  BY StepMaps
<1> QED BY <1>1, <1>2, <1>3, PTL DEF EmsSpec, ImplementsService, Service!ServiceSpec
=============================================================================
