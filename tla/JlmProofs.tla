----------------------------- MODULE JlmProofs ------------------------------
(***************************************************************************)
(* Proofs about the memory of loaded modules: for every page map, number   *)
(* of pages and modules, no page of the pool is lost or used twice, and    *)
(* the map is that of the blocks which were given out.                     *)
(*                                                                         *)
(* A load is a reservation, a commitment and a release in one step.  The   *)
(* invariant is therefore stated for a state of the map, Sound, and kept   *)
(* by each service; JlmInv is what the variables satisfy between calls.    *)
(***************************************************************************)
EXTENDS JlmPages, NatLemmas, FunctionTheorems

MapStates == [pte : [Linear -> Entry], pde : [Tables -> Pages \union {None, Device}],
              free : SUBSET Pages, ax : Int]

(* A page of the pool is free, of another client, in the page directory    *)
(* once, or behind one linear page.                                        *)
Apart(s, rest) ==
  /\ rest \subseteq Pages /\ s.free \intersect rest = {}
  /\ \A p \in Linear : s.pte[p].is = "page" <=> s.pte[p].page \in Pages
  /\ \A t \in Tables : s.pde[t] \notin s.free \union rest
  /\ \A p \in Linear : s.pte[p].page \notin s.free \union rest
  /\ \A t, u \in Tables : s.pde[t] \in Pages /\ s.pde[t] = s.pde[u] => t = u
  /\ \A p, q \in Linear : s.pte[p].page \in Pages /\ s.pte[p].page = s.pte[q].page => p = q
  /\ \A t \in Tables, p \in Linear : s.pde[t] \in Pages => s.pde[t] # s.pte[p].page
NoneLost(s, rest) ==
  \A g \in Pages : \/ g \in s.free \/ g \in rest
                   \/ \E t \in Tables : s.pde[t] = g
                   \/ \E p \in Linear : s.pte[p].page = g

(* Jemm's and JLOAD's own entries carry no bit 200h: what is in front of   *)
(* them must be 0, else a block would be freed together with them.         *)
Fits(b) ==
  /\ Extent(b) \subseteq Linear
  /\ SystemBase \notin Extent(b) /\ SystemBase - 1 \notin Extent(b)
Shown(s, B) ==
  /\ B \subseteq [first : Linear, pages : 1..MaxBlock]
  /\ \A b \in B : Fits(b)
  /\ \A b, c \in B : b # c => Extent(b) \intersect Extent(c) = {}
  /\ \A p \in Linear : s.pte[p].is # "none" <=> p = SystemBase \/ \E b \in B : p \in Extent(b)
  /\ \A p \in Linear : s.pte[p].first <=> \E b \in B : p = b.first
  /\ \A p \in Linear : s.pte[p].is # "none" => s.pde[TableOf(p)] # None

Sound(s, rest, B) ==
  s \in MapStates /\ Apart(s, rest) /\ NoneLost(s, rest) /\ Shown(s, B)
Now == [pte |-> pte, pde |-> pde, free |-> free, ax |-> eax]
JlmInv ==
  /\ Sound(Now, others, blocks)
  /\ loaded \in [Modules -> Linear \union {NotLoaded}]
-----------------------------------------------------------------------------
LEMMA Sizes ==
  /\ TableSize \in Nat \ {0} /\ MaxBlock \in Nat \ {0} /\ PrivateTables \in Nat /\ SystemTables \in Nat \ {0}
  /\ SystemBase \in Nat /\ Top \in Nat /\ SystemBase <= Top
  /\ Linear \subseteq Nat /\ SystemBase \in Linear
  /\ IsFiniteSet(Linear) /\ IsFiniteSet(Tables)
  /\ None \notin Pages /\ Device \notin Pages /\ None # Device
<1>1. /\ TableSize \in Nat \ {0} /\ MaxBlock \in Nat \ {0} /\ PrivateTables \in Nat /\ SystemTables \in Nat \ {0}
      /\ None \notin Pages /\ Device \notin Pages /\ None # Device
  BY JlmPagesAssumption DEF None, Device
<1>2. SystemBase \in Nat
  BY <1>1 DEF SystemBase
<1>3. SystemTables * TableSize \in Nat /\ SystemTables * TableSize >= 1
  BY <1>1
<1>4. (PrivateTables + SystemTables) * TableSize = SystemBase + SystemTables * TableSize
  BY <1>1 DEF SystemBase
<1>5. Top \in Nat /\ SystemBase <= Top
  BY <1>2, <1>3, <1>4 DEF Top
<1>6. IsFiniteSet(Linear) /\ IsFiniteSet(Tables)
  BY <1>1, <1>5, FS_Interval DEF Linear, Tables
<1> QED BY <1>1, <1>2, <1>5, <1>6 DEF Linear

(* Each entry of the page map is that of a page table.                     *)
LEMMA TableIn == \A p \in Linear : TableOf(p) \in Tables
<1> SUFFICES ASSUME NEW p \in Linear PROVE TableOf(p) \in Tables
  OBVIOUS
<1> DEFINE k == p \div TableSize
           n == PrivateTables + SystemTables
<1>1. p \in Nat /\ TableSize \in Nat \ {0} /\ n \in Nat /\ p < n * TableSize
  BY Sizes DEF Linear, Top
<1>2. k \in Nat /\ k * TableSize <= p
  BY <1>1
<1>3. k < n
  <2> SUFFICES ASSUME k >= n PROVE FALSE
    BY <1>1, <1>2
  <2> HIDE DEF k, n
  <2>1. k * TableSize >= n * TableSize
    BY <1>1, <1>2
  <2>2. k * TableSize \in Nat /\ n * TableSize \in Nat
    BY <1>1, <1>2
  <2> QED BY <2>1, <2>2, <1>1, <1>2
<1>4. k = TableOf(p)
  BY DEF TableOf
<1> HIDE DEF k
<1> QED BY <1>2, <1>3, <1>4, Sizes DEF Tables

(* As long as the pool has enough, there is a page for each.               *)
LEMMA Allocated ==
  ASSUME NEW xs, NEW pool, IsFiniteSet(xs), IsFiniteSet(pool), Cardinality(xs) <= Cardinality(pool)
  PROVE  /\ AllocPages(xs, pool) \in [xs -> pool]
         /\ \A a, b \in xs : a # b => AllocPages(xs, pool)[a] # AllocPages(xs, pool)[b]
<1> DEFINE n == Cardinality(xs)  m == Cardinality(pool)
<1>1. n \in Nat /\ m \in Nat /\ ExistsBijection(1..n, xs) /\ ExistsBijection(1..m, pool)
  BY FS_CardinalityType
<1>2. PICK f : f \in Bijection(xs, 1..n)
  <2>1. ExistsBijection(xs, 1..n)
    BY <1>1, Fun_ExistsBijSymmetric
  <2> QED BY <2>1 DEF ExistsBijection
<1>3. PICK g : g \in Bijection(1..m, pool)
  BY <1>1 DEF ExistsBijection
<1>4. f \in [xs -> 1..n] /\ \A a, b \in xs : f[a] = f[b] => a = b
  BY <1>2, Fun_BijectionProperties
<1>5. g \in [1..m -> pool] /\ \A a, b \in 1..m : g[a] = g[b] => a = b
  BY <1>3, Fun_BijectionProperties
<1>6. \A a \in xs : f[a] \in 1..m
  BY <1>1, <1>4
<1> DEFINE h == [a \in xs |-> g[f[a]]]
<1>7. h \in [xs -> pool] /\ \A a, b \in xs : a # b => h[a] # h[b]
  BY <1>4, <1>5, <1>6
<1> QED BY <1>7 DEF AllocPages
-----------------------------------------------------------------------------
(* What the scan finds: a gap of n entries, not in front of p.             *)
Gap(q, p, n) == q >= p /\ \A i \in q..(q + n - 1) : IsFree(i)
Scans(p, n) ==
  {c \in [at : Nat, left : Int, ax : Int] :
     \/ c.ax = Scanning /\ c.at \in p..(Top + 1)
     \/ c.ax \in {Failed, NoReturn}
     \/ c.ax \in Nat /\ Gap(c.ax, p, n)}

LEMMA ScanGoesOn ==
  ASSUME NEW p \in Nat, NEW n \in Nat \ {0}, NEW c \in Scans(p, n)
  PROVE  ScanStep(c, n) \in Scans(p, n)
<1>1. c \in [at : Nat, left : Int, ax : Int] /\ Top \in Nat
  BY Sizes DEF Scans
<1>2. CASE c.ax # Scanning
  BY <1>2 DEF ScanStep
<1>3. CASE c.ax = Scanning
  <2>1. c.at \in p..(Top + 1)
    BY <1>1, <1>3 DEF Scans, Scanning, Failed, NoReturn
  <2> DEFINE First(x) == x = Top + 1 \/ IsFree(x)
             q == CHOOSE q \in c.at..(Top + 1) : First(q) /\ \A r \in c.at..(q - 1) : ~ IsFree(r)
  <2>2. q \in c.at..(Top + 1) /\ First(q)
    <3> DEFINE S == {x \in c.at..(Top + 1) : First(x)}
    <3>1. Top + 1 \in S /\ S \in SUBSET Nat
      BY <1>1, <2>1
    <3> HIDE DEF S
    <3>2. PICK x \in S : \A y \in S : x <= y
      BY <3>1, LeastNat
    <3> USE DEF S
    <3>3. x \in c.at..(Top + 1) /\ First(x) /\ \A r \in c.at..(x - 1) : ~ IsFree(r)
      BY <1>1, <2>1, <3>1, <3>2
    <3> QED BY <3>3
  <2> DEFINE Ended(k) == k = n - 1 \/ ~ IsFree(q + k + 1)
             run == CHOOSE k \in 0..(n - 1) : (\A i \in 1..k : IsFree(q + i)) /\ Ended(k)
  <2> HIDE DEF q, First
  <2>3. run \in 0..(n - 1) /\ \A i \in 1..run : IsFree(q + i)
    <3> DEFINE S == {k \in 0..(n - 1) : Ended(k)}
    <3>1. n - 1 \in S /\ S \in SUBSET Nat
      OBVIOUS
    <3> HIDE DEF S
    <3>2. PICK k \in S : \A j \in S : k <= j
      BY <3>1, LeastNat
    <3>3. k \in 0..(n - 1) /\ Ended(k)
      BY DEF S
    <3>4. ASSUME NEW i \in 1..k PROVE IsFree(q + i)
      <4>1. i - 1 \in 0..(n - 1) /\ i - 1 \notin S
        BY <3>2, <3>3
      <4>2. ~ Ended(i - 1) /\ q + (i - 1) + 1 = q + i
        BY <4>1, <2>2 DEF S
      <4> QED BY <4>2
    <3> QED BY <3>3, <3>4
  <2> HIDE DEF run, Ended
  <2> DEFINE behind == c.left - (q - c.at) - 1
             answer == IF behind < 0 THEN Failed
                       ELSE IF q > Top THEN NoReturn
                       ELSE IF behind < n - 1 THEN Failed
                       ELSE IF run = n - 1 THEN q
                       ELSE IF q + run + 1 > Top THEN NoReturn ELSE Scanning
             next == [at |-> q + run + 2, left |-> ScanLeft(behind, n), ax |-> answer]
  <2>4. ScanStep(c, n) = next
    BY <1>3 DEF ScanStep, q, First, run, Ended
  <2>5. q \in Nat /\ q >= p /\ run \in Nat /\ behind \in Int /\ ScanLeft(behind, n) \in Int /\ answer \in Int
    BY <1>1, <2>1, <2>2, <2>3 DEF ScanLeft, Failed, NoReturn, Scanning
  <2>6. next \in [at : Nat, left : Int, ax : Int]
    BY <2>5
  <2>7. answer = Scanning => q + run + 2 \in p..(Top + 1)
    BY <1>1, <2>5 DEF Failed, NoReturn, Scanning
  <2>8. run = n - 1 /\ q <= Top => Gap(q, p, n)
    <3> SUFFICES ASSUME run = n - 1, q <= Top, NEW i \in q..(q + n - 1) PROVE IsFree(i)
      BY <2>5 DEF Gap
    <3>1. CASE i = q
      BY <1>1, <2>2, <2>5, <3>1 DEF First
    <3>2. CASE i # q
      <4>1. i - q \in 1..run /\ q + (i - q) = i
        BY <2>5, <3>2
      <4> QED BY <2>3, <4>1
    <3> QED BY <3>1, <3>2
  <2>9. answer \in {Failed, NoReturn, Scanning} \/ (answer = q /\ run = n - 1 /\ q <= Top)
    BY <1>1, <2>5
  <2> HIDE DEF answer
  <2> QED BY <2>4, <2>5, <2>6, <2>7, <2>8, <2>9 DEF Scans
<1> QED BY <1>2, <1>3

LEMMA Scanned ==
  ASSUME NEW p \in Linear, NEW left \in Int, NEW n \in Nat \ {0}
  PROVE  /\ Scan(p, left, n) \in Int
         /\ Scan(p, left, n) >= 0 => Scan(p, left, n) \in Nat /\ Gap(Scan(p, left, n), p, n)
<1> DEFINE X == Scans(p, n)
           c0 == [at |-> p, left |-> left, ax |-> Scanning]
           m == Top + 1
           Rec(f) == f = [k \in 0..m |-> IF k = 0 THEN c0 ELSE ScanStep(f[k - 1], n)]
           F == [k \in 1..m |-> [c \in X |-> ScanStep(c, n)]]
<1>1. p \in Nat /\ m \in Nat
  BY Sizes
<1>2. c0 \in X
  BY <1>1, Sizes DEF Scans, Scanning, Linear
<1>3. \A c \in X : ScanStep(c, n) \in X
  BY <1>1, ScanGoesOn
<1> HIDE DEF X, c0, m
<1>4. StepsIn(F, m, X)
  BY <1>3 DEF StepsIn
<1>5. PICK f : Iterates(f, F, m, X, c0)
  <2> HIDE DEF F
  <2> QED BY <1>1, <1>2, <1>4, Iterated
<1>6. f \in [0..m -> X] /\ f[0] = c0 /\ \A k \in 1..m : f[k] = F[k][f[k - 1]]
  BY <1>5 DEF Iterates
<1>7. \A k \in 1..m : f[k - 1] \in X
  BY <1>1, <1>6
<1>8. \A k \in 1..m : f[k] = ScanStep(f[k - 1], n)
  BY <1>6, <1>7
<1>9. Rec(f)
  BY <1>1, <1>6, <1>8
<1>10. PICK c : c = CHOOSE x : Rec(x)
  OBVIOUS
<1>11. Rec(c)
  BY <1>9, <1>10
<1>12. Scan(p, left, n) = c[m].ax
  BY <1>10 DEF Scan, c0, m
<1>13. c[0] = c0 /\ \A k \in 1..m : c[k] = ScanStep(c[k - 1], n)
  <2>1. \A k \in 0..m : c[k] = IF k = 0 THEN c0 ELSE ScanStep(c[k - 1], n)
    BY <1>11
  <2> QED BY <1>1, <2>1
<1>14. \A k \in 0..m : c[k] \in X
  BY <1>1, <1>2, <1>3, <1>13, StaysIn
<1>15. c[m] \in X
  BY <1>1, <1>14
<1> QED BY <1>12, <1>15 DEF X, Scans, Failed, NoReturn, Scanning
-----------------------------------------------------------------------------
Is(r, s, pte1, free1, x) ==
  r \in MapStates /\ r.pte = pte1 /\ r.pde = s.pde /\ r.free = free1 /\ r.ax = x

LEMMA Changed ==
  ASSUME NEW s \in MapStates, NEW pte1 \in [Linear -> Entry], NEW free1 \in SUBSET Pages, NEW x \in Int
  PROVE  /\ Is([s EXCEPT !.pte = pte1, !.free = free1, !.ax = x], s, pte1, free1, x)
         /\ Is([s EXCEPT !.pte = pte1, !.ax = x], s, pte1, s.free, x)
         /\ Is([s EXCEPT !.ax = x], s, s.pte, s.free, x)
<1> DEFINE A == [Linear -> Entry]  B == [Tables -> Pages \union {None, Device}]  C == SUBSET Pages
<1>1. s \in [pte : A, pde : B, free : C, ax : Int] /\ pte1 \in A /\ free1 \in C /\ x \in Int
  BY DEF MapStates
<1>2. MapStates = [pte : A, pde : B, free : C, ax : Int]
  BY DEF MapStates
<1> HIDE DEF A, B, C
<1>3. Is([s EXCEPT !.pte = pte1, !.free = free1, !.ax = x], s, pte1, free1, x)
  BY <1>1, <1>2 DEF Is
<1>4. Is([s EXCEPT !.pte = pte1, !.ax = x], s, pte1, s.free, x)
  BY <1>1, <1>2 DEF Is
<1>5. Is([s EXCEPT !.ax = x], s, s.pte, s.free, x)
  BY <1>1, <1>2 DEF Is
<1> QED BY <1>3, <1>4, <1>5

IsAll(r, pte1, pde1, free1, x) == r = [pte |-> pte1, pde |-> pde1, free |-> free1, ax |-> x]

LEMMA AllChanged ==
  ASSUME NEW s \in MapStates, NEW pde1 \in [Tables -> Pages \union {None, Device}],
         NEW pte1 \in [Linear -> Entry], NEW free1 \in SUBSET Pages, NEW x \in Int
  PROVE  IsAll([s EXCEPT !.pde = pde1, !.free = free1, !.pte = pte1, !.ax = x], pte1, pde1, free1, x)
<1> DEFINE A == [Linear -> Entry]  B == [Tables -> Pages \union {None, Device}]  C == SUBSET Pages
           r == [s EXCEPT !.pde = pde1, !.free = free1, !.pte = pte1, !.ax = x]
<1>1. s \in [pte : A, pde : B, free : C, ax : Int] /\ pte1 \in A /\ pde1 \in B /\ free1 \in C /\ x \in Int
  BY DEF MapStates
<1> HIDE DEF A, B, C
<1>2. r \in [pte : A, pde : B, free : C, ax : Int]
  BY <1>1
<1>3. r.pte = pte1 /\ r.pde = pde1 /\ r.free = free1 /\ r.ax = x
  BY <1>1
<1> HIDE DEF r
<1>4. IsAll(r, pte1, pde1, free1, x)
  BY <1>2, <1>3 DEF IsAll
<1> QED BY <1>4 DEF r

(* A call that only answers.                                               *)
LEMMA Answered ==
  ASSUME NEW s, NEW rest, NEW B, Sound(s, rest, B), NEW x \in Int
  PROVE  Sound([s EXCEPT !.ax = x], rest, B) /\ [s EXCEPT !.ax = x].ax = x
<1>1. s \in MapStates /\ s.pte \in [Linear -> Entry] /\ s.free \in SUBSET Pages
  BY DEF Sound, MapStates
<1> DEFINE r == [s EXCEPT !.ax = x]
<1>2. Is(r, s, s.pte, s.free, x)
  BY <1>1, Changed
<1> HIDE DEF r
<1>3. Apart(r, rest) /\ NoneLost(r, rest) /\ Shown(r, B)
  BY <1>2 DEF Is, Sound, Apart, NoneLost, Shown
<1> QED BY <1>2, <1>3 DEF Sound, Is, r

LEMMA CommitKept ==
  ASSUME NEW s, NEW rest, NEW B, Sound(s, rest, B), NEW ps \in SUBSET Linear, NEW fixed
  PROVE  Sound(Commit(s, ps, fixed), rest, B)
<1> DEFINE new == {p \in ps : s.pte[p].is = "reserved"}
           give == AllocPages(new, s.free)
           pte1 == [p \in Linear |-> IF p \in new THEN [s.pte[p] EXCEPT !.is = "page", !.page = give[p]]
                                     ELSE s.pte[p]]
           free1 == s.free \ {give[p] : p \in new}
           done == [s EXCEPT !.pte = pte1, !.free = free1, !.ax = 1]
           refused == [s EXCEPT !.ax = 0]
<1>1. /\ s \in MapStates /\ s.pte \in [Linear -> Entry] /\ s.free \subseteq Pages
      /\ s.pde \in [Tables -> Pages \union {None, Device}]
  BY DEF Sound, MapStates
<1>2. Commit(s, ps, fixed) \in {refused, done}
  BY DEF Commit
<1>3. Sound(refused, rest, B)
  BY Answered
<1>4. ASSUME Cardinality(new) <= Cardinality(s.free) PROVE Sound(done, rest, B)
  <2>1. IsFiniteSet(new) /\ IsFiniteSet(s.free)
    BY <1>1, Sizes, JlmPagesAssumption, FS_Subset
  <2>2. give \in [new -> s.free] /\ \A a, b \in new : a # b => give[a] # give[b]
    <3> HIDE DEF new
    <3> QED BY <1>4, <2>1, Allocated
  <2> HIDE DEF give
  <2>3. new \subseteq Linear /\ \A p \in new : s.pte[p].is = "reserved"
    OBVIOUS
  <2> HIDE DEF new
  <2>4. \A p \in Linear :
          /\ pte1[p].first = s.pte[p].first
          /\ p \in new => pte1[p].is = "page" /\ pte1[p].page = give[p]
          /\ p \notin new => pte1[p] = s.pte[p]
    BY <1>1 DEF Entry
  <2>5. pte1 \in [Linear -> Entry]
    <3>1. \A p \in new : [s.pte[p] EXCEPT !.is = "page", !.page = give[p]] \in Entry
      BY <1>1, <2>2, <2>3 DEF Entry
    <3> QED BY <1>1, <2>3, <3>1
  <2> HIDE DEF pte1
  <2>6. done \in MapStates /\ done.pte = pte1 /\ done.free = free1 /\ done.pde = s.pde
    <3>1. free1 \in SUBSET Pages
      BY <1>1
    <3> HIDE DEF free1
    <3>2. s.free \in SUBSET Pages /\ 1 \in Int
      BY <1>1
    <3>3. Is(done, s, pte1, free1, 1)
      BY <1>1, <2>5, <3>1, <3>2, Changed
    <3> HIDE DEF done
    <3> QED BY <3>3 DEF Is
  <2>7. \A p \in new : give[p] \in s.free /\ give[p] \in Pages /\ give[p] \notin free1
    BY <1>1, <2>2
  <2>8. Apart(s, rest) /\ NoneLost(s, rest) /\ Shown(s, B)
    BY DEF Sound
  <2>9. free1 \subseteq s.free /\ \A g \in s.free : g \in free1 \/ \E p \in new : give[p] = g
    OBVIOUS
  <2> HIDE DEF done, free1
  <2>10. Apart(done, rest)
    <3>1. done.free \intersect rest = {} /\ rest \subseteq Pages
      BY <2>6, <2>8, <2>9 DEF Apart
    <3>2. \A p \in Linear : pte1[p].is = "page" <=> pte1[p].page \in Pages
      BY <2>4, <2>7, <2>8 DEF Apart
    <3>3. \A p \in Linear : pte1[p].page \notin free1 \union rest
      BY <2>4, <2>7, <2>8, <2>9 DEF Apart
    <3>4. \A p, q \in Linear : pte1[p].page \in Pages /\ pte1[p].page = pte1[q].page => p = q
      BY <2>2, <2>4, <2>7, <2>8 DEF Apart
    <3>5. \A t \in Tables, p \in Linear : s.pde[t] \in Pages => s.pde[t] # pte1[p].page
      BY <2>4, <2>7, <2>8 DEF Apart
    <3>6. \A t \in Tables : s.pde[t] \notin free1 \union rest
      BY <2>8, <2>9 DEF Apart
    <3>7. \A t, u \in Tables : s.pde[t] \in Pages /\ s.pde[t] = s.pde[u] => t = u
      BY <2>8 DEF Apart
    <3> QED BY <2>6, <3>1, <3>2, <3>3, <3>4, <3>5, <3>6, <3>7 DEF Apart
  <2>11. NoneLost(done, rest)
    <3> SUFFICES ASSUME NEW g \in Pages, g \notin free1, g \notin rest, \A t \in Tables : s.pde[t] # g
                 PROVE  \E p \in Linear : pte1[p].page = g
      BY <2>6 DEF NoneLost
    <3>1. CASE g \in s.free
      BY <2>3, <2>4, <2>9, <3>1
    <3>2. CASE g \notin s.free
      <4>1. PICK p \in Linear : s.pte[p].page = g
        BY <2>8, <3>2 DEF NoneLost
      <4>2. s.pte[p].is = "page"
        BY <2>8, <4>1 DEF Apart
      <4> QED BY <2>3, <2>4, <4>1, <4>2
    <3> QED BY <3>1, <3>2
  <2>12. Shown(done, B)
    <3>1. \A p \in Linear : (pte1[p].is = "none" <=> s.pte[p].is = "none") /\ pte1[p].first = s.pte[p].first
      BY <2>3, <2>4
    <3> QED BY <2>6, <2>8, <3>1 DEF Shown
  <2> QED BY <2>6, <2>10, <2>11, <2>12 DEF Sound
<1>5. Commit(s, ps, fixed) = done => Cardinality(new) <= Cardinality(s.free) \/ done = refused
  <2>1. IsFiniteSet(new) /\ IsFiniteSet(s.free)
    BY <1>1, Sizes, JlmPagesAssumption, FS_Subset
  <2>2. Cardinality(new) \in Nat /\ Cardinality(s.free) \in Nat
    <3> HIDE DEF new
    <3> QED BY <2>1, FS_CardinalityType
  <2>3. Cardinality(new) > Cardinality(s.free) => Commit(s, ps, fixed) = refused
    BY DEF Commit
  <2> HIDE DEF new, done, refused
  <2> QED BY <2>2, <2>3
<1> HIDE DEF new, done, refused
<1> QED BY <1>2, <1>3, <1>4, <1>5

(* What is behind pages that are given back, and what of the map changes.  *)
LEMMA PagesReturned ==
  ASSUME NEW s, NEW rest, NEW B, Sound(s, rest, B), NEW r, r \in MapStates, NEW gone \in SUBSET Linear,
         r.pde = s.pde,
         \A p \in gone : r.pte[p].is # "page" /\ r.pte[p].page \in {None, Device},
         \A p \in Linear \ gone : r.pte[p] = s.pte[p],
         r.free = s.free \union {s.pte[p].page : p \in {q \in gone : s.pte[q].is = "page"}}
  PROVE  Apart(r, rest) /\ NoneLost(r, rest)
<1>1. Apart(s, rest) /\ NoneLost(s, rest) /\ None \notin Pages /\ Device \notin Pages
  BY Sizes DEF Sound
<1>2. r.free \subseteq Pages /\ s.free \subseteq Pages
  BY DEF MapStates, Sound
<1>3. \A g : g \in r.free <=> g \in s.free \/ \E p \in gone : s.pte[p].is = "page" /\ g = s.pte[p].page
  OBVIOUS
<1>4. \A p \in gone : r.pte[p].page \notin Pages
  BY <1>1
<1>5. r.free \intersect rest = {} /\ rest \subseteq Pages
  BY <1>1, <1>3 DEF Apart
<1>6. \A p \in Linear : r.pte[p].is = "page" <=> r.pte[p].page \in Pages
  BY <1>1, <1>4 DEF Apart
<1>7. \A t \in Tables : r.pde[t] \notin r.free \union rest
  BY <1>1, <1>2, <1>3 DEF Apart
<1>8. \A p \in Linear : r.pte[p].page \notin r.free \union rest
  <2> SUFFICES ASSUME NEW p \in Linear, r.pte[p].page \in r.free \union rest PROVE FALSE
    OBVIOUS
  <2>1. r.pte[p].page \in Pages /\ p \notin gone /\ r.pte[p] = s.pte[p]
    BY <1>2, <1>4, <1>5
  <2>2. s.pte[p].page \in r.free /\ s.pte[p].page \notin s.free
    BY <1>1, <2>1 DEF Apart
  <2>3. PICK q \in gone : s.pte[q].is = "page" /\ s.pte[p].page = s.pte[q].page
    BY <1>3, <2>2
  <2> QED BY <1>1, <2>1, <2>3 DEF Apart
<1>9. \A t, u \in Tables : r.pde[t] \in Pages /\ r.pde[t] = r.pde[u] => t = u
  BY <1>1 DEF Apart
<1>10. \A p, q \in Linear : r.pte[p].page \in Pages /\ r.pte[p].page = r.pte[q].page => p = q
  BY <1>1, <1>4 DEF Apart
<1>11. \A t \in Tables, p \in Linear : r.pde[t] \in Pages => r.pde[t] # r.pte[p].page
  BY <1>1, <1>4 DEF Apart
<1>12. NoneLost(r, rest)
  <2> SUFFICES ASSUME NEW g \in Pages, g \notin r.free, g \notin rest, \A t \in Tables : s.pde[t] # g
               PROVE  \E p \in Linear : r.pte[p].page = g
    BY DEF NoneLost
  <2>1. PICK p \in Linear : s.pte[p].page = g
    BY <1>1, <1>3 DEF NoneLost
  <2>2. s.pte[p].is = "page" /\ p \notin gone
    BY <1>1, <1>3, <2>1 DEF Apart
  <2> QED BY <2>1, <2>2
<1> QED BY <1>5, <1>6, <1>7, <1>8, <1>9, <1>10, <1>11, <1>12 DEF Apart

LEMMA CommitPhysKept ==
  ASSUME NEW s, NEW rest, NEW B, Sound(s, rest, B), NEW ps \in SUBSET Linear
  PROVE  Sound(CommitPhys(s, ps), rest, B)
<1>1. /\ s \in MapStates /\ s.pte \in [Linear -> Entry] /\ s.free \subseteq Pages
      /\ s.pde \in [Tables -> Pages \union {None, Device}]
  BY DEF Sound, MapStates
<1>2. CASE ps = {} \/ \E p \in ps : s.pte[p].is # "reserved"
  <2>1. CommitPhys(s, ps) = [s EXCEPT !.ax = 0]
    BY <1>2 DEF CommitPhys
  <2> QED BY <2>1, Answered
<1>3. CASE ~ (ps = {} \/ \E p \in ps : s.pte[p].is # "reserved")
  <2> DEFINE pte1 == [p \in Linear |-> IF p \in ps THEN [s.pte[p] EXCEPT !.is = "phys", !.page = Device]
                                       ELSE s.pte[p]]
             r == [s EXCEPT !.pte = pte1, !.ax = 1]
  <2>1. CommitPhys(s, ps) = r
    BY <1>3 DEF CommitPhys
  <2>2. \A p \in Linear :
          /\ p \in ps => pte1[p].is = "phys" /\ pte1[p].page = Device /\ pte1[p].first = s.pte[p].first
          /\ p \notin ps => pte1[p] = s.pte[p]
    BY <1>1 DEF Entry
  <2>3. pte1 \in [Linear -> Entry]
    <3>1. \A p \in ps : [s.pte[p] EXCEPT !.is = "phys", !.page = Device] \in Entry
      BY <1>1 DEF Entry
    <3> QED BY <1>1, <3>1
  <2> HIDE DEF pte1
  <2>4. r \in MapStates /\ r.pte = pte1 /\ r.free = s.free /\ r.pde = s.pde
    <3>1. s.free \in SUBSET Pages /\ 1 \in Int
      BY <1>1
    <3>2. Is(r, s, pte1, s.free, 1)
      BY <1>1, <2>3, <3>1, Changed
    <3> HIDE DEF r
    <3> QED BY <3>2 DEF Is
  <2> HIDE DEF r
  <2>5. {s.pte[p].page : p \in {q \in ps : s.pte[q].is = "page"}} = {}
    BY <1>3
  <2>6. Apart(r, rest) /\ NoneLost(r, rest)
    <3>1. r.free = s.free \union {s.pte[p].page : p \in {q \in ps : s.pte[q].is = "page"}}
      BY <2>4, <2>5, Zenon
    <3>2. \A p \in ps : r.pte[p].is # "page" /\ r.pte[p].page \in {None, Device}
      BY <2>2, <2>4
    <3>3. \A p \in Linear \ ps : r.pte[p] = s.pte[p]
      BY <2>2, <2>4
    <3> QED BY <2>4, <3>1, <3>2, <3>3, PagesReturned
  <2>7. \A p \in Linear : (r.pte[p].is = "none" <=> s.pte[p].is = "none") /\ r.pte[p].first = s.pte[p].first
    BY <1>3, <2>2, <2>4
  <2>8. Shown(r, B)
    BY <2>4, <2>7 DEF Shown, Sound
  <2> QED BY <2>1, <2>4, <2>6, <2>8 DEF Sound
<1> QED BY <1>2, <1>3

LEMMA DecommitKept ==
  ASSUME NEW s, NEW rest, NEW B, Sound(s, rest, B), NEW ps \in SUBSET Linear
  PROVE  Sound(Decommit(s, ps), rest, B)
<1>1. /\ s \in MapStates /\ s.pte \in [Linear -> Entry] /\ s.free \subseteq Pages
      /\ s.pde \in [Tables -> Pages \union {None, Device}]
  BY DEF Sound, MapStates
<1>2. CASE ps = {}
  BY <1>2, Answered DEF Decommit
<1>3. CASE ps # {}
  <2> DEFINE gone == {p \in ps : s.pte[p].is \in {"page", "phys"}}
             pte1 == [p \in Linear |-> IF p \in ps /\ s.pte[p].is \in {"page", "phys"}
                                       THEN [is |-> "reserved", first |-> s.pte[p].first, page |-> None]
                                       ELSE s.pte[p]]
             free1 == s.free \union {s.pte[p].page : p \in {q \in ps : s.pte[q].is = "page"}}
             r == [s EXCEPT !.pte = pte1, !.free = free1, !.ax = 1]
  <2>1. Decommit(s, ps) = r
    BY <1>3 DEF Decommit
  <2>2. \A p \in Linear :
          /\ p \in gone => pte1[p].is = "reserved" /\ pte1[p].page = None /\ pte1[p].first = s.pte[p].first
          /\ p \notin gone => pte1[p] = s.pte[p]
    OBVIOUS
  <2>3. pte1 \in [Linear -> Entry]
    BY <1>1, <2>2 DEF Entry
  <2>4. free1 \subseteq Pages
    BY <1>1 DEF Sound, Apart
  <2>5. free1 = s.free \union {s.pte[p].page : p \in {q \in gone : s.pte[q].is = "page"}}
    OBVIOUS
  <2>6. gone \subseteq Linear /\ \A p \in gone : s.pte[p].is # "none"
    OBVIOUS
  <2> HIDE DEF pte1, gone, free1
  <2>7. r \in MapStates /\ r.pte = pte1 /\ r.free = free1 /\ r.pde = s.pde
    <3>1. free1 \in SUBSET Pages /\ 1 \in Int
      BY <2>4
    <3>2. Is(r, s, pte1, free1, 1)
      BY <1>1, <2>3, <3>1, Changed
    <3> HIDE DEF r
    <3> QED BY <3>2 DEF Is
  <2> HIDE DEF r
  <2>8. Apart(r, rest) /\ NoneLost(r, rest)
    BY <2>2, <2>5, <2>6, <2>7, PagesReturned
  <2>9. \A p \in Linear : (r.pte[p].is = "none" <=> s.pte[p].is = "none") /\ r.pte[p].first = s.pte[p].first
    BY <2>2, <2>6, <2>7
  <2>10. Shown(r, B)
    BY <2>7, <2>9 DEF Shown, Sound
  <2> QED BY <2>1, <2>7, <2>8, <2>10 DEF Sound
<1> QED BY <1>2, <1>3
-----------------------------------------------------------------------------
LEMMA Extents ==
  ASSUME NEW b \in [first : Linear, pages : 1..MaxBlock]
  PROVE  /\ b.first \in Nat /\ b.pages \in Nat \ {0} /\ Extent(b) \subseteq Nat
         /\ b.first \in Extent(b)
         /\ \A q \in Extent(b) : b.first..q \subseteq Extent(b)
         /\ \A q \in Nat : q \in Extent(b) <=> b.first <= q /\ q < b.first + b.pages
<1>1. b.first \in Linear /\ b.pages \in 1..MaxBlock
  OBVIOUS
<1>2. Linear \subseteq Nat /\ MaxBlock \in Nat
  BY Sizes
<1>3. b.first \in Nat
  BY <1>1, <1>2
<1>4. b.pages \in Nat \ {0}
  BY <1>1, <1>2
<1> QED BY <1>3, <1>4 DEF Extent

(* _PageFree finds the block and nothing else, though the map does not say *)
(* where a block ends.                                                     *)
LEMMA ObjectIs ==
  ASSUME NEW s, NEW B, Shown(s, B), NEW b \in B
  PROVE  Object(s, b.first) = Extent(b)
<1> DEFINE p == b.first  e == b.first + b.pages
<1>1. /\ B \subseteq [first : Linear, pages : 1..MaxBlock]
      /\ \A c, d \in B : c # d => Extent(c) \intersect Extent(d) = {}
      /\ Extent(b) \subseteq Linear /\ SystemBase - 1 \notin Extent(b)
      /\ p \in Nat /\ e \in Nat /\ Top \in Nat
  BY Extents, Sizes DEF Shown, Fits
<1>2. Extent(b) \subseteq Object(s, p)
  <2> SUFFICES ASSUME NEW q \in Extent(b), NEW r \in (p + 1)..q
               PROVE  q \in p..Top /\ s.pte[r].is # "none" /\ ~ s.pte[r].first
    BY <1>1, Extents DEF Object, Linear, Extent
  <2>1. q \in p..Top
    BY <1>1 DEF Linear, Extent
  <2>2. r \in Extent(b) /\ r \in Linear
    BY <1>1 DEF Extent
  <2>3. s.pte[r].is # "none"
    BY <2>2 DEF Shown
  <2>4. ASSUME s.pte[r].first PROVE FALSE
    <3>1. PICK c \in B : r = c.first
      BY <2>2, <2>4 DEF Shown
    <3>2. r \in Extent(c)
      BY <1>1, <3>1, Extents
    <3>3. c = b
      BY <1>1, <2>2, <3>2
    <3> QED BY <1>1, <3>1, <3>3
  <2> QED BY <2>1, <2>3, <2>4
<1>3. Object(s, p) \subseteq Extent(b)
  <2> SUFFICES ASSUME NEW q \in p..Top, \A r \in (p + 1)..q : s.pte[r].is # "none" /\ ~ s.pte[r].first,
                      q \notin Extent(b)
               PROVE  FALSE
    BY DEF Object
  <2>1. q \in Nat /\ e <= q /\ e > p
    BY <1>1, Extents DEF Extent
  <2>2. e \in (p + 1)..q /\ e \in Linear /\ e \notin Extent(b) /\ e - 1 \in Extent(b)
    BY <1>1, <2>1 DEF Linear, Extent
  <2>3. s.pte[e].is # "none" /\ ~ s.pte[e].first
    BY <2>2
  <2>4. e # SystemBase
    BY <1>1, <2>2
  <2>5. PICK c \in B : e \in Extent(c)
    BY <2>2, <2>3, <2>4 DEF Shown
  <2>6. e # c.first /\ c # b
    BY <2>2, <2>3, <2>5 DEF Shown
  <2>7. c.first \in Nat /\ c.pages \in Nat /\ c.first <= e /\ e < c.first + c.pages
    BY <1>1, <2>5, Extents
  <2>8. e - 1 \in Extent(c)
    BY <1>1, <2>6, <2>7 DEF Extent
  <2> QED BY <1>1, <2>2, <2>6, <2>8
<1> QED BY <1>2, <1>3

LEMMA ReleaseKept ==
  ASSUME NEW s, NEW rest, NEW B, Sound(s, rest, B), NEW p \in Linear
  PROVE  Sound(Release(s, p), rest, {b \in B : b.first # p})
<1> DEFINE left == {b \in B : b.first # p}
<1>1. /\ s \in MapStates /\ s.pte \in [Linear -> Entry] /\ s.free \subseteq Pages
      /\ s.pde \in [Tables -> Pages \union {None, Device}]
      /\ Shown(s, B) /\ Apart(s, rest)
  BY DEF Sound, MapStates
<1>2. CASE ~ s.pte[p].first
  <2>1. left = B
    BY <1>1, <1>2 DEF Shown
  <2>2. Release(s, p) = [s EXCEPT !.ax = 0]
    BY <1>2 DEF Release
  <2> QED BY <2>1, <2>2, Answered
<1>3. CASE s.pte[p].first
  <2>1. PICK b \in B : b.first = p
    BY <1>1, <1>3 DEF Shown
  <2> DEFINE gone == Extent(b)
             pte1 == [q \in Linear |-> IF q \in gone THEN Empty ELSE s.pte[q]]
             free1 == s.free \union {s.pte[q].page : q \in {r \in gone : s.pte[r].is = "page"}}
             r == [s EXCEPT !.free = free1, !.pte = pte1, !.ax = 1]
  <2>2. Object(s, p) = gone
    BY <1>1, <2>1, ObjectIs
  <2>3. Release(s, p) = r
    BY <1>3, <2>2 DEF Release
  <2>4. gone \subseteq Linear /\ SystemBase \notin gone
    BY <1>1 DEF Shown, Fits
  <2>5. free1 \in SUBSET Pages /\ 1 \in Int
    BY <1>1, <2>4 DEF Apart
  <2>6. pte1 \in [Linear -> Entry]
    <3>1. Empty \in Entry
      BY DEF Empty, Entry
    <3> QED BY <1>1, <3>1
  <2>7. Is(r, s, pte1, free1, 1)
    <3>1. r = [s EXCEPT !.pte = pte1, !.free = free1, !.ax = 1]
      BY <1>1 DEF MapStates
    <3> HIDE DEF pte1, free1
    <3> QED BY <1>1, <2>5, <2>6, <3>1, Changed
  <2>8. /\ \A q \in gone : pte1[q].is = "none" /\ ~ pte1[q].first /\ pte1[q].page = None
        /\ \A q \in Linear \ gone : pte1[q] = s.pte[q]
    BY <2>4 DEF Empty
  <2> HIDE DEF pte1, r
  <2>9. Apart(r, rest) /\ NoneLost(r, rest)
    <3>1. \A q \in gone : r.pte[q].is # "page" /\ r.pte[q].page \in {None, Device}
      BY <2>7, <2>8 DEF Is
    <3>2. \A q \in Linear \ gone : r.pte[q] = s.pte[q]
      BY <2>7, <2>8 DEF Is
    <3>3. r \in MapStates /\ r.pde = s.pde /\ r.free = free1
      BY <2>7 DEF Is
    <3> HIDE DEF gone
    <3> QED BY <2>4, <3>1, <3>2, <3>3, PagesReturned
  <2>10. \A c \in B : c # b => Extent(c) \intersect gone = {} /\ c.first \notin gone /\ c \in left
    <3> SUFFICES ASSUME NEW c \in B, c # b PROVE Extent(c) \intersect gone = {} /\ c.first \notin gone /\ c \in left
      OBVIOUS
    <3>1. Extent(c) \intersect gone = {}
      BY <1>1 DEF Shown
    <3>2. c.first \in Extent(c) /\ b.first \in gone
      BY <1>1, Extents DEF Shown
    <3> QED BY <2>1, <3>1, <3>2
  <2>11. b \notin left /\ left \subseteq B
    BY <2>1
  <2>12. b.first \in gone
    BY <1>1, Extents DEF Shown
  <2> HIDE DEF gone, left
  <2>13. Shown(r, left)
    <3>1. /\ left \subseteq [first : Linear, pages : 1..MaxBlock] /\ \A c \in left : Fits(c)
          /\ \A c, d \in left : c # d => Extent(c) \intersect Extent(d) = {}
      BY <1>1, <2>11 DEF Shown
    <3>2. \A q \in Linear : pte1[q].is # "none" <=> q = SystemBase \/ \E c \in left : q \in Extent(c)
      <4> TAKE q \in Linear
      <4>1. CASE q \in gone
        BY <2>4, <2>8, <2>10, <2>11, <4>1
      <4>2. CASE q \notin gone
        BY <1>1, <2>8, <2>10, <2>11, <4>2 DEF Shown, gone
      <4> QED BY <4>1, <4>2
    <3>3. \A q \in Linear : pte1[q].first <=> \E c \in left : q = c.first
      <4> TAKE q \in Linear
      <4>1. CASE q \in gone
        BY <2>8, <2>10, <2>11, <4>1
      <4>2. CASE q \notin gone
        BY <1>1, <2>8, <2>10, <2>11, <2>12, <4>2 DEF Shown
      <4> QED BY <4>1, <4>2
    <3>4. \A q \in Linear : pte1[q].is # "none" => s.pde[TableOf(q)] # None
      BY <1>1, <2>8 DEF Shown
    <3> QED BY <2>7, <3>1, <3>2, <3>3, <3>4 DEF Shown, Is
  <2> QED BY <2>3, <2>7, <2>9, <2>13 DEF Sound, Is, left
<1> QED BY <1>2, <1>3
-----------------------------------------------------------------------------
Regions == {"private", "system"}

LEMMA FreeIs ==
  ASSUME NEW rest, NEW B, Sound(State, rest, B), NEW q \in Nat, NEW n \in Nat \ {0}, NEW p \in Nat, Gap(q, p, n)
  PROVE  /\ q >= p /\ q..(q + n - 1) \subseteq Linear /\ q \in Linear
         /\ \A i \in q..(q + n - 1) : /\ pte[i].is = "none" /\ i # SystemBase /\ pte[i].page \notin Pages
                                      /\ ~ pte[i].first /\ \A b \in B : i \notin Extent(b) /\ i # b.first
<1> DEFINE gap == q..(q + n - 1)
<1>1. q >= p /\ \A i \in gap : i \in Linear /\ pte[i].is = "none"
  BY DEF Gap, IsFree
<1>2. q \in gap
  OBVIOUS
<1>3. Shown(State, B) /\ Apart(State, rest) /\ State.pte = pte
  BY DEF Sound, State
<1>4. \A b \in B : b.first \in Extent(b)
  BY <1>3, Extents DEF Shown
<1> HIDE DEF gap
<1>5. \A i \in gap : i # SystemBase /\ \A b \in B : i \notin Extent(b)
  BY <1>1, <1>3 DEF Shown
<1>6. \A i \in gap : \A b \in B : i # b.first
  BY <1>4, <1>5
<1>7. \A i \in gap : ~ pte[i].first
  BY <1>1, <1>3, <1>6 DEF Shown
<1>8. \A i \in gap : pte[i].page \notin Pages
  BY <1>1, <1>3 DEF Apart
<1> QED BY <1>1, <1>2, <1>5, <1>6, <1>7, <1>8 DEF gap

(* A new block, with the page tables that it needs.                        *)
LEMMA ReservedKept ==
  ASSUME NEW rest, NEW B, Sound(State, rest, B), NEW q \in Nat, NEW n \in 1..MaxBlock, NEW p \in Nat, Gap(q, p, n),
         Reserved(State, q, n).ax >= 0 => SystemBase - 1 \notin q..(q + n - 1)
  PROVE  LET r == Reserved(State, q, n)
         IN  \/ r.ax = NoReturn /\ Sound(r, rest, B)
             \/ r.ax = q /\ Sound(r, rest, B \union {Block(q, n)})
<1> DEFINE s == State
           gap == q..(q + n - 1)
           new == Missing(s, gap)
           give == AllocPages(new, s.free)
           pde1 == [t \in Tables |-> IF t \in new THEN give[t] ELSE s.pde[t]]
           pte1 == [i \in Linear |-> IF i \in gap THEN [is |-> "reserved", first |-> i = q, page |-> None]
                                     ELSE s.pte[i]]
           free1 == s.free \ {give[t] : t \in new}
           done == [s EXCEPT !.pde = pde1, !.free = free1, !.pte = pte1, !.ax = q]
           now == [pte |-> pte1, pde |-> pde1, free |-> free1, ax |-> q]
           b1 == Block(q, n)
<1>1. /\ s \in MapStates /\ pte \in [Linear -> Entry] /\ free \in SUBSET Pages
      /\ pde \in [Tables -> Pages \union {None, Device}]
      /\ s.pte = pte /\ s.pde = pde /\ s.free = free
  BY DEF Sound, MapStates, State
<1>2. CASE Cardinality(new) > Cardinality(free)
  <2>1. Reserved(State, q, n) = [State EXCEPT !.ax = NoReturn]
    BY <1>1, <1>2 DEF Reserved
  <2>2. NoReturn \in Int
    BY DEF NoReturn
  <2> QED BY <2>1, <2>2, Answered
<1>3. CASE ~ (Cardinality(new) > Cardinality(free))
  <2>1. /\ gap \subseteq Linear /\ q \in Linear
        /\ \A i \in gap : /\ pte[i].is = "none" /\ i # SystemBase /\ pte[i].page \notin Pages
                          /\ ~ pte[i].first /\ \A b \in B : i \notin Extent(b) /\ i # b.first
    <3>1. n \in Nat \ {0}
      OBVIOUS
    <3> QED BY <3>1, FreeIs
  <2>2. q \in gap
    BY Sizes
  <2>3. new \subseteq Tables /\ (\A t \in new : pde[t] = None) /\ \A i \in gap : pde[TableOf(i)] = None => TableOf(i) \in new
    BY <1>1, <2>1, TableIn DEF Missing
  <2>4. IsFiniteSet(new) /\ IsFiniteSet(free) /\ Cardinality(new) \in Nat /\ Cardinality(free) \in Nat
    <3> HIDE DEF new
    <3> QED BY <1>1, <2>3, Sizes, JlmPagesAssumption, FS_Subset, FS_CardinalityType
  <2>5. give \in [new -> free] /\ \A t, u \in new : t # u => give[t] # give[u]
    <3> HIDE DEF new
    <3>1. Cardinality(new) <= Cardinality(free)
      BY <1>3, <2>4
    <3> QED BY <1>1, <2>4, <3>1, Allocated
  <2>6. Reserved(State, q, n) = done
    <3>1. Cardinality(new) > Cardinality(s.free) <=> Cardinality(new) > Cardinality(free)
      BY <1>1
    <3>2. ~ (Cardinality(new) > Cardinality(s.free))
      BY <1>3, <3>1
    <3> QED BY <3>2 DEF Reserved
  <2> HIDE DEF give, new
  <2>8. \A t \in Tables : pde1[t] = IF t \in new THEN give[t] ELSE pde[t]
    BY <1>1
  <2>9. /\ \A i \in gap : pte1[i].is = "reserved" /\ pte1[i].page = None /\ (pte1[i].first <=> i = q)
        /\ \A i \in Linear \ gap : pte1[i] = pte[i]
    BY <1>1, <2>1
  <2>10. pde1 \in [Tables -> Pages \union {None, Device}]
    BY <1>1, <2>5
  <2>11. pte1 \in [Linear -> Entry]
    BY <1>1 DEF Entry
  <2>12. free1 \subseteq free /\ (\A g \in free : g \in free1 \/ \E t \in new : give[t] = g)
         /\ \A t \in new : give[t] \in free /\ give[t] \in Pages /\ give[t] \notin free1
    BY <1>1, <2>5
  <2> HIDE DEF pde1, pte1, free1, done, gap
  <2>13. now \in MapStates
    BY <1>1, <2>10, <2>11, <2>12 DEF MapStates
  <2>7. done = now
    <3>1. free1 \in SUBSET Pages /\ q \in Int
      BY <1>1, <2>12
    <3>2. IsAll(done, pte1, pde1, free1, q)
      BY <1>1, <2>10, <2>11, <3>1, AllChanged DEF done
    <3> QED BY <3>2 DEF IsAll
  <2>14. Apart(s, rest) /\ NoneLost(s, rest) /\ Shown(s, B)
    BY DEF Sound
  <2>15. None \notin Pages
    BY Sizes
  <2>16. Apart(now, rest)
    <3>1. free1 \intersect rest = {} /\ rest \subseteq Pages
      BY <1>1, <2>12, <2>14 DEF Apart
    <3>2. \A i \in Linear : pte1[i].is = "page" <=> pte1[i].page \in Pages
      BY <1>1, <2>9, <2>14, <2>15 DEF Apart
    <3>3. \A t \in Tables : pde1[t] \notin free1 \union rest
      BY <1>1, <2>8, <2>12, <2>14 DEF Apart
    <3>4. \A i \in Linear : pte1[i].page \notin free1 \union rest
      BY <1>1, <2>9, <2>12, <2>14, <2>15 DEF Apart
    <3>5. \A t, u \in Tables : pde1[t] \in Pages /\ pde1[t] = pde1[u] => t = u
      BY <1>1, <2>5, <2>8, <2>12, <2>14 DEF Apart
    <3>6. \A i, j \in Linear : pte1[i].page \in Pages /\ pte1[i].page = pte1[j].page => i = j
      BY <1>1, <2>9, <2>14, <2>15 DEF Apart
    <3>7. \A t \in Tables, i \in Linear : pde1[t] \in Pages => pde1[t] # pte1[i].page
      BY <1>1, <2>8, <2>9, <2>12, <2>14, <2>15 DEF Apart
    <3> QED BY <3>1, <3>2, <3>3, <3>4, <3>5, <3>6, <3>7 DEF Apart
  <2>17. NoneLost(now, rest)
    <3> SUFFICES ASSUME NEW g \in Pages, g \notin free1, g \notin rest, \A i \in Linear : pte1[i].page # g
                 PROVE  \E t \in Tables : pde1[t] = g
      BY DEF NoneLost
    <3>1. CASE g \in free
      BY <2>3, <2>8, <2>12, <3>1
    <3>2. CASE g \notin free
      <4>1. \A i \in Linear : pte[i].page # g
        BY <2>1, <2>9
      <4>2. PICK t \in Tables : pde[t] = g
        BY <1>1, <2>14, <3>2, <4>1 DEF NoneLost
      <4>3. t \notin new
        BY <2>3, <2>15, <4>2
      <4> QED BY <2>8, <4>2, <4>3
    <3> QED BY <3>1, <3>2
  <2>18. b1 \in [first : Linear, pages : 1..MaxBlock] /\ Extent(b1) = gap /\ b1.first = q
    BY <2>1 DEF Block, Extent, gap
  <2> HIDE DEF b1
  <2>19. Shown(now, B \union {b1})
    <3>1. Fits(b1) /\ \A b \in B : Fits(b)
      <4>1. Reserved(State, q, n).ax = q
        BY <2>6, <2>7
      <4>2. SystemBase - 1 \notin gap
        BY <4>1 DEF gap
      <4> QED BY <2>1, <2>14, <2>18, <4>2 DEF Fits, Shown
    <3>2. \A b, c \in B \union {b1} : b # c => Extent(b) \intersect Extent(c) = {}
      BY <2>1, <2>14, <2>18 DEF Shown
    <3>3. \A i \in Linear : pte1[i].is # "none" <=> i = SystemBase \/ \E b \in B \union {b1} : i \in Extent(b)
      <4> TAKE i \in Linear
      <4>1. CASE i \in gap
        BY <2>9, <2>18, <4>1
      <4>2. CASE i \notin gap
        BY <1>1, <2>9, <2>14, <2>18, <4>2 DEF Shown
      <4> QED BY <4>1, <4>2
    <3>4. \A i \in Linear : pte1[i].first <=> \E b \in B \union {b1} : i = b.first
      <4> TAKE i \in Linear
      <4>1. CASE i \in gap
        BY <2>1, <2>9, <2>18, <4>1
      <4>2. CASE i \notin gap
        BY <1>1, <2>2, <2>9, <2>14, <2>18, <4>2 DEF Shown
      <4> QED BY <4>1, <4>2
    <3>5. \A i \in Linear : pte1[i].is # "none" => pde1[TableOf(i)] # None
      <4> TAKE i \in Linear
      <4>1. TableOf(i) \in Tables
        BY TableIn
      <4>2. CASE i \in gap
        BY <2>3, <2>8, <2>12, <2>15, <4>1, <4>2
      <4>3. CASE i \notin gap
        BY <1>1, <2>8, <2>9, <2>12, <2>14, <2>15, <4>1, <4>3 DEF Shown
      <4> QED BY <4>2, <4>3
    <3>6. B \union {b1} \subseteq [first : Linear, pages : 1..MaxBlock]
      BY <2>14, <2>18 DEF Shown
    <3> QED BY <3>1, <3>2, <3>3, <3>4, <3>5, <3>6 DEF Shown
  <2> QED BY <2>6, <2>7, <2>13, <2>16, <2>17, <2>19 DEF Sound, b1
<1> QED BY <1>2, <1>3

LEMMA ReserveKept ==
  ASSUME NEW rest, NEW B, Sound(State, rest, B), NEW region \in Regions, NEW n \in 0..MaxBlock,
         region = "system" \/ Roomy(Reserve(State, region, n), n)
  PROVE  LET r == Reserve(State, region, n)
         IN  \/ r.ax \in Int /\ r.ax < 0 /\ Sound(r, rest, B)
             \/ /\ r.ax \in Nat /\ n \in 1..MaxBlock /\ r.ax..(r.ax + n - 1) \subseteq Linear
                /\ Sound(r, rest, B \union {Block(r.ax, n)})
<1> DEFINE r == Reserve(State, region, n)
           q == IF n = 0 THEN Failed ELSE Scan(Begin[region], Size[region], n)
<1>1. r = IF q < 0 THEN [State EXCEPT !.ax = q] ELSE Reserved(State, q, n)
  BY DEF Reserve
<1>2. MaxBlock \in Nat /\ SystemBase \in Nat /\ SystemBase \in Linear /\ Top \in Nat
  BY Sizes
<1>3. /\ Begin[region] \in Linear /\ Size[region] \in Int
      /\ region = "system" => Begin[region] = SystemBase
  <2>1. SystemTables * TableSize \in Int
    BY Sizes
  <2> QED BY <1>2, <2>1 DEF Regions, Begin, Size, Linear
<1>4. q \in Int /\ (q >= 0 => n # 0 /\ q \in Nat /\ Gap(q, Begin[region], n))
  <2>1. CASE n = 0
    BY <2>1 DEF Failed
  <2>2. CASE n # 0
    <3>1. n \in Nat \ {0}
      BY <1>2, <2>2
    <3> QED BY <1>3, <2>2, <3>1, Scanned
  <2> QED BY <2>1, <2>2
<1> HIDE DEF q
<1>5. CASE q < 0
  <2>1. Sound([State EXCEPT !.ax = q], rest, B) /\ [State EXCEPT !.ax = q].ax = q
    BY <1>4, Answered
  <2> QED BY <1>1, <1>4, <1>5, <2>1
<1>6. CASE q >= 0
  <2>1. n \in 1..MaxBlock /\ n \in Nat \ {0} /\ q \in Nat /\ Begin[region] \in Nat /\ Gap(q, Begin[region], n)
    <3>1. n \in 1..MaxBlock /\ n \in Nat \ {0}
      BY <1>2, <1>4, <1>6
    <3>2. Linear \subseteq Nat
      BY Sizes
    <3> QED BY <1>3, <1>4, <1>6, <3>1, <3>2
  <2>2. r = Reserved(State, q, n)
    BY <1>1, <1>4, <1>6
  <2>3. q..(q + n - 1) \subseteq Linear /\ q >= Begin[region]
    BY <2>1, FreeIs
  <2> DEFINE s == Reserved(State, q, n)
  <2>4. s.ax \in {NoReturn, q}
    <3>1. State \in MapStates /\ q \in Int
      BY <2>1 DEF Sound
    <3> QED BY <3>1 DEF Reserved, MapStates
  <2>5. s.ax >= 0 => SystemBase - 1 \notin q..(q + n - 1)
    <3>1. CASE region = "system"
      BY <1>2, <1>3, <2>1, <2>3, <3>1
    <3>2. CASE region # "system"
      <4>1. Roomy(s, n)
        BY <2>2, <3>2
      <4>2. s.ax >= 0 => s.ax = q
        BY <2>4 DEF NoReturn
      <4> HIDE DEF s
      <4> QED BY <4>1, <4>2 DEF Roomy
    <3> QED BY <3>1, <3>2
  <2>6. \/ s.ax = NoReturn /\ Sound(s, rest, B)
        \/ s.ax = q /\ Sound(s, rest, B \union {Block(q, n)})
    BY <2>1, <2>5, ReservedKept
  <2> HIDE DEF s, r
  <2>7. r = s
    BY <2>2 DEF s
  <2>8. \/ r.ax \in Int /\ r.ax < 0 /\ Sound(r, rest, B)
        \/ /\ r.ax \in Nat /\ n \in 1..MaxBlock /\ r.ax..(r.ax + n - 1) \subseteq Linear
           /\ Sound(r, rest, B \union {Block(r.ax, n)})
    <3>1. CASE r.ax = NoReturn /\ Sound(r, rest, B)
      BY <3>1 DEF NoReturn
    <3>2. CASE r.ax = q /\ Sound(r, rest, B \union {Block(q, n)})
      BY <2>1, <2>3, <3>2, Zenon
    <3> QED BY <2>6, <2>7, <3>1, <3>2
  <2> QED BY <2>8 DEF r
<1> QED BY <1>4, <1>5, <1>6
-----------------------------------------------------------------------------
LEMMA Becomes ==
  ASSUME NEW s \in MapStates, Become(s)
  PROVE  Now' = s
BY DEF Become, Now, MapStates

LEMMA StateSound ==
  ASSUME JlmInv
  PROVE  Sound(State, others, blocks)
<1>1. Now.pte = State.pte /\ Now.pde = State.pde /\ Now.free = State.free
  BY DEF Now, State
<1>2. State \in MapStates
  BY DEF JlmInv, Sound, Now, State, MapStates
<1> QED BY <1>1, <1>2 DEF JlmInv, Sound, Apart, NoneLost, Shown

LEMMA PartsIn ==
  ASSUME JlmInv, NEW b \in blocks
  PROVE  Extent(b) \subseteq Linear /\ \A ps \in Parts(b) : ps \in SUBSET Linear
<1>1. Extent(b) \subseteq Linear /\ b \in [first : Linear, pages : 1..MaxBlock]
  BY DEF JlmInv, Sound, Shown, Fits
<1>2. b.first \in Nat /\ b.pages \in Nat
  BY <1>1, Extents
<1>3. \A i, j \in Extent(b) : i..j \subseteq Extent(b)
  BY <1>2 DEF Extent
<1>4. ASSUME NEW ps \in Parts(b) PROVE ps \in SUBSET Linear
  <2>1. PICK i \in Extent(b), j \in Extent(b) : ps = i..j
    BY DEF Parts
  <2>2. i..j \subseteq Extent(b)
    BY <1>3
  <2> QED BY <1>1, <2>1, <2>2
<1> QED BY <1>1, <1>4

LEMMA JlmStarts == JlmInit => JlmInv
<1> SUFFICES ASSUME JlmInit PROVE JlmInv
  OBVIOUS
<1>1. /\ SystemBase \in Linear /\ None \notin Pages /\ Device \notin Pages /\ None # Device
      /\ TableOf(SystemBase) \in Tables
  BY Sizes, TableIn
<1>2. /\ pte = [p \in Linear |-> IF p = SystemBase THEN [Empty EXCEPT !.is = "phys", !.page = Device] ELSE Empty]
      /\ pde = [t \in Tables |-> IF t = TableOf(SystemBase) THEN Device ELSE None]
      /\ free = Pages /\ others = {} /\ blocks = {} /\ eax = 0
      /\ loaded = [m \in Modules |-> NotLoaded]
  BY DEF JlmInit
<1>3. /\ pte \in [Linear -> Entry]
      /\ \A p \in Linear : /\ pte[p].page \in {None, Device} /\ pte[p].is \in {"none", "phys"} /\ ~ pte[p].first
                           /\ pte[p].is # "none" <=> p = SystemBase
  <2>1. Empty \in Entry /\ [Empty EXCEPT !.is = "phys", !.page = Device] \in Entry
    BY DEF Empty, Entry
  <2> QED BY <1>2, <2>1 DEF Empty
<1>4. pde \in [Tables -> Pages \union {None, Device}] /\ pde[TableOf(SystemBase)] # None
      /\ \A t \in Tables : pde[t] \in {None, Device}
  BY <1>1, <1>2
<1>5. Now \in MapStates
  BY <1>2, <1>3, <1>4 DEF Now, MapStates
<1>6. Apart(Now, others) /\ NoneLost(Now, others)
  BY <1>1, <1>2, <1>3, <1>4 DEF Now, Apart, NoneLost
<1>7. Shown(Now, blocks)
  BY <1>1, <1>2, <1>3, <1>4 DEF Now, Shown
<1> QED BY <1>2, <1>5, <1>6, <1>7 DEF JlmInv, Sound

LEMMA LoadKept ==
  ASSUME JlmInv, NEW m \in Modules, NEW n \in 1..MaxBlock, NEW discard \in {0, 1}, NEW readable \in BOOLEAN,
         discard < n, LoadJLM(m, n, discard, readable)
  PROVE  JlmInv'
<1> DEFINE r == Reserve(State, "system", n)
           c == Commit(r, r.ax..(r.ax + n - 1), TRUE)
           d == Decommit(c, (r.ax + n - discard)..(r.ax + n - 1))
<1>1. n \in 0..MaxBlock /\ n \in Nat /\ discard \in Nat
  BY Sizes
<1>2. \/ r.ax \in Int /\ r.ax < 0 /\ Sound(r, others, blocks)
      \/ /\ r.ax \in Nat /\ r.ax..(r.ax + n - 1) \subseteq Linear
         /\ Sound(r, others, blocks \union {Block(r.ax, n)})
  BY <1>1, StateSound, ReserveKept DEF Regions
<1> HIDE DEF r
<1>3. loaded \in [Modules -> Linear \union {NotLoaded}]
  BY DEF JlmInv
<1>4. CASE r.ax < 0
  <2>1. Become(r) /\ UNCHANGED <<blocks, loaded, others>> /\ Sound(r, others, blocks)
    BY <1>2, <1>4 DEF LoadJLM, r
  <2>2. Now' = r
    BY <2>1, Becomes DEF Sound
  <2> QED BY <1>3, <2>1, <2>2 DEF JlmInv
<1>5. CASE ~ (r.ax < 0)
  <2>1. /\ r.ax \in Nat /\ r.ax..(r.ax + n - 1) \subseteq Linear
        /\ Sound(r, others, blocks \union {Block(r.ax, n)})
    BY <1>2, <1>5
  <2>2. blocks' = blocks \union {Block(r.ax, n)} /\ others' = others
    BY <1>5 DEF LoadJLM, r
  <2>3. Sound(c, others, blocks')
    BY <2>1, <2>2, CommitKept
  <2>4. r.ax \in Linear
    BY <1>1, <2>1
  <2>5. (r.ax + n - discard)..(r.ax + n - 1) \in SUBSET Linear
    BY <1>1, <2>1
  <2>6. Sound(d, others, blocks')
    <3> HIDE DEF c
    <3> QED BY <2>3, <2>5, DecommitKept
  <2>7. 0 \in Int /\ 1 \in Int
    OBVIOUS
  <2>8. CASE c.ax = 0 \/ ~ readable
    <3>1. Become([c EXCEPT !.ax = 0]) /\ UNCHANGED loaded
      BY <1>5, <2>8 DEF LoadJLM, r
    <3>2. Sound([c EXCEPT !.ax = 0], others, blocks')
      BY <2>3, <2>7, Answered
    <3>3. Now' = [c EXCEPT !.ax = 0]
      BY <3>1, <3>2, Becomes DEF Sound
    <3> QED BY <1>3, <2>2, <3>1, <3>2, <3>3 DEF JlmInv
  <2>9. CASE ~ (c.ax = 0 \/ ~ readable)
    <3>1. Become([d EXCEPT !.ax = 1]) /\ loaded' = [loaded EXCEPT ![m] = r.ax]
      BY <1>5, <2>9 DEF LoadJLM, r
    <3>2. Sound([d EXCEPT !.ax = 1], others, blocks')
      BY <2>6, <2>7, Answered
    <3>3. Now' = [d EXCEPT !.ax = 1]
      BY <3>1, <3>2, Becomes DEF Sound
    <3>4. loaded' \in [Modules -> Linear \union {NotLoaded}]
      BY <1>3, <2>4, <3>1
    <3> QED BY <2>2, <3>2, <3>3, <3>4 DEF JlmInv
  <2> QED BY <2>8, <2>9
<1> QED BY <1>4, <1>5

(* The other clients of the pool take a page or give one back.             *)
LEMMA OthersKept ==
  ASSUME JlmInv, NEW f, NEW o, f \union o = free \union others, f \intersect o = {}, f \subseteq Pages, o \subseteq Pages,
         free' = f, others' = o, UNCHANGED <<pte, pde, blocks, loaded, eax>>
  PROVE  JlmInv'
<1>1. Sound(Now, others, blocks) /\ Now.pte = pte /\ Now.pde = pde /\ Now.free = free
  BY DEF JlmInv, Now
<1>2. Now' \in MapStates /\ Now'.pte = pte /\ Now'.pde = pde /\ Now'.free = f
  BY <1>1 DEF Sound, MapStates, Now
<1>3. \A g : g \in f \union o <=> g \in free \union others
  OBVIOUS
<1> HIDE DEF Now
<1>4. Apart(Now', o)
  BY <1>1, <1>2, <1>3 DEF Sound, Apart
<1>5. NoneLost(Now', o)
  BY <1>1, <1>2, <1>3 DEF Sound, NoneLost
<1>6. Shown(Now', blocks)
  BY <1>1, <1>2 DEF Sound, Shown
<1>7. Sound(Now, others, blocks)'
  BY <1>2, <1>4, <1>5, <1>6 DEF Sound
<1> QED BY <1>7 DEF JlmInv

LEMMA JlmStep == JlmInv /\ [JlmNext]_jlmVars => JlmInv'
<1> SUFFICES ASSUME JlmInv, [JlmNext]_jlmVars PROVE JlmInv'
  OBVIOUS
<1>1. /\ Sound(State, others, blocks) /\ loaded \in [Modules -> Linear \union {NotLoaded}]
      /\ MaxBlock \in Nat
  BY StateSound, Sizes DEF JlmInv
<1>2. ASSUME NEW s, Become(s), Sound(s, others, blocks'), others' = others,
             loaded' \in [Modules -> Linear \union {NotLoaded}]
      PROVE  JlmInv'
  <2>1. Now' = s
    BY <1>2, Becomes DEF Sound
  <2> QED BY <1>2, <2>1 DEF JlmInv
<1>3. ASSUME NEW region \in DOMAIN Region, NEW n \in 0..MaxBlock, PageReserve(region, n) PROVE JlmInv'
  <2> DEFINE r == Reserve(State, region, n)
  <2>1. Roomy(r, n) /\ Become(r) /\ others' = others /\ loaded' = loaded
        /\ blocks' = IF r.ax < 0 THEN blocks ELSE blocks \union {Block(r.ax, n)}
    BY <1>3 DEF PageReserve
  <2>2. region \in Regions
    BY DEF Region, Regions
  <2>3. \/ r.ax \in Int /\ r.ax < 0 /\ Sound(r, others, blocks)
        \/ r.ax \in Nat /\ Sound(r, others, blocks \union {Block(r.ax, n)})
    BY <1>1, <2>1, <2>2, ReserveKept
  <2> HIDE DEF r
  <2>4. Sound(r, others, blocks')
    BY <2>1, <2>3
  <2> QED BY <1>1, <1>2, <2>1, <2>4
<1>4. ASSUME NEW b \in Own, NEW fixed \in BOOLEAN, NEW ps \in Parts(b), PageCommit(ps, fixed) PROVE JlmInv'
  <2>1. ps \in SUBSET Linear
    BY PartsIn DEF Own
  <2>2. Sound(Commit(State, ps, fixed), others, blocks)
    BY <1>1, <2>1, CommitKept
  <2> QED BY <1>1, <1>2, <1>4, <2>2 DEF PageCommit
<1>5. ASSUME NEW b \in Own, NEW ps \in Parts(b), PageCommitPhys(ps) PROVE JlmInv'
  <2>1. ps \in SUBSET Linear
    BY PartsIn DEF Own
  <2>2. Sound(CommitPhys(State, ps), others, blocks)
    BY <1>1, <2>1, CommitPhysKept
  <2> QED BY <1>1, <1>2, <1>5, <2>2 DEF PageCommitPhys
<1>6. ASSUME NEW b \in Own, NEW ps \in Parts(b), PageDecommit(ps) PROVE JlmInv'
  <2>1. ps \in SUBSET Linear
    BY PartsIn DEF Own
  <2>2. Sound(Decommit(State, ps), others, blocks)
    BY <1>1, <2>1, DecommitKept
  <2> QED BY <1>1, <1>2, <1>6, <2>2 DEF PageDecommit
<1>7. ASSUME NEW b \in Own, NEW p \in Extent(b), PageFree(p) PROVE JlmInv'
  <2>1. p \in Linear
    BY PartsIn DEF Own
  <2>2. Sound(Release(State, p), others, {c \in blocks : c.first # p})
    BY <1>1, <2>1, ReleaseKept
  <2> QED BY <1>1, <1>2, <1>7, <2>2 DEF PageFree
<1>8. ASSUME NEW m \in Modules, NEW n \in 1..MaxBlock, NEW discard \in {0, 1}, NEW readable \in BOOLEAN,
             discard < n, LoadJLM(m, n, discard, readable)
      PROVE  JlmInv'
  BY <1>8, LoadKept
<1>9. ASSUME NEW m \in Modules, UnloadJLM(m) PROVE JlmInv'
  <2>1. loaded[m] \in Linear
    BY <1>1, <1>9 DEF UnloadJLM
  <2>2. Sound(Release(State, loaded[m]), others, {c \in blocks : c.first # loaded[m]})
    BY <1>1, <2>1, ReleaseKept
  <2>3. loaded' \in [Modules -> Linear \union {NotLoaded}]
    BY <1>1, <1>9 DEF UnloadJLM
  <2> QED BY <1>2, <1>9, <2>2, <2>3 DEF UnloadJLM
<1>10. free \subseteq Pages /\ others \subseteq Pages /\ free \intersect others = {}
  BY <1>1 DEF Sound, Apart, MapStates, State
<1>11. CASE OthersTake
  <2>1. PICK p \in free : /\ free' = free \ {p} /\ others' = others \union {p}
                          /\ UNCHANGED <<pte, pde, blocks, loaded, eax>>
    BY <1>11 DEF OthersTake
  <2> DEFINE f == free \ {p}  o == others \union {p}
  <2>2. f \union o = free \union others /\ f \intersect o = {} /\ f \subseteq Pages /\ o \subseteq Pages
    BY <1>10
  <2>3. free' = f /\ others' = o
    BY <2>1
  <2> HIDE DEF f, o
  <2> QED BY <2>1, <2>2, <2>3, OthersKept
<1>12. CASE OthersReturn
  <2>1. PICK p \in others : /\ free' = free \union {p} /\ others' = others \ {p}
                            /\ UNCHANGED <<pte, pde, blocks, loaded, eax>>
    BY <1>12 DEF OthersReturn
  <2> DEFINE f == free \union {p}  o == others \ {p}
  <2>2. f \union o = free \union others /\ f \intersect o = {} /\ f \subseteq Pages /\ o \subseteq Pages
    BY <1>10
  <2>3. free' = f /\ others' = o
    BY <2>1
  <2> HIDE DEF f, o
  <2> QED BY <2>1, <2>2, <2>3, OthersKept
<1>13. CASE UNCHANGED jlmVars
  BY <1>13 DEF jlmVars, map, JlmInv, Now
<1> QED BY <1>3, <1>4, <1>5, <1>6, <1>7, <1>8, <1>9, <1>11, <1>12, <1>13 DEF JlmNext
-----------------------------------------------------------------------------
LEMMA OnePlace ==
  ASSUME JlmInv, NEW g \in Pages
  PROVE  PlacesOf(g) = 1
<1> DEFINE T == {t \in Tables : pde[t] = g}  P == {p \in Linear : pte[p].page = g}
<1>1. /\ Sound(Now, others, blocks) /\ Now.pte = pte /\ Now.pde = pde /\ Now.free = free
      /\ free \intersect others = {}
  BY DEF JlmInv, Now, Sound, Apart
<1>2. /\ g \in free \union others => T = {} /\ P = {}
      /\ \A t, u \in T : t = u
      /\ \A p, q \in P : p = q
      /\ T = {} \/ P = {}
      /\ g \in free \/ g \in others \/ T # {} \/ P # {}
  BY <1>1 DEF Sound, Apart, NoneLost
<1>3. Cardinality({}) = 0 /\ \A x : Cardinality({x}) = 1
  BY FS_EmptySet, FS_Singleton
<1>4. (T = {} \/ \E t : T = {t}) /\ (P = {} \/ \E p : P = {p})
  BY <1>2
<1>5. PlacesOf(g) = (IF g \in free THEN 1 ELSE 0) + (IF g \in others THEN 1 ELSE 0) + Cardinality(T) + Cardinality(P)
  BY DEF PlacesOf
<1> HIDE DEF T, P
<1>6. /\ T = {} => Cardinality(T) = 0
      /\ T # {} => Cardinality(T) = 1
      /\ P = {} => Cardinality(P) = 0
      /\ P # {} => Cardinality(P) = 1
  BY <1>3, <1>4
<1>7. CASE g \in free \/ g \in others
  BY <1>1, <1>2, <1>5, <1>6, <1>7
<1>8. CASE ~ (g \in free \/ g \in others)
  BY <1>2, <1>5, <1>6, <1>8
<1> QED BY <1>7, <1>8

LEMMA JlmSafe == JlmInv => PagesWhole /\ JlmPagesTypeOK
<1> SUFFICES ASSUME JlmInv PROVE PagesWhole /\ JlmPagesTypeOK
  OBVIOUS
<1>1. /\ Shown(Now, blocks) /\ Apart(Now, others) /\ Now \in MapStates
      /\ Now.pte = pte /\ Now.pde = pde /\ Now.free = free
  BY DEF JlmInv, Now, Sound
<1>2. PagesInOnePlace
  BY OnePlace DEF PagesInOnePlace
<1>3. BlocksWhole
  <2>1. \A b \in blocks : \A c \in blocks \ {b} : Extent(b) \intersect Extent(c) = {}
    BY <1>1 DEF Shown
  <2>2. {p \in Linear : pte[p].is # "none"} = {SystemBase} \union UNION {Extent(b) : b \in blocks}
    <3>1. SystemBase \in Linear /\ \A b \in blocks : Extent(b) \subseteq Linear
      BY <1>1, Sizes DEF Shown, Fits
    <3> QED BY <1>1, <3>1 DEF Shown
  <2>3. {p \in Linear : pte[p].first} = {b.first : b \in blocks}
    <3>1. \A b \in blocks : b.first \in Linear
      BY <1>1 DEF Shown
    <3> QED BY <1>1, <3>1 DEF Shown
  <2>4. \A p \in Linear : pte[p].is # "none" => pde[TableOf(p)] # None
    BY <1>1 DEF Shown
  <2> QED BY <2>1, <2>2, <2>3, <2>4 DEF BlocksWhole
<1>4. InRegion
  <2> SUFFICES ASSUME NEW b \in blocks
               PROVE  Extent(b) \subseteq Region.private \/ Extent(b) \subseteq Region.system
    BY DEF InRegion
  <2>1. /\ b \in [first : Linear, pages : 1..MaxBlock] /\ Extent(b) \subseteq Linear
        /\ SystemBase \notin Extent(b)
    BY <1>1 DEF Shown, Fits
  <2>2. b.first \in Nat /\ b.pages \in Nat /\ SystemBase \in Nat /\ Top \in Nat
    BY <2>1, Extents, Sizes
  <2> QED BY <2>1, <2>2 DEF Region, Linear, Extent
<1>5. JlmPagesTypeOK
  <2>1. blocks \subseteq [first : Linear, pages : 1..MaxBlock]
    BY <1>1 DEF Shown
  <2>2. others \subseteq Pages
    BY <1>1 DEF Apart
  <2>3. /\ pte \in [Linear -> Entry] /\ pde \in [Tables -> Pages \union {None, Device}] /\ free \subseteq Pages
    BY <1>1 DEF MapStates
  <2> QED BY <2>1, <2>2, <2>3 DEF JlmPagesTypeOK, JlmInv
<1> QED BY <1>2, <1>3, <1>4, <1>5 DEF PagesWhole

(* _PageReserve to _PageFree: whatever modules are loaded, reserve, commit *)
(* and free, and whatever the other clients of the pool take meanwhile,    *)
(* each page of the pool is in one place, and the page map is that of the  *)
(* blocks which were given out; so _PageFree frees one block.              *)
THEOREM PagesAlwaysWhole == JlmSpec => []PagesWhole
<1>1. JlmInit => JlmInv
  BY JlmStarts
<1>2. JlmInv /\ [JlmNext]_jlmVars => JlmInv'
  BY JlmStep
<1>3. JlmInv => PagesWhole
  BY JlmSafe
<1> QED BY <1>1, <1>2, <1>3, PTL DEF JlmSpec

(* The page map, the page directory and the list of blocks keep their      *)
(* types, with every table size.                                           *)
THEOREM PageMapTyped == JlmSpec => []JlmPagesTypeOK
<1>1. JlmInit => JlmInv
  BY JlmStarts
<1>2. JlmInv /\ [JlmNext]_jlmVars => JlmInv'
  BY JlmStep
<1>3. JlmInv => JlmPagesTypeOK
  BY JlmSafe
<1> QED BY <1>1, <1>2, <1>3, PTL DEF JlmSpec
=============================================================================
