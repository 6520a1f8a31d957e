------------------------------ MODULE NatLemmas ------------------------------
(***************************************************************************)
(* Least and greatest numbers of sets: what the scans of the monitor's     *)
(* tables stop at, and what takes the place of an induction in the proofs. *)
(***************************************************************************)
EXTENDS Naturals, FiniteSetTheorems, TLAPS

(* A set of numbers that is not empty has a least one.                     *)
LEMMA LeastNat ==
  ASSUME NEW S \in SUBSET Nat, S # {}
  PROVE  \E i \in S : \A j \in S : i <= j
<1> DEFINE Below(i) == {j \in S : j < i}
           T == {Below(i) : i \in S}
           R == StrictSubsetOrdering(Nat)
<1>1. \A i \in S : IsFiniteSet(Below(i))
  <2> TAKE i \in S
  <2>1. i \in Nat /\ \A j \in Below(i) : j \in Nat /\ j < i
    OBVIOUS
  <2>2. Below(i) \in SUBSET (0 .. i)
    <3> HIDE DEF Below
    <3> QED BY <2>1
  <2>3. IsFiniteSet(0 .. i)
    BY <2>1, FS_Interval
  <2> QED BY <2>2, <2>3, FS_Subset
<1>2. T \subseteq FiniteSubsetsOf(Nat) /\ T # {}
  BY <1>1 DEF FiniteSubsetsOf
<1>3. IsWellFoundedOn(R, FiniteSubsetsOf(Nat))
  BY FS_StrictSubsetOrderingWellFounded
<1>4. \E x \in T : \A y \in T : ~ (<<y, x>> \in R)
  <2> HIDE DEF T, R
  <2> QED BY <1>2, <1>3, WFMin
<1>5. PICK i \in S : \A y \in T : ~ (<<y, Below(i)>> \in R)
  BY <1>4
<1>6. ASSUME NEW j \in S, j < i PROVE FALSE
  <2>1. i \in Nat /\ j \in Nat /\ j \in Below(i) /\ j \notin Below(j)
    BY <1>6
  <2>2. \A k \in Nat : k < j => k < i
    BY <2>1, <1>6
  <2>3. Below(j) \subseteq Below(i) /\ Below(j) # Below(i)
    BY <2>1, <2>2
  <2>4. <<Below(j), Below(i)>> \in R
    BY <2>3 DEF StrictSubsetOrdering
  <2> QED BY <2>4, <1>5
<1> QED BY <1>6

(* A set of numbers with a bound has a greatest one.                       *)
LEMMA GreatestNat ==
  ASSUME NEW S \in SUBSET Nat, S # {}, NEW b \in Nat, \A j \in S : j <= b
  PROVE  \E i \in S : \A j \in S : j <= i
<1> DEFINE U == {u \in Nat : \A j \in S : j <= u}
<1>1. PICK u \in U : \A v \in U : u <= v
  <2>1. U \in SUBSET Nat /\ b \in U
    OBVIOUS
  <2> HIDE DEF U
  <2> QED BY <2>1, LeastNat
<1>2. u \in S
  <2>1. ASSUME u \notin S PROVE FALSE
    <3>1. u \in Nat /\ \A j \in S : j \in Nat /\ j < u
      BY <1>1, <2>1
    <3>2. u # 0 /\ u - 1 \in Nat
      <4>1. PICK j \in S : TRUE
        OBVIOUS
      <4> QED BY <3>1, <4>1
    <3>3. \A j \in S : j <= u - 1
      BY <3>1
    <3> QED BY <1>1, <3>1, <3>2, <3>3
  <2> QED BY <2>1
<1> QED BY <1>1, <1>2

(* What holds of 0 and is handed from each number to the next holds of all *)
(* up to n.                                                                *)
LEMMA UpTo ==
  ASSUME NEW n \in Nat, NEW P \in SUBSET Nat, 0 \in P,
         \A k \in P : k < n => k + 1 \in P
  PROVE  0 .. n \subseteq P
<1> DEFINE C == 0 .. n \ P
<1>1. ASSUME C # {} PROVE FALSE
  <2>1. C \in SUBSET Nat
    OBVIOUS
  <2>2. PICK k \in C : \A j \in C : k <= j
    <3> HIDE DEF C
    <3> QED BY <1>1, <2>1, LeastNat
  <2>3. k # 0 /\ k - 1 \in 0 .. n /\ k - 1 \notin C
    BY <2>2
  <2> QED BY <2>2, <2>3
<1> QED BY <1>1

(* A table of numbers has an upper bound.                                  *)
LEMMA TableBound ==
  ASSUME NEW n \in Nat, NEW f, \A i \in 1 .. n : f[i] \in Nat
  PROVE  \E b \in Nat : \A i \in 1 .. n : f[i] <= b
<1> DEFINE P == {k \in 0 .. n : \E b \in Nat : \A i \in 1 .. k : f[i] <= b}
<1>1. P \in SUBSET Nat /\ 0 \in P
  OBVIOUS
<1>2. ASSUME NEW k \in P, k < n PROVE k + 1 \in P
  <2>1. PICK b \in Nat : \A i \in 1 .. k : f[i] <= b
    BY <1>2
  <2>2. k \in Nat /\ k + 1 \in 0 .. n /\ f[k + 1] \in Nat
    BY <1>2
  <2>3. b + f[k + 1] \in Nat /\ \A i \in 1 .. k + 1 : f[i] <= b + f[k + 1]
    BY <2>1, <2>2
  <2> QED BY <2>2, <2>3
<1>3. n \in P
  <2> HIDE DEF P
  <2> QED BY <1>1, <1>2, UpTo
<1> QED BY <1>3

(* A step that stays in X can be repeated n times: a recursive function    *)
(* whose steps are the F[k] exists.                                        *)
StepsIn(F, n, X) == F \in [1 .. n -> [X -> X]]
Iterates(f, F, n, X, x0) ==
  f \in [0 .. n -> X] /\ f[0] = x0 /\ \A k \in 1 .. n : f[k] = F[k][f[k - 1]]

LEMMA Iterated ==
  ASSUME NEW n \in Nat, NEW X, NEW x0 \in X, NEW F, StepsIn(F, n, X)
  PROVE  \E f : Iterates(f, F, n, X, x0)
<1>4. F \in [1 .. n -> [X -> X]]
  BY DEF StepsIn
<1> DEFINE Part(f, m) == f[0] = x0 /\ \A k \in 1 .. m : f[k] = F[k][f[k - 1]]
           P == {m \in 0 .. n : \E f \in [0 .. m -> X] : Part(f, m)}
<1>1. P \in SUBSET Nat /\ 0 \in P
  <2> DEFINE f0 == [k \in 0 .. 0 |-> x0]
  <2>1. f0 \in [0 .. 0 -> X] /\ Part(f0, 0)
    OBVIOUS
  <2>2. \E f \in [0 .. 0 -> X] : Part(f, 0)
    <3> HIDE DEF f0
    <3> QED BY <2>1
  <2> QED BY <2>2
<1>2. ASSUME NEW m \in P, m < n PROVE m + 1 \in P
  <2>1. PICK f \in [0 .. m -> X] : Part(f, m)
    OBVIOUS
  <2> DEFINE g == [k \in 0 .. m + 1 |-> IF k = m + 1 THEN F[m + 1][f[m]] ELSE f[k]]
  <2>2. m \in Nat /\ m + 1 \in 0 .. n /\ m + 1 \in 1 .. n /\ f[m] \in X
    BY <1>2
  <2>3. F[m + 1][f[m]] \in X
    <3>1. F[m + 1] \in [X -> X]
      BY <1>4, <2>2
    <3> QED BY <2>2, <3>1
  <2>4. g \in [0 .. m + 1 -> X]
    BY <2>2, <2>3
  <2>5. Part(g, m + 1)
    BY <2>1, <2>2
  <2> QED BY <2>2, <2>4, <2>5
<1>3. n \in P
  <2> HIDE DEF P
  <2>1. 0 .. n \subseteq P
    BY <1>1, <1>2, UpTo
  <2>2. n \in 0 .. n
    OBVIOUS
  <2> QED BY <2>1, <2>2
<1> QED BY <1>3 DEF Iterates

(* What every step keeps holds of every value of a recursive function.     *)
LEMMA StaysIn ==
  ASSUME NEW n \in Nat, NEW X, NEW f, f[0] \in X,
         \A k \in 1 .. n : f[k - 1] \in X => f[k] \in X
  PROVE  \A k \in 0 .. n : f[k] \in X
<1> DEFINE P == {k \in 0 .. n : f[k] \in X}
<1>1. P \in SUBSET Nat /\ 0 \in P
  OBVIOUS
<1>2. ASSUME NEW k \in P, k < n PROVE k + 1 \in P
  <2>1. k + 1 \in 1 .. n /\ (k + 1) - 1 = k /\ f[k] \in X
    BY <1>2
  <2>2. f[k + 1] \in X
    BY <2>1
  <2> QED BY <2>1, <2>2
<1>3. 0 .. n \subseteq P
  <2> HIDE DEF P
  <2> QED BY <1>1, <1>2, UpTo
<1> QED BY <1>3
=============================================================================
