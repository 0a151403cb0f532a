------------------------------ MODULE Folding ------------------------------
(***************************************************************************)
(* Induction over the naturals and over the folds of a sequence, for the   *)
(* theorems about what a loop computes.  A property is a set here, so that *)
(* a lemma can be cited for any of them.                                   *)
(***************************************************************************)
EXTENDS Integers, SequencesExt, FiniteSetTheorems, WellFoundedInduction, TLAPS

\* Any set of naturals has a least element.
LEMMA Least ==
    ASSUME NEW T \in SUBSET Nat, T # {}
    PROVE  \E m \in T : \A n \in T : m <= n
<1> DEFINE I == {1..n : n \in T}
<1>1. I \subseteq FiniteSubsetsOf(Nat) /\ I # {}
  <2>1. \A n \in T : 1..n \in SUBSET Nat /\ IsFiniteSet(1..n)
    BY FS_Interval
  <2> QED
    BY <2>1 DEF FiniteSubsetsOf
<1>2. PICK x \in I : \A y \in I : <<y, x>> \notin StrictSubsetOrdering(Nat)
  <2> HIDE DEF I
  <2> QED
    BY <1>1, FS_StrictSubsetOrderingWellFounded, WFMin
<1>3. PICK m \in T : x = 1..m
  BY <1>2
<1>4. ASSUME NEW n \in T, n < m PROVE FALSE
  <2>1. 1..n \subseteq 1..m /\ m \in 1..m /\ m \notin 1..n
    BY <1>4
  <2> DEFINE p == <<1..n, 1..m>>
  <2>2. p \in (SUBSET Nat) \X (SUBSET Nat) /\ p[1] \subseteq p[2] /\ p[1] # p[2]
    BY <2>1
  <2>3. p \notin StrictSubsetOrdering(Nat)
    BY <1>2, <1>3
  <2> HIDE DEF p
  <2> QED
    BY <2>2, <2>3 DEF StrictSubsetOrdering
<1> QED
  BY <1>4

LEMMA Induct ==
    ASSUME NEW T, 0 \in T, \A n \in Nat : n \in T => n + 1 \in T
    PROVE  Nat \subseteq T
<1> SUFFICES ASSUME Nat \ T # {} PROVE FALSE
  OBVIOUS
<1>1. PICK m \in Nat \ T : \A n \in Nat \ T : m <= n
  BY Least
<1>2. m # 0 /\ m - 1 \in Nat /\ m - 1 \in T
  BY <1>1
<1> QED
  BY <1>1, <1>2

\* The same up to a bound.
LEMMA InductTo ==
    ASSUME NEW N \in Nat, NEW T, 0 \in T, \A n \in 0..(N - 1) : n \in T => n + 1 \in T
    PROVE  0..N \subseteq T
<1> DEFINE U == {n \in Nat : n <= N => n \in T}
<1>1. Nat \subseteq U
  <2>1. 0 \in U /\ \A n \in Nat : n \in U => n + 1 \in U
    OBVIOUS
  <2> HIDE DEF U
  <2> QED
    BY <2>1, Induct
<1> QED
  BY <1>1

LEMMA GreatestOf ==
    ASSUME NEW k \in Nat, NEW t \in SUBSET (1..k), k \in t PROVE Max(t) = k
<1>1. \A y \in t : k >= y
  OBVIOUS
<1>2. \A x \in t : (\A y \in t : x >= y) => x = k
  OBVIOUS
<1>3. Max(t) = CHOOSE x \in t : \A y \in t : x >= y
  BY DEF Max
<1> DEFINE m == CHOOSE x \in t : \A y \in t : x >= y
<1>4. m \in t /\ \A y \in t : m >= y
  BY <1>1
<1> QED
  BY <1>2, <1>3, <1>4

LEMMA GreatestIn ==
    ASSUME NEW n \in Nat, NEW t \in SUBSET (1..n), t # {}
    PROVE  Max(t) \in 1..n /\ Max(t) \in t /\ t \ {Max(t)} \in SUBSET (1..n)
<1> DEFINE T == {n - x : x \in t}
<1>1. T \in SUBSET Nat /\ T # {}
  <2>1. \A x \in t : x \in Int /\ n - x \in Nat
    OBVIOUS
  <2> QED
    BY <2>1
<1>2. PICK m \in T : \A y \in T : m <= y
  BY <1>1, Least
<1>3. PICK x \in t : m = n - x
  BY <1>2
<1>4. ASSUME NEW y \in t PROVE x >= y
  <2>1. n - y \in T
    OBVIOUS
  <2>2. n - x <= n - y
    BY <1>2, <1>3, <2>1
  <2> HIDE DEF T
  <2> QED
    BY <2>2
<1>5. Max(t) = CHOOSE z \in t : \A y \in t : z >= y
  BY DEF Max
<1>6. Max(t) \in t
  BY <1>4, <1>5
<1> QED
  BY <1>6

LEMMA WholeLast ==
    ASSUME NEW k \in Nat \ {0}
    PROVE  1..k # {} /\ Max(1..k) = k /\ (1..k) \ {Max(1..k)} = 1..(k - 1)
<1>1. Max(1..k) = k
  BY GreatestOf
<1> QED
  BY <1>1

\* g is the function by which a fold is defined, from the last of a set of places down.
IsFold(g, n, b, F) ==
    \A t \in SUBSET (1..n) : g[t] = IF t = {} THEN b ELSE F[Max(t)][g[t \ {Max(t)}]]

LEMMA FoldExists ==
    ASSUME NEW n \in Nat, NEW X, NEW b \in X, NEW F \in [1..n -> [X -> X]]
    PROVE  \E g \in [SUBSET (1..n) -> X] : IsFold(g, n, b, F)
<1> DEFINE Defined(k) == \E g \in [SUBSET (1..k) -> X] :
              \A t \in SUBSET (1..k) :
                 g[t] = IF t = {} THEN b ELSE F[Max(t)][g[t \ {Max(t)}]]
           T == {k \in 0..n : Defined(k)}
<1>1. Defined(0)
  <2> DEFINE g == [t \in SUBSET (1..0) |-> b]
  <2>1. 1..0 = {}
    OBVIOUS
  <2>2. g \in [SUBSET (1..0) -> X] /\ \A t \in SUBSET (1..0) : t = {} /\ g[t] = b
    BY <2>1
  <2> HIDE DEF g
  <2> QED
    BY <2>2
<1>2. ASSUME NEW k \in 0..(n - 1), Defined(k) PROVE Defined(k + 1)
  <2>1. PICK g \in [SUBSET (1..k) -> X] :
           \A t \in SUBSET (1..k) : g[t] = IF t = {} THEN b ELSE F[Max(t)][g[t \ {Max(t)}]]
    BY <1>2
  <2> DEFINE h == [t \in SUBSET (1..(k + 1)) |->
                     IF k + 1 \in t THEN F[k + 1][g[t \ {k + 1}]] ELSE g[t]]
  <2>2. ASSUME NEW t \in SUBSET (1..(k + 1))
        PROVE  /\ k + 1 \in t => t \ {k + 1} \in SUBSET (1..k)
               /\ k + 1 \notin t => t \in SUBSET (1..k)
    OBVIOUS
  <2>3. \A x \in X : F[k + 1][x] \in X
    OBVIOUS
  <2>4. h \in [SUBSET (1..(k + 1)) -> X]
    BY <2>2, <2>3
  <2>5. ASSUME NEW t \in SUBSET (1..(k + 1))
        PROVE  h[t] = IF t = {} THEN b ELSE F[Max(t)][h[t \ {Max(t)}]]
    <3>1. CASE k + 1 \in t
      <4>1. Max(t) = k + 1
        BY <3>1, GreatestOf
      <4>2. h[t \ {k + 1}] = g[t \ {k + 1}]
        BY <2>2, <3>1
      <4>3. h[t] = F[k + 1][g[t \ {k + 1}]]
        BY <3>1
      <4> QED
        BY <3>1, <4>1, <4>2, <4>3
    <3>2. CASE k + 1 \notin t
      <4>1. t \in SUBSET (1..k) /\ k + 1 \notin t \ {Max(t)}
            /\ t \ {Max(t)} \in SUBSET (1..k) /\ t \ {Max(t)} \in SUBSET (1..(k + 1))
        BY <2>2, <3>2
      <4>2. h[t] = g[t] /\ h[t \ {Max(t)}] = g[t \ {Max(t)}]
        BY <3>2, <4>1
      <4> QED
        BY <2>1, <4>1, <4>2
    <3> QED
      BY <3>1, <3>2
  <2> HIDE DEF h
  <2> QED
    BY <2>4, <2>5
<1>3. 0..n \subseteq T
  <2>1. 0 \in T /\ \A k \in 0..(n - 1) : k \in T => k + 1 \in T
    <3> HIDE DEF Defined
    <3> QED
      BY <1>1, <1>2
  <2> HIDE DEF T
  <2> QED
    BY <2>1, InductTo
<1>4. Defined(n)
  <2>1. n \in 0..n
    OBVIOUS
  <2> HIDE DEF Defined
  <2> QED
    BY <1>3, <2>1
<1> QED
  BY <1>4 DEF IsFold

\* What a function says of a whole, it says of one element after another.
IsTrace(a, n, b, F) == a[0] = b /\ \A k \in 1..n : a[k] = F[k][a[k - 1]]

Follows(h, n, X, F) ==
    \A k \in 1..n : h[1..(k - 1)] \in X => h[1..k] = F[k][h[1..(k - 1)]]

LEMMA FoldTrace ==
    ASSUME NEW n \in Nat, NEW X, NEW b \in X, NEW F \in [1..n -> [X -> X]], NEW h,
           h[{}] = b, Follows(h, n, X, F)
    PROVE  \E a \in [0..n -> X] : IsTrace(a, n, b, F) /\ a[n] = h[1..n]
<1> USE DEF Follows, IsTrace
<1> DEFINE T == {k \in 0..n : h[1..k] \in X}
<1>1. 0 \in T
  <2>1. 1..0 = {}
    OBVIOUS
  <2> QED
    BY <2>1
<1>2. ASSUME NEW k \in 0..(n - 1), k \in T PROVE k + 1 \in T
  <2>1. k + 1 \in 1..n /\ (k + 1) - 1 = k
    OBVIOUS
  <2>2. h[1..(k + 1)] = F[k + 1][h[1..k]]
    BY <1>2, <2>1
  <2> QED
    BY <1>2, <2>1, <2>2
<1>3. 0..n \subseteq T
  <2> HIDE DEF T
  <2> QED
    BY <1>1, <1>2, InductTo
<1> DEFINE a == [k \in 0..n |-> h[1..k]]
<1>4. a \in [0..n -> X]
  BY <1>3
<1>5. a[0] = b /\ a[n] = h[1..n]
  <2>1. 1..0 = {}
    OBVIOUS
  <2> QED
    BY <2>1
<1>6. ASSUME NEW k \in 1..n PROVE a[k] = F[k][a[k - 1]]
  <2>1. k - 1 \in 0..n /\ k \in 0..n
    OBVIOUS
  <2>2. h[1..(k - 1)] \in X
    BY <1>3, <2>1
  <2>3. a[k] = h[1..k] /\ a[k - 1] = h[1..(k - 1)]
    BY <2>1
  <2> QED
    BY <2>2, <2>3
<1> HIDE DEF a
<1> QED
  BY <1>4, <1>5, <1>6

\* What FlattenSeq puts together, sequence after sequence.
IsFlat(f, s) ==
    f[0] = <<>> /\ f[Len(s)] = FlattenSeq(s) /\ \A i \in 1..Len(s) : f[i] = f[i - 1] \o s[i]

LEMMA Flattening ==
    ASSUME NEW X, NEW s \in Seq(Seq(X))
    PROVE  \E f \in [0..Len(s) -> Seq(X)] : IsFlat(f, s)
<1> DEFINE n == Len(s)
           b == <<>>
           Y == Seq(X)
           F == [k \in 1..n |-> [x \in Y |-> x \o s[k]]]
           Flat(g) == g = [i \in 1..Len(s) |-> IF i = 1 THEN s[i] ELSE g[i - 1] \o s[i]]
           h == CHOOSE g : Flat(g)
<1>0. n \in Nat
  OBVIOUS
<1>1. n = Len(s) /\ b = <<>> /\ Y = Seq(X) /\ (n = 0 => s = <<>>) /\ \A k \in 1..n : s[k] \in Y
  OBVIOUS
<1>b. b \in Y
  OBVIOUS
<1>2. \A x \in Y : b \o x = x
  OBVIOUS
<1>3. \A x, y \in Y : x \o y \in Y
  OBVIOUS
<1> HIDE DEF n, b, Y
<1>4. F \in [1..n -> [Y -> Y]] /\ \A x \in Y, k \in 1..n : F[k][x] = x \o s[k]
  BY <1>1, <1>3
<1> HIDE DEF F
<1>5. PICK g \in [SUBSET (1..n) -> Y] : IsFold(g, n, b, F)
  BY <1>0, <1>b, <1>4, FoldExists, Zenon
<1>6. g[{}] = b
  BY <1>5 DEF IsFold
<1>7. ASSUME NEW k \in 1..n
      PROVE  /\ g[1..k] = g[1..(k - 1)] \o s[k] /\ g[1..(k - 1)] \in Y /\ g[1..k] \in Y
             /\ k = 1 => g[1..k] = s[k]
  <2>1. 1..k # {} /\ Max(1..k) = k /\ (1..k) \ {Max(1..k)} = 1..(k - 1)
    BY <1>0, WholeLast
  <2>2. 1..k \in SUBSET (1..n) /\ 1..(k - 1) \in SUBSET (1..n)
    BY <1>0
  <2>3. g[1..k] = F[k][g[1..(k - 1)]]
    BY <1>5, <2>1, <2>2 DEF IsFold
  <2>4. g[1..k] = g[1..(k - 1)] \o s[k]
    BY <1>4, <2>2, <2>3
  <2>5. k = 1 => 1..(k - 1) = {}
    BY <1>0
  <2> QED
    BY <1>1, <1>2, <1>6, <2>2, <2>4, <2>5
<1> DEFINE f == [k \in 0..n |-> g[1..k]]
<1>8. f \in [0..n -> Y]
  BY <1>0
<1>9. f[0] = b /\ \A k \in 1..n : f[k] = f[k - 1] \o s[k]
  <2>1. 1..0 = {} /\ 0 \in 0..n /\ \A k \in 1..n : k \in 0..n /\ k - 1 \in 0..n
    BY <1>0
  <2> QED
    BY <1>6, <1>7, <2>1
<1>10. f[n] = FlattenSeq(s)
  <2>1. CASE n = 0
    BY <1>1, <1>9, <2>1 DEF FlattenSeq
  <2>2. CASE n # 0
    <3> DEFINE e == [i \in 1..n |-> g[1..i]]
    <3>1. ASSUME NEW i \in 1..n PROVE e[i] = IF i = 1 THEN s[i] ELSE e[i - 1] \o s[i]
      <4>1. i # 1 => i - 1 \in 1..n
        BY <1>0
      <4> QED
        BY <1>7, <4>1
    <3>2. Flat(e)
      BY <1>1, <3>1
    <3>3. Flat(h)
      <4> HIDE DEF Flat, e
      <4> QED
        BY <3>2
    <3>4. FlattenSeq(s) = h[n]
      BY <1>1, <2>2, Zenon DEF FlattenSeq
    <3> HIDE DEF h
    <3> DEFINE T == {0} \union {i \in 1..n : h[i] = g[1..i]}
    <3>5. ASSUME NEW k \in 0..(n - 1), k \in T PROVE k + 1 \in T
      <4>1. k + 1 \in 1..n /\ (k + 1) - 1 = k
        BY <1>0
      <4>2. h[k + 1] = IF k + 1 = 1 THEN s[k + 1] ELSE h[k] \o s[k + 1]
        BY <1>1, <3>3, <4>1
      <4>3. CASE k = 0
        <5>1. k + 1 = 1
          BY <4>3
        <5>2. h[k + 1] = s[k + 1] /\ g[1..(k + 1)] = s[k + 1]
          BY <1>7, <4>1, <4>2, <5>1
        <5> QED
          BY <4>1, <5>2
      <4>4. CASE k # 0
        <5>1. h[k] = g[1..k] /\ k + 1 # 1
          BY <3>5, <4>4
        <5>2. g[1..(k + 1)] = g[1..k] \o s[k + 1]
          BY <1>7, <4>1
        <5>3. h[k + 1] = g[1..(k + 1)]
          BY <4>2, <5>1, <5>2
        <5> QED
          BY <4>1, <5>3
      <4> QED
        BY <4>3, <4>4
    <3>6. 0..n \subseteq T
      <4>1. 0 \in T
        OBVIOUS
      <4> HIDE DEF T
      <4> QED
        BY <1>0, <3>5, <4>1, InductTo
    <3>7. n \in 1..n /\ n \in 0..n
      BY <1>0, <2>2
    <3>8. h[n] = g[1..n]
      BY <2>2, <3>6, <3>7
    <3> QED
      BY <3>4, <3>7, <3>8
  <2> QED
    BY <2>1, <2>2
<1> HIDE DEF f
<1> QED
  BY <1>1, <1>8, <1>9, <1>10 DEF IsFlat

=============================================================================
