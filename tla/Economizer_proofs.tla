------------------------- MODULE Economizer_proofs -------------------------
(***************************************************************************)
(* Theorems about Economizer, for any texts, calls, batches and            *)
(* capacities, and whatever fails, expires or is written by others.        *)
(***************************************************************************)
EXTENDS Economizer, Folding

(***************************************************************************)
(* An LRU, and the keys touched                                            *)
(***************************************************************************)

\* t is s with the element at p moved to the end, as x.
Moved(s, p, x, t) ==
    /\ Len(t) = Len(s)
    /\ \A j \in 1..Len(s) : t[j] = IF j < p THEN s[j] ELSE IF j < Len(s) THEN s[j + 1] ELSE x

NoTwice(s) == \A i, j \in 1..Len(s) : s[i] = s[j] => i = j

LEMMA LeastOf ==
    ASSUME NEW n \in Nat, NEW t \in SUBSET (1..n), t # {} PROVE Min(t) \in t
<1>1. t \in SUBSET Nat
  OBVIOUS
<1>2. PICK m \in t : \A y \in t : m <= y
  BY <1>1, Least
<1> QED
  BY <1>2 DEF Min

LEMMA Taken ==
    ASSUME NEW S, NEW s \in Seq(S), NEW p \in 1..Len(s), NEW x \in S
    PROVE  /\ Append(RemoveAt(s, p), x) \in Seq(S)
           /\ Moved(s, p, x, Append(RemoveAt(s, p), x))
<1> DEFINE a == SubSeq(s, 1, p - 1)
           b == SubSeq(s, p + 1, Len(s))
           n == Len(s)
           t == Append(a \o b, x)
<1>1. n \in Nat /\ p \in 1..n /\ n = Len(s) /\ \A i \in 1..n : s[i] \in S
  OBVIOUS
<1>2. /\ a \in Seq(S) /\ Len(a) = p - 1 /\ \A i \in 1..(p - 1) : a[i] = s[i]
      /\ b \in Seq(S) /\ Len(b) = n - p /\ \A i \in 1..(n - p) : b[i] = s[p + i]
  OBVIOUS
<1> HIDE DEF a, b, n
<1>3. t \in Seq(S) /\ Len(t) = n
  BY <1>1, <1>2
<1>4. ASSUME NEW j \in 1..n PROVE t[j] = IF j < p THEN s[j] ELSE IF j < n THEN s[j + 1] ELSE x
  <2>1. CASE j < p
    BY <1>1, <1>2, <2>1
  <2>2. CASE j >= p /\ j < n
    <3>1. t[j] = b[j - (p - 1)] /\ j - (p - 1) \in 1..(n - p) /\ p + (j - (p - 1)) = j + 1
      BY <1>1, <1>2, <2>2
    <3> QED
      BY <1>2, <2>2, <3>1
  <2>3. CASE j = n
    BY <1>1, <1>2, <2>3
  <2> HIDE DEF t
  <2> QED
    BY <1>1, <2>1, <2>2, <2>3
<1>5. Append(RemoveAt(s, p), x) = t
  BY DEF RemoveAt, a, b
<1> QED
  BY <1>1, <1>3, <1>4, <1>5 DEF Moved

LEMMA TouchMoves ==
    ASSUME NEW s \in Seq(Keys), NEW k \in Keys
    PROVE  /\ Touch(s, k) \in Seq(Keys)
           /\ \/ (\A i \in 1..Len(s) : s[i] # k) /\ Touch(s, k) = Append(s, k)
              \/ \E p \in 1..Len(s) : s[p] = k /\ Moved(s, p, k, Touch(s, k))
<1>1. CASE \A i \in 1..Len(s) : s[i] # k
  <2>1. RemoveFirst(s, k) = s
    BY <1>1 DEF RemoveFirst
  <2> QED
    BY <1>1, <2>1 DEF Touch
<1>2. CASE \E i \in 1..Len(s) : s[i] = k
  <2> DEFINE I == {i \in 1..Len(s) : s[i] = k}
             p == Min(I)
  <2>1. I # {} /\ I \in SUBSET (1..Len(s)) /\ Len(s) \in Nat
    BY <1>2
  <2>2. RemoveFirst(s, k) = RemoveAt(s, p)
    BY <1>2, <2>1 DEF RemoveFirst, SelectInSeq
  <2>3. p \in I
    <3> HIDE DEF I
    <3> QED
      BY <2>1, LeastOf
  <2>4. p \in 1..Len(s) /\ s[p] = k
    BY <2>3
  <2> HIDE DEF p, I
  <2> QED
    BY <2>2, <2>4, Taken DEF Touch
<1> QED
  BY <1>1, <1>2

LEMMA DeleteMoves ==
    ASSUME NEW E \in SUBSET Entry, NEW s \in Seq(E), NEW k, NEW e \in E
    PROVE  /\ Append(Delete(s, k), e) \in Seq(E)
           /\ \/ ~Holds(s, k) /\ Append(Delete(s, k), e) = Append(s, e)
              \/ \E p \in 1..Len(s) : s[p].key = k /\ Moved(s, p, e, Append(Delete(s, k), e))
<1>0. DOMAIN s = 1..Len(s)
  OBVIOUS
<1>1. CASE \A i \in 1..Len(s) : s[i].key # k
  <2>1. Delete(s, k) = s
    BY <1>1 DEF Delete, RemoveFirstMatch
  <2> QED
    BY <1>0, <1>1, <2>1 DEF Holds
<1>2. CASE \E i \in 1..Len(s) : s[i].key = k
  <2> DEFINE I == {i \in 1..Len(s) : s[i].key = k}
             p == Min(I)
  <2>1. I # {} /\ I \in SUBSET (1..Len(s)) /\ Len(s) \in Nat
    BY <1>2
  <2>2. Delete(s, k) = RemoveAt(s, p)
    BY <1>2, <2>1 DEF Delete, RemoveFirstMatch, SelectInSeq
  <2>3. p \in I
    <3> HIDE DEF I
    <3> QED
      BY <2>1, LeastOf
  <2>4. p \in 1..Len(s) /\ s[p].key = k
    BY <2>3
  <2> HIDE DEF p, I
  <2> QED
    BY <2>2, <2>4, Taken
<1> QED
  BY <1>1, <1>2

\* The LRUs of a kind with entries of E that hold the keys touched last.
Exact(size, x) ==
    LET past == Len(x.used) - Len(x.map)
    IN  /\ past \in Nat /\ Len(x.map) <= size /\ (Len(x.map) = size \/ past = 0)
        /\ NoTwice(x.used)
        /\ \A i \in 1..Len(x.map) : x.map[i].key = x.used[past + i]

Caches(kind, E) == {x \in [map : Seq(E), used : Seq(Keys)] : Exact(Capacity[kind], x)}

LEMMA Known ==
    ASSUME NEW E \in SUBSET Entry, NEW s \in Seq(E), NEW k
    PROVE  /\ Holds(s, k) <=> \E i \in 1..Len(s) : s[i].key = k
           /\ Holds(s, k) => \E e \in E : e.key = k /\ e.val = Held(s, k) /\ e = [key |-> k, val |-> Held(s, k)]
<1>1. DOMAIN s = 1..Len(s) /\ \A i \in 1..Len(s) : s[i] \in E /\ s[i] = [key |-> s[i].key, val |-> s[i].val]
  BY DEF Entry
<1>2. ASSUME Holds(s, k)
      PROVE  \E e \in E : e.key = k /\ e.val = Held(s, k) /\ e = [key |-> k, val |-> Held(s, k)]
  <2> DEFINE q == CHOOSE n \in DOMAIN s : s[n].key = k
  <2>1. q \in DOMAIN s /\ s[q].key = k
    BY <1>2 DEF Holds
  <2>2. Held(s, k) = s[q].val
    BY DEF Held
  <2> HIDE DEF q
  <2> QED
    BY <1>1, <2>1, <2>2
<1> QED
  BY <1>1, <1>2 DEF Holds

\* A key that is held goes to the end of both lists.
LEMMA HeldMoves ==
    ASSUME NEW size, NEW x, NEW y, x.map \in Seq(Entry), x.used \in Seq(Keys), Exact(size, x),
           NEW k, NEW e, e.key = k,
           NEW p \in 1..Len(x.map), x.map[p].key = k, Moved(x.map, p, e, y.map),
           NEW q \in 1..Len(x.used), x.used[q] = k, Moved(x.used, q, k, y.used)
    PROVE  Exact(size, y)
<1> DEFINE n == Len(x.map)
           m == Len(x.used)
           past == m - n
<1>1. /\ n \in Nat /\ m \in Nat /\ past \in Nat /\ n <= size /\ (n = size \/ past = 0)
      /\ \A i, j \in 1..m : x.used[i] = x.used[j] => i = j
      /\ \A i \in 1..n : x.map[i].key = x.used[past + i]
  BY DEF Exact, NoTwice
<1>2. /\ Len(y.map) = n /\ Len(y.used) = m
      /\ \A j \in 1..n : y.map[j] = IF j < p THEN x.map[j] ELSE IF j < n THEN x.map[j + 1] ELSE e
      /\ \A j \in 1..m : y.used[j] = IF j < q THEN x.used[j] ELSE IF j < m THEN x.used[j + 1] ELSE k
  BY DEF Moved
<1>3. p \in 1..n /\ q \in 1..m /\ past = m - n
  OBVIOUS
<1>0. n \in Nat /\ m \in Nat /\ past \in Nat
  BY <1>1
<1>4. q = past + p
  <2>0. past + p \in 1..m
    <3> HIDE DEF n, m, past
    <3> QED
      BY <1>0, <1>3
  <2>1. x.used[past + p] = k
    <3>1. x.map[p].key = x.used[past + p]
      BY <1>1, <1>3
    <3> QED
      BY <3>1
  <2> HIDE DEF n, m, past
  <2> QED
    BY <1>1, <1>3, <2>0, <2>1
<1> HIDE DEF n, m, past
<1>5. \A i \in 1..n : y.map[i].key = y.used[past + i]
  <2> SUFFICES ASSUME NEW i \in 1..n PROVE y.map[i].key = y.used[past + i]
    OBVIOUS
  <2>1. past + i \in 1..m
    BY <1>1, <1>3
  <2>2. CASE i < p
    <3>1. y.map[i] = x.map[i] /\ past + i < q
      BY <1>1, <1>2, <1>3, <1>4, <2>2
    <3>2. y.used[past + i] = x.used[past + i]
      BY <1>2, <2>1, <3>1
    <3> QED
      BY <1>1, <3>1, <3>2
  <2>3. CASE i >= p /\ i < n
    <3>1. y.map[i] = x.map[i + 1] /\ i + 1 \in 1..n /\ past + i < m /\ ~(past + i < q)
      BY <1>1, <1>2, <1>3, <1>4, <2>3
    <3>2. y.used[past + i] = x.used[past + i + 1] /\ past + (i + 1) = past + i + 1
      BY <1>1, <1>2, <2>1, <3>1
    <3> QED
      BY <1>1, <3>1, <3>2
  <2>4. CASE i = n
    BY <1>1, <1>2, <1>3, <1>4, <2>1, <2>4
  <2> QED
    BY <1>1, <1>3, <2>2, <2>3, <2>4
<1>6. \A i, j \in 1..m : y.used[i] = y.used[j] => i = j
  <2> DEFINE from(i) == IF i < q THEN i ELSE IF i < m THEN i + 1 ELSE q
  <2>1. \A i \in 1..m : from(i) \in 1..m /\ y.used[i] = x.used[from(i)]
    BY <1>1, <1>2, <1>3
  <2>2. \A i, j \in 1..m : from(i) = from(j) => i = j
    BY <1>1, <1>3
  <2> HIDE DEF from
  <2> QED
    BY <1>1, <2>1, <2>2
<1> QED
  BY <1>1, <1>2, <1>3, <1>5, <1>6 DEF Exact, NoTwice

LEMMA Joined ==
    ASSUME NEW size, NEW y, NEW past \in Nat, Len(y.used) - Len(y.map) = past,
           Len(y.map) <= size, Len(y.map) = size \/ past = 0, NoTwice(y.used),
           \A i \in 1..Len(y.map) : y.map[i].key = y.used[past + i]
    PROVE  Exact(size, y)
BY DEF Exact

\* A key that is not held is put behind, and the oldest goes if there are too many.
LEMMA NewMoves ==
    ASSUME NEW size \in Nat \ {0}, NEW x, x.map \in Seq(Entry), x.used \in Seq(Keys), Exact(size, x),
           NEW k \in Keys, NEW e \in Entry, e.key = k, \A i \in 1..Len(x.map) : x.map[i].key # k,
           NEW y,
           y.map = IF Len(x.map) + 1 > size THEN Tail(Append(x.map, e)) ELSE Append(x.map, e),
           \/ (\A i \in 1..Len(x.used) : x.used[i] # k) /\ y.used = Append(x.used, k)
           \/ \E q \in 1..Len(x.used) : x.used[q] = k /\ Moved(x.used, q, k, y.used)
    PROVE  Exact(size, y)
<1> DEFINE n == Len(x.map)
           m == Len(x.used)
           past == m - n
<1>0. n \in Nat /\ m \in Nat /\ past \in Nat /\ size \in Nat
  BY DEF Exact
<1>1. /\ n <= size /\ (n = size \/ past = 0)
      /\ \A i, j \in 1..m : x.used[i] = x.used[j] => i = j
      /\ \A i \in 1..n : x.map[i].key = x.used[past + i]
  BY DEF Exact, NoTwice
<1>2. past = m - n
  OBVIOUS
<1>3. /\ n < size => Len(y.map) = n + 1 /\ \A i \in 1..(n + 1) : y.map[i] = IF i <= n THEN x.map[i] ELSE e
      /\ n = size => Len(y.map) = n /\ \A i \in 1..n : y.map[i] = IF i < n THEN x.map[i + 1] ELSE e
  BY <1>0, <1>1
<1>4. CASE (\A i \in 1..m : x.used[i] # k) /\ y.used = Append(x.used, k)
  <2>1. Len(y.used) = m + 1 /\ \A i \in 1..(m + 1) : y.used[i] = IF i <= m THEN x.used[i] ELSE k
    BY <1>4
  <2>9. \A i \in 1..m : x.used[i] # k
    BY <1>4
  <2> HIDE DEF n, m, past
  <2>2. NoTwice(y.used)
    <3> SUFFICES ASSUME NEW i \in 1..(m + 1), NEW j \in 1..(m + 1), y.used[i] = y.used[j] PROVE i = j
      BY <2>1 DEF NoTwice
    <3>1. y.used[i] = IF i <= m THEN x.used[i] ELSE k
      BY <2>1
    <3>2. y.used[j] = IF j <= m THEN x.used[j] ELSE k
      BY <2>1
    <3>3. (i <= m => i \in 1..m) /\ (j <= m => j \in 1..m) /\ (~(i <= m) => i = m + 1) /\ (~(j <= m) => j = m + 1)
      BY <1>0
    <3> QED
      BY <1>1, <2>9, <3>1, <3>2, <3>3
  <2>3. CASE n < size
    <3>1. past = 0 /\ m = n
      BY <1>0, <1>1, <1>2, <2>3
    <3>0. \A i \in 1..n : x.map[i].key = x.used[i]
      BY <1>0, <1>1, <3>1
    <3>2. Len(y.map) = n + 1 /\ Len(y.used) = n + 1
      BY <1>3, <2>1, <2>3, <3>1
    <3>3. ASSUME NEW i \in 1..(n + 1) PROVE y.map[i].key = y.used[0 + i]
      <4>1. y.map[i] = (IF i <= n THEN x.map[i] ELSE e) /\ y.used[i] = (IF i <= n THEN x.used[i] ELSE k) /\ 0 + i = i
        BY <1>0, <1>3, <2>1, <2>3, <3>1
      <4>2. i <= n => i \in 1..n
        BY <1>0
      <4> QED
        BY <3>0, <4>1, <4>2
    <3>4. Len(y.used) - Len(y.map) = 0 /\ Len(y.map) <= size
      BY <1>0, <2>3, <3>2
    <3>5. \A i \in 1..Len(y.map) : y.map[i].key = y.used[0 + i]
      BY <3>2, <3>3
    <3> DEFINE none == 0
    <3>6. none \in Nat /\ none = 0
      OBVIOUS
    <3> HIDE DEF none
    <3> QED
      BY <2>2, <3>4, <3>5, <3>6, Joined
  <2>4. CASE n = size
    <3>0. Len(y.map) = n
      BY <1>3, <2>4
    <3>1. Len(y.used) - Len(y.map) = past + 1 /\ past + 1 \in Nat
      <4>1. Len(y.used) = m + 1
        BY <2>1
      <4>2. (m + 1) - n = past + 1 /\ past + 1 \in Nat
        BY <1>0, <1>2
      <4>3. Len(y.used) - Len(y.map) = (m + 1) - n
        BY <3>0, <4>1, Zenon
      <4> QED
        BY <4>2, <4>3, Zenon
    <3>2. ASSUME NEW i \in 1..n PROVE y.map[i].key = y.used[past + 1 + i]
      <4>1. past + 1 + i \in 1..(m + 1) /\ (i < n => past + 1 + i <= m /\ i + 1 \in 1..n /\ past + 1 + i = past + (i + 1))
        BY <1>0, <1>2
      <4>2. CASE i < n
        <5>1. y.map[i] = x.map[i + 1] /\ y.used[past + 1 + i] = x.used[past + (i + 1)]
          BY <1>3, <2>1, <2>4, <4>1, <4>2
        <5> QED
          BY <1>1, <4>1, <4>2, <5>1
      <4>3. CASE i = n
        <5>1. ~(past + 1 + i <= m)
          BY <1>0, <1>2, <4>3
        <5> QED
          BY <1>3, <2>1, <2>4, <4>1, <4>3, <5>1
      <4>4. i < n \/ i = n
        BY <1>0
      <4> QED
        BY <4>2, <4>3, <4>4
    <3>3. Len(y.map) <= size /\ Len(y.map) = size
      BY <1>0, <2>4, <3>0
    <3>4. \A i \in 1..Len(y.map) : y.map[i].key = y.used[past + 1 + i]
      BY <3>0, <3>2
    <3> QED
      BY <2>2, <3>1, <3>3, <3>4, Joined
  <2> QED
    BY <1>0, <1>1, <2>3, <2>4
<1>5. ASSUME NEW q \in 1..m, x.used[q] = k, Moved(x.used, q, k, y.used) PROVE Exact(size, y)
  <2>1. Len(y.used) = m /\ \A j \in 1..m : y.used[j] = IF j < q THEN x.used[j] ELSE IF j < m THEN x.used[j + 1] ELSE k
    BY <1>5 DEF Moved
  <2>0. \A i \in 1..n : x.map[i].key # k
    OBVIOUS
  <2> HIDE DEF n, m, past
  <2>2. q <= past
    <3> SUFFICES ASSUME ~(q <= past) PROVE FALSE
      OBVIOUS
    <3>1. q - past \in 1..n /\ past + (q - past) = q
      BY <1>0, <1>2
    <3> QED
      BY <1>1, <1>5, <2>0, <3>1
  <2>3. n = size /\ past # 0
    BY <1>0, <1>1, <2>2
  <2>4. NoTwice(y.used)
    <3> DEFINE from(i) == IF i < q THEN i ELSE IF i < m THEN i + 1 ELSE q
    <3>1. \A i \in 1..m : from(i) \in 1..m /\ y.used[i] = x.used[from(i)]
      <4> SUFFICES ASSUME NEW i \in 1..m PROVE from(i) \in 1..m /\ y.used[i] = x.used[from(i)]
        OBVIOUS
      <4>1. y.used[i] = IF i < q THEN x.used[i] ELSE IF i < m THEN x.used[i + 1] ELSE k
        BY <2>1
      <4>2. from(i) \in 1..m
        BY <1>0
      <4> QED
        BY <1>5, <4>1, <4>2
    <3>2. \A i, j \in 1..m : from(i) = from(j) => i = j
      BY <1>0
    <3> HIDE DEF from
    <3>3. ASSUME NEW i \in 1..m, NEW j \in 1..m, y.used[i] = y.used[j] PROVE i = j
      BY <1>1, <3>1, <3>2, <3>3
    <3>4. Len(y.used) = m
      BY <2>1
    <3> QED
      BY <3>3, <3>4 DEF NoTwice
  <2>5. ASSUME NEW i \in 1..n PROVE y.map[i].key = y.used[past + i]
    <3>1. past + i \in 1..m /\ ~(past + i < q) /\ (i < n <=> past + i < m) /\ (past + i) + 1 = past + (i + 1)
      BY <1>0, <1>2, <2>2
    <3>2. CASE i < n
      <4>1. y.map[i] = x.map[i + 1] /\ i + 1 \in 1..n /\ y.used[past + i] = x.used[past + (i + 1)]
        <5>1. i + 1 \in 1..n
          BY <1>0, <3>2
        <5>2. y.map[i] = x.map[i + 1]
          BY <1>3, <2>3, <3>2
        <5>3. y.used[past + i] = x.used[(past + i) + 1]
          BY <2>1, <3>1, <3>2
        <5> QED
          BY <3>1, <5>1, <5>2, <5>3
      <4> QED
        BY <1>1, <4>1
    <3>3. CASE ~(i < n)
      BY <1>0, <1>3, <2>1, <2>3, <3>1, <3>3
    <3> QED
      BY <3>2, <3>3
  <2>6. Len(y.map) = n /\ Len(y.used) - Len(y.map) = past /\ Len(y.map) <= size
    BY <1>0, <1>2, <1>3, <2>1, <2>3
  <2> QED
    BY <1>0, <2>3, <2>4, <2>5, <2>6, Joined
<1> QED
  BY <1>4, <1>5

LEMMA TouchedHeld ==
    ASSUME NEW size, NEW x, x.map \in Seq(Entry), x.used \in Seq(Keys), Exact(size, x),
           NEW p \in 1..Len(x.map)
    PROVE  \E q \in 1..Len(x.used) : x.used[q] = x.map[p].key
<1> DEFINE n == Len(x.map)
           m == Len(x.used)
           past == m - n
<1>1. n \in Nat /\ m \in Nat /\ past \in Nat /\ p \in 1..n
  BY DEF Exact
<1>2. past = m - n /\ \A i \in 1..n : x.map[i].key = x.used[past + i]
  BY DEF Exact
<1> HIDE DEF n, m, past
<1>3. past + p \in 1..m
  BY <1>1, <1>2
<1> QED
  BY <1>1, <1>2, <1>3 DEF m

LEMMA GetsStay ==
    ASSUME NEW kind \in Kinds, NEW E \in SUBSET Entry, NEW x \in Caches(kind, E), NEW k \in Keys
    PROVE  Gets(x, k) \in Caches(kind, E)
<1> DEFINE size == Capacity[kind]
           y == [map |-> LruGet(x.map, k), used |-> Touch(x.used, k)]
<1>1. x \in [map : Seq(E), used : Seq(Keys)] /\ Exact(size, x)
  BY DEF Caches
<1>2. x.map \in Seq(E) /\ x.used \in Seq(Keys) /\ x.map \in Seq(Entry)
  BY <1>1
<1>3. CASE ~Holds(x.map, k)
  BY <1>3 DEF Gets
<1>4. CASE Holds(x.map, k)
  <2>1. PICK e \in E : e.key = k /\ e = [key |-> k, val |-> Held(x.map, k)]
    BY <1>2, <1>4, Known
  <2>2. LruGet(x.map, k) = Append(Delete(x.map, k), e)
    BY <1>4, <2>1 DEF LruGet
  <2>3. /\ LruGet(x.map, k) \in Seq(E)
        /\ \E p \in 1..Len(x.map) : x.map[p].key = k /\ Moved(x.map, p, e, LruGet(x.map, k))
    <3>1. /\ Append(Delete(x.map, k), e) \in Seq(E)
          /\ \/ ~Holds(x.map, k) /\ Append(Delete(x.map, k), e) = Append(x.map, e)
             \/ \E p \in 1..Len(x.map) : x.map[p].key = k /\ Moved(x.map, p, e, Append(Delete(x.map, k), e))
      BY <1>2, DeleteMoves
    <3> QED
      BY <1>4, <2>2, <3>1, Zenon
  <2>4. PICK p \in 1..Len(x.map) : x.map[p].key = k /\ Moved(x.map, p, e, LruGet(x.map, k))
    BY <2>3
  <2>5. \E q \in 1..Len(x.used) : x.used[q] = k
    BY <1>1, <1>2, <2>4, TouchedHeld
  <2>6. Touch(x.used, k) \in Seq(Keys) /\ \E q \in 1..Len(x.used) : x.used[q] = k /\ Moved(x.used, q, k, Touch(x.used, k))
    BY <1>2, <2>5, TouchMoves
  <2>7. PICK q \in 1..Len(x.used) : x.used[q] = k /\ Moved(x.used, q, k, Touch(x.used, k))
    BY <2>6
  <2>8. y.map = LruGet(x.map, k) /\ y.used = Touch(x.used, k) /\ y \in [map : Seq(E), used : Seq(Keys)]
    BY <2>3, <2>6
  <2> HIDE DEF y, size
  <2>9. Exact(size, y)
    BY <1>1, <1>2, <2>1, <2>4, <2>7, <2>8, HeldMoves
  <2> QED
    BY <1>4, <2>8, <2>9 DEF Caches, Gets, y, size
<1> QED
  BY <1>3, <1>4

LEMMA SetsStay ==
    ASSUME NEW kind \in Kinds, NEW E \in SUBSET Entry, NEW x \in Caches(kind, E), NEW k \in Keys,
           NEW v, [key |-> k, val |-> v] \in E
    PROVE  Sets(kind, x, k, v) \in Caches(kind, E)
<1> DEFINE size == Capacity[kind]
           e == [key |-> k, val |-> v]
           grown == Append(Delete(x.map, k), e)
           y == Sets(kind, x, k, v)
<1>0. size \in Nat \ {0} /\ e \in E /\ e \in Entry /\ e.key = k
  BY CapacityAssumption
<1>1. x \in [map : Seq(E), used : Seq(Keys)] /\ Exact(size, x)
  BY DEF Caches
<1>2. x.map \in Seq(E) /\ x.used \in Seq(Keys) /\ x.map \in Seq(Entry) /\ Len(x.map) \in Nat
  BY <1>1
<1>3. /\ grown \in Seq(E)
      /\ \/ ~Holds(x.map, k) /\ grown = Append(x.map, e)
         \/ \E p \in 1..Len(x.map) : x.map[p].key = k /\ Moved(x.map, p, e, grown)
  <2> HIDE DEF e
  <2> QED
    BY <1>0, <1>2, DeleteMoves
<1>4. /\ Touch(x.used, k) \in Seq(Keys)
      /\ \/ (\A i \in 1..Len(x.used) : x.used[i] # k) /\ Touch(x.used, k) = Append(x.used, k)
         \/ \E q \in 1..Len(x.used) : x.used[q] = k /\ Moved(x.used, q, k, Touch(x.used, k))
  BY <1>2, TouchMoves
<1>5. /\ y = [map |-> y.map, used |-> y.used]
      /\ y.map = (IF Len(grown) > size THEN Tail(grown) ELSE grown) /\ y.used = Touch(x.used, k)
  BY DEF Sets, LruSet
<1> HIDE DEF y, size, e, grown
<1>6. Len(x.map) <= size
  BY <1>1 DEF Exact
<1>7. y.map \in Seq(E)
  BY <1>0, <1>3, <1>5
<1>8. ASSUME ~Holds(x.map, k), grown = Append(x.map, e) PROVE Exact(size, y)
  <2>1. Len(grown) = Len(x.map) + 1
    BY <1>0, <1>2, <1>8
  <2>2. \A i \in 1..Len(x.map) : x.map[i].key # k
    BY <1>2, <1>8, Known
  <2>3. y.map = IF Len(x.map) + 1 > size THEN Tail(Append(x.map, e)) ELSE Append(x.map, e)
    BY <1>5, <1>8, <2>1
  <2>4. \/ (\A i \in 1..Len(x.used) : x.used[i] # k) /\ y.used = Append(x.used, k)
        \/ \E q \in 1..Len(x.used) : x.used[q] = k /\ Moved(x.used, q, k, y.used)
    BY <1>4, <1>5, Zenon
  <2> QED
    BY <1>0, <1>1, <1>2, <2>2, <2>3, <2>4, NewMoves
<1>9. ASSUME NEW p \in 1..Len(x.map), x.map[p].key = k, Moved(x.map, p, e, grown)
      PROVE  Exact(size, y)
  <2>1. y.map = grown
    BY <1>0, <1>2, <1>5, <1>6, <1>9 DEF Moved
  <2>2. \E q \in 1..Len(x.used) : x.used[q] = k
    BY <1>1, <1>2, <1>9, TouchedHeld
  <2>3. PICK q \in 1..Len(x.used) : x.used[q] = k /\ Moved(x.used, q, k, Touch(x.used, k))
    BY <1>4, <2>2
  <2> QED
    BY <1>0, <1>1, <1>2, <1>5, <1>9, <2>1, <2>3, HeldMoves
<1>10. Exact(size, y)
  BY <1>3, <1>8, <1>9
<1> QED
  BY <1>4, <1>5, <1>7, <1>10 DEF Caches, y, size

LEMMA FoldStays ==
    ASSUME NEW n \in Nat, NEW X, NEW b \in X, NEW F \in [1..n -> [X -> X]], NEW h,
           h[{}] = b, Follows(h, n, X, F)
    PROVE  h[1..n] \in X
<1>1. PICK a \in [0..n -> X] : IsTrace(a, n, b, F) /\ a[n] = h[1..n]
  BY FoldTrace
<1>2. n \in 0..n
  OBVIOUS
<1> QED
  BY <1>1, <1>2

LEMMA GetsAllStay ==
    ASSUME NEW kind \in Kinds, NEW E \in SUBSET Entry, NEW x \in Caches(kind, E),
           NEW keys \in Seq(Keys)
    PROVE  GetsAll(x, keys) \in Caches(kind, E)
<1> DEFINE n == Len(keys)
           C == Caches(kind, E)
           F == [i \in 1..n |-> [y \in C |-> Gets(y, keys[i])]]
           Fold(h) == h = [t \in SUBSET DOMAIN keys |->
                             IF t = {} THEN x ELSE Gets(h[t \ {Max(t)}], keys[Max(t)])]
           h == CHOOSE g : Fold(g)
<1>1. n \in Nat /\ DOMAIN keys = 1..n /\ n = Len(keys) /\ \A i \in 1..n : keys[i] \in Keys
  OBVIOUS
<1>0. n \in Nat /\ x \in C
  OBVIOUS
<1> HIDE DEF n
<1>2. \A y \in C, i \in 1..n : Gets(y, keys[i]) \in C
  BY <1>1, GetsStay
<1>3. F \in [1..n -> [C -> C]] /\ \A y \in C, i \in 1..n : F[i][y] = Gets(y, keys[i])
  <2> HIDE DEF C
  <2> QED
    BY <1>2
<1>8. GetsAll(x, keys) = h[1..n]
  BY <1>1, Zenon DEF GetsAll, FoldLeft, MapThenFoldSet
<1> HIDE DEF F, C
<1>4. PICK g \in [SUBSET (1..n) -> C] : IsFold(g, n, x, F)
  BY <1>0, <1>3, FoldExists, Zenon
<1>5. ASSUME NEW t \in SUBSET (1..n)
      PROVE  g[t] = IF t = {} THEN x ELSE Gets(g[t \ {Max(t)}], keys[Max(t)])
  <2>1. g[t] = IF t = {} THEN x ELSE F[Max(t)][g[t \ {Max(t)}]]
    BY <1>4 DEF IsFold
  <2>2. t # {} => Max(t) \in 1..n /\ g[t \ {Max(t)}] \in C
    BY <1>1, GreatestIn
  <2> QED
    BY <1>3, <2>1, <2>2
<1>6. Fold(g)
  BY <1>1, <1>5
<1>7. Fold(h)
  <2> HIDE DEF Fold
  <2> QED
    BY <1>6
<1> HIDE DEF h
<1>9. h[{}] = x
  BY <1>1, <1>7
<1>10. ASSUME NEW i \in 1..n, h[1..(i - 1)] \in C
       PROVE  h[1..i] = F[i][h[1..(i - 1)]]
  <2>1. 1..i # {} /\ Max(1..i) = i /\ (1..i) \ {Max(1..i)} = 1..(i - 1) /\ 1..i \in SUBSET DOMAIN keys
    BY <1>1, WholeLast
  <2>2. h[1..i] = Gets(h[1..(i - 1)], keys[i])
    BY <1>7, <2>1
  <2> QED
    BY <1>3, <1>10, <2>2
<1>11. h[1..n] \in C
  <2>1. Follows(h, n, C, F)
    BY <1>10 DEF Follows
  <2>2. F \in [1..n -> [C -> C]] /\ n \in Nat /\ x \in C /\ h[{}] = x
    BY <1>0, <1>3, <1>9
  <2> HIDE DEF F, C, n, h
  <2> QED
    BY <2>1, <2>2, FoldStays
<1> QED
  BY <1>8, <1>11 DEF C

LEMMA PersistsAllStay ==
    ASSUME NEW kind \in Kinds, NEW E \in SUBSET Entry, NEW x \in Caches(kind, E),
           NEW texts \in Seq(Texts),
           \A i \in 1..Len(texts) : Key[texts[i]] \in Keys /\ [key |-> Key[texts[i]], val |-> texts[i]] \in E
    PROVE  PersistsAll(kind, x, texts) \in Caches(kind, E)
<1> DEFINE n == Len(texts)
           C == Caches(kind, E)
           F == [i \in 1..n |-> [y \in C |-> Persists(kind, y, texts[i])]]
           Fold(h) == h = [t \in SUBSET DOMAIN texts |->
                             IF t = {} THEN x ELSE Persists(kind, h[t \ {Max(t)}], texts[Max(t)])]
           h == CHOOSE g : Fold(g)
<1>1. n \in Nat /\ DOMAIN texts = 1..n /\ n = Len(texts) /\ \A i \in 1..n : texts[i] \in Texts
  OBVIOUS
<1>0. n \in Nat /\ x \in C
  OBVIOUS
<1> HIDE DEF n
<1>2. \A y \in C, i \in 1..n : Persists(kind, y, texts[i]) \in C
  BY <1>1, SetsStay DEF Persists
<1>3. F \in [1..n -> [C -> C]] /\ \A y \in C, i \in 1..n : F[i][y] = Persists(kind, y, texts[i])
  <2> HIDE DEF C
  <2> QED
    BY <1>2
<1>8. PersistsAll(kind, x, texts) = h[1..n]
  BY <1>1, Zenon DEF PersistsAll, FoldLeft, MapThenFoldSet
<1> HIDE DEF F, C
<1>4. PICK g \in [SUBSET (1..n) -> C] : IsFold(g, n, x, F)
  BY <1>0, <1>3, FoldExists, Zenon
<1>5. ASSUME NEW t \in SUBSET (1..n)
      PROVE  g[t] = IF t = {} THEN x ELSE Persists(kind, g[t \ {Max(t)}], texts[Max(t)])
  <2>1. g[t] = IF t = {} THEN x ELSE F[Max(t)][g[t \ {Max(t)}]]
    BY <1>4 DEF IsFold
  <2>2. t # {} => Max(t) \in 1..n /\ g[t \ {Max(t)}] \in C
    BY <1>1, GreatestIn
  <2> QED
    BY <1>3, <2>1, <2>2
<1>6. Fold(g)
  BY <1>1, <1>5
<1>7. Fold(h)
  <2> HIDE DEF Fold
  <2> QED
    BY <1>6
<1> HIDE DEF h
<1>9. h[{}] = x
  BY <1>1, <1>7
<1>10. ASSUME NEW i \in 1..n, h[1..(i - 1)] \in C
       PROVE  h[1..i] = F[i][h[1..(i - 1)]]
  <2>1. 1..i # {} /\ Max(1..i) = i /\ (1..i) \ {Max(1..i)} = 1..(i - 1) /\ 1..i \in SUBSET DOMAIN texts
    BY <1>1, WholeLast
  <2>2. h[1..i] = Persists(kind, h[1..(i - 1)], texts[i])
    BY <1>7, <2>1
  <2> QED
    BY <1>3, <1>10, <2>2
<1>11. h[1..n] \in C
  <2>1. Follows(h, n, C, F)
    BY <1>10 DEF Follows
  <2>2. F \in [1..n -> [C -> C]] /\ n \in Nat /\ x \in C /\ h[{}] = x
    BY <1>0, <1>3, <1>9
  <2> HIDE DEF F, C, n, h
  <2> QED
    BY <2>1, <2>2, FoldStays
<1> QED
  BY <1>8, <1>11 DEF C

(***************************************************************************)
(* The texts that were not found                                           *)
(***************************************************************************)
Missed(at, n) == {m \in 1..n : at[m] = "miss"}

LEMMA MissedGrows ==
    ASSUME NEW at, NEW n \in Nat
    PROVE  /\ IsFiniteSet(Missed(at, n)) /\ Cardinality(Missed(at, n)) \in Nat
           /\ Cardinality(Missed(at, n + 1)) =
                 Cardinality(Missed(at, n)) + IF at[n + 1] = "miss" THEN 1 ELSE 0
<1>1. IsFiniteSet(1..n) /\ Missed(at, n) \subseteq 1..n
  BY FS_Interval DEF Missed
<1>2. IsFiniteSet(Missed(at, n))
  BY <1>1, FS_Subset
<1>3. Cardinality(Missed(at, n)) \in Nat
  BY <1>2, FS_CardinalityType
<1>4. CASE at[n + 1] = "miss"
  <2>1. Missed(at, n + 1) = Missed(at, n) \union {n + 1} /\ n + 1 \notin Missed(at, n)
    BY <1>4 DEF Missed
  <2> QED
    BY <1>2, <1>3, <1>4, <2>1, FS_AddElement
<1>5. CASE at[n + 1] # "miss"
  <2>1. Missed(at, n + 1) = Missed(at, n)
    BY <1>5 DEF Missed
  <2> QED
    BY <1>2, <1>3, <1>5, <2>1
<1> QED
  BY <1>4, <1>5

\* f has the n first places in order.
Lists(f, at, n) ==
    /\ Len(f) = Cardinality(Missed(at, n))
    /\ \A m \in 1..n : at[m] = "miss" =>
          Cardinality(Missed(at, m)) \in 1..Len(f) /\ f[Cardinality(Missed(at, m))] = m

LEMMA ListsMore ==
    ASSUME NEW N \in Nat, NEW n \in 0..(N - 1), NEW at, NEW f \in Seq(1..N), Lists(f, at, n),
           NEW g, g = IF at[n + 1] = "miss" THEN Append(f, n + 1) ELSE f
    PROVE  Lists(g, at, n + 1)
<1> DEFINE size(m) == Cardinality(Missed(at, m))
<1>1. size(n) \in Nat /\ size(n + 1) = size(n) + IF at[n + 1] = "miss" THEN 1 ELSE 0
  BY MissedGrows
<1>2. /\ Len(f) = size(n)
      /\ \A m \in 1..n : at[m] = "miss" => size(m) \in 1..Len(f) /\ f[size(m)] = m
  BY DEF Lists
<1> HIDE DEF size
<1>3. ASSUME at[n + 1] = "miss"
      PROVE  Len(g) = size(n + 1) /\ \A m \in 1..(n + 1) : at[m] = "miss" => size(m) \in 1..Len(g) /\ g[size(m)] = m
  <2>1. g = Append(f, n + 1) /\ n + 1 \in 1..N
    BY <1>3
  <2>2. Len(g) = Len(f) + 1 /\ g[Len(f) + 1] = n + 1 /\ \A i \in 1..Len(f) : g[i] = f[i]
    BY <2>1
  <2>3. Len(g) = size(n + 1) /\ Len(f) \in Nat
    BY <1>1, <1>2, <1>3, <2>2
  <2>4. ASSUME NEW m \in 1..(n + 1), at[m] = "miss" PROVE size(m) \in 1..Len(g) /\ g[size(m)] = m
    <3>1. CASE m \in 1..n
      BY <1>2, <2>2, <2>3, <2>4, <3>1
    <3>2. CASE m = n + 1
      BY <1>1, <1>2, <1>3, <2>2, <2>3, <3>2
    <3> QED
      BY <3>1, <3>2
  <2> QED
    BY <2>3, <2>4
<1>4. ASSUME at[n + 1] # "miss"
      PROVE  Len(g) = size(n + 1) /\ \A m \in 1..(n + 1) : at[m] = "miss" => size(m) \in 1..Len(g) /\ g[size(m)] = m
  <2>1. g = f /\ size(n + 1) = size(n)
    BY <1>1, <1>4
  <2>2. \A m \in 1..(n + 1) : at[m] = "miss" => m \in 1..n
    BY <1>4
  <2> QED
    BY <1>2, <2>1, <2>2
<1> QED
  BY <1>3, <1>4 DEF Lists, size

LEMMA AppendIn == \A S : \A f \in Seq(S), i \in S : Append(f, i) \in Seq(S)
OBVIOUS

LEMMA MissesListed ==
    ASSUME NEW c, NEW S, call[c].at \in Seq(S)
    PROVE  /\ Misses(c) \in Seq(1..Len(call[c].at))
           /\ Lists(Misses(c), call[c].at, Len(call[c].at))
<1> DEFINE at == call[c].at
           N == Len(at)
           places == [n \in DOMAIN at |-> n]
           X == Seq(1..N)
           Op(f, i) == IF at[i] = "miss" THEN Append(f, i) ELSE f
           F == [i \in 1..N |-> [f \in X |-> Op(f, i)]]
           b == <<>>
           Fold(h) == h = [t \in SUBSET DOMAIN places |->
                             IF t = {} THEN b ELSE Op(h[t \ {Max(t)}], places[Max(t)])]
           h == CHOOSE g : Fold(g)
<1>0. N \in Nat
  OBVIOUS
<1>1. N \in Nat /\ DOMAIN places = 1..N /\ N = Len(at) /\ b \in X /\ \A i \in 1..N : places[i] = i
  OBVIOUS
<1>8. Misses(c) = h[1..N]
  BY <1>1, Zenon DEF Misses, FoldLeft, MapThenFoldSet
<1>2. \A f \in X, i \in 1..N : Op(f, i) \in X
  BY AppendIn
<1> HIDE DEF N, at, places, X
<1>3. F \in [1..N -> [X -> X]] /\ \A f \in X, i \in 1..N : F[i][f] = Op(f, i)
  BY <1>2
<1> HIDE DEF F, Op
<1>4. PICK g \in [SUBSET (1..N) -> X] : IsFold(g, N, b, F)
  <2>1. b \in X /\ F \in [1..N -> [X -> X]]
    BY <1>1, <1>3
  <2> HIDE DEF b
  <2> QED
    BY <1>0, <2>1, FoldExists, Zenon
<1>5. ASSUME NEW t \in SUBSET (1..N)
      PROVE  g[t] = IF t = {} THEN b ELSE Op(g[t \ {Max(t)}], places[Max(t)])
  <2>1. g[t] = IF t = {} THEN b ELSE F[Max(t)][g[t \ {Max(t)}]]
    BY <1>4 DEF IsFold
  <2>2. t # {} => Max(t) \in 1..N /\ g[t \ {Max(t)}] \in X
    BY <1>1, GreatestIn
  <2> QED
    BY <1>1, <1>3, <2>1, <2>2
<1>6. Fold(g)
  BY <1>1, <1>5
<1>7. Fold(h)
  <2> HIDE DEF Fold
  <2> QED
    BY <1>6
<1> HIDE DEF h
<1>9. h[{}] = b
  BY <1>1, <1>7
<1>10. ASSUME NEW i \in 1..N, h[1..(i - 1)] \in X
       PROVE  h[1..i] = F[i][h[1..(i - 1)]]
  <2>1. 1..i # {} /\ Max(1..i) = i /\ (1..i) \ {Max(1..i)} = 1..(i - 1) /\ 1..i \in SUBSET DOMAIN places
    BY <1>1, WholeLast
  <2>2. h[1..i] = Op(h[1..(i - 1)], i)
    BY <1>1, <1>7, <2>1
  <2> QED
    BY <1>3, <1>10, <2>2
<1>11. PICK a \in [0..N -> X] : IsTrace(a, N, b, F) /\ a[N] = h[1..N]
  <2>1. Follows(h, N, X, F)
    BY <1>10 DEF Follows
  <2>2. b \in X /\ F \in [1..N -> [X -> X]]
    BY <1>1, <1>3
  <2> HIDE DEF b
  <2> QED
    BY <1>0, <1>9, <2>1, <2>2, FoldTrace
<1>12. a[0] = <<>> /\ \A n \in 0..(N - 1) : a[n] \in X /\ a[n + 1] = Op(a[n], n + 1)
  <2>1. a[0] = <<>>
    BY <1>11 DEF IsTrace
  <2>2. ASSUME NEW n \in 0..(N - 1) PROVE a[n] \in X /\ a[n + 1] = Op(a[n], n + 1)
    <3>1. n \in 0..N /\ n + 1 \in 1..N /\ (n + 1) - 1 = n
      BY <1>0
    <3>2. a[n + 1] = F[n + 1][a[n]]
      BY <1>11, <3>1 DEF IsTrace
    <3> QED
      BY <1>3, <3>1, <3>2
  <2> QED
    BY <2>1, <2>2
<1> DEFINE T == {n \in 0..N : Lists(a[n], at, n)}
<1>13. 0 \in T
  <2>1. Missed(at, 0) = {}
    BY DEF Missed
  <2>2. Cardinality(Missed(at, 0)) = 0
    BY <2>1, FS_EmptySet
  <2> QED
    BY <1>0, <1>12, <2>2 DEF Lists
<1>14. \A n \in 0..(N - 1) : n \in T => n + 1 \in T
  <2> SUFFICES ASSUME NEW n \in 0..(N - 1), n \in T PROVE n + 1 \in T
    OBVIOUS
  <2>1. a[n] \in Seq(1..N) /\ a[n + 1] = IF at[n + 1] = "miss" THEN Append(a[n], n + 1) ELSE a[n]
    BY <1>12 DEF X, Op
  <2>2. Lists(a[n + 1], at, n + 1)
    BY <1>0, <2>1, ListsMore
  <2> QED
    BY <1>0, <2>2
<1> HIDE DEF T
<1>15. N \in T
  <2>1. 0..N \subseteq T
    BY <1>0, <1>13, <1>14, InductTo
  <2> QED
    BY <1>0, <2>1
<1> QED
  BY <1>0, <1>8, <1>11, <1>15 DEF T, N, at, X

(***************************************************************************)
(* The inductive invariant                                                 *)
(***************************************************************************)
Places == Found \union {"later", "redis", "mongo", "miss", "new"}

Done == Found \union {"new"}

\* The keys whose results are in Redis or on their way there: of a run in which
\* nothing but the provider fails, and all of them in another.
Backed ==
    {k \in Keys : \/ ~(faults \subseteq {"provider"})
                  \/ store["l1"][k] # None
                  \/ \E w \in writes : w.layer = "l1" /\ w.key = k}

\* The entries an LRU may have.
Good(kind, B) == {e \in Entry : Key[e.val] = e.key /\ Kind(e.val) = kind /\ e.key \in B}

Result(x, i) == [key |-> Key[x.texts[i]], val |-> x.got[i]]

Shape(x) ==
    /\ Len(x.at) = Len(x.texts) /\ Len(x.got) = Len(x.texts) /\ x.from < Len(x.texts)
    /\ \A i \in 1..Len(x.texts) : Kind(x.texts[i]) = Kind(x.texts[1])
    /\ ~x.batch => Len(x.texts) = 1 /\ x.from = 0

Told(x, B) ==
    \A i \in 1..Len(x.texts) : x.at[i] \in Done => Result(x, i) \in Good(Kind(x.texts[1]), B)

\* How far the lookups are when a call is somewhere.
Stage(x) ==
    /\ x.pc \in {"lookup", "ask", "next"} => \A i \in 1..x.from : x.at[i] \in Done
    /\ x.pc = "lookup" => \A i \in SliceOf(x) : x.at[i] \in Found \union {"redis", "mongo", "miss"}
    /\ x.pc = "ask" => \A i \in SliceOf(x) : x.at[i] \in Found \union {"miss"}
    /\ x.pc = "next" => SliceEnd(x) < Len(x.texts) /\ \A i \in SliceOf(x) : x.at[i] \in Done
    /\ x.pc = "ok" =>
          \A i \in 1..Len(x.texts) : x.got[i] \in Texts /\ Key[x.got[i]] = Key[x.texts[i]]

Sound(x, B) == IF x.pc = "idle" THEN x.texts = <<>> ELSE Shape(x) /\ Told(x, B) /\ Stage(x)

CallsSound == call \in [Calls -> Call] /\ \A c \in Calls : Sound(call[c], Backed)

LrusSound ==
    /\ lru \in [Kinds -> LRU]
    /\ \A kind \in Kinds : lru[kind] \in Caches(kind, Good(kind, Backed))

StoresSound ==
    /\ faults \in Circumstances
    /\ store \in [Slow -> [Keys -> Texts \union {None}]]
    /\ \A l \in Slow, k \in Keys : store[l][k] # None => Key[store[l][k]] = k
    /\ writes \in SUBSET Write /\ \A w \in writes : Key[w.val] = w.key

Balance(k, n) == k.requests + k.owed = k.hits["l0"] + k.hits["l1"] + k.hits["l2"] + k.misses + n

CountsSound ==
    /\ count \in [Kinds -> [requests : Nat, hits : [Found -> Nat], misses : Nat, owed : Nat]]
    /\ \A kind \in Kinds :
          /\ IsFiniteSet(Open(kind))
          /\ Balance(count[kind], Cardinality(Open(kind)))

Inv == StoresSound /\ LrusSound /\ CallsSound /\ CountsSound

LEMMA SeqGrows == \A S : \A T \in SUBSET S : Seq(T) \subseteq Seq(S)
OBVIOUS

LEMMA CachesGrow ==
    ASSUME NEW kind, NEW E \in SUBSET Entry, NEW D \in SUBSET E
    PROVE  Caches(kind, D) \subseteq Caches(kind, E)
<1>1. Seq(D) \subseteq Seq(E)
  BY SeqGrows
<1> QED
  BY <1>1 DEF Caches

LEMMA CachesAreLrus ==
    ASSUME NEW kind, NEW E \in SUBSET Entry PROVE Caches(kind, E) \subseteq LRU
<1>1. Seq(E) \subseteq Seq(Entry)
  BY SeqGrows
<1> QED
  BY <1>1 DEF Caches, LRU

LEMMA NothingIn == \A S : <<>> \in Seq(S) /\ Len(<<>>) = 0
OBVIOUS

LEMMA EmptyIsCache ==
    ASSUME NEW kind \in Kinds, NEW E PROVE Empty \in Caches(kind, E) /\ Empty \in LRU
<1>1. Empty.map = <<>> /\ Empty.used = <<>> /\ Empty = [map |-> <<>>, used |-> <<>>]
  BY DEF Empty
<1>2. Empty \in [map : Seq(E), used : Seq(Keys)] /\ Empty \in LRU
  BY <1>1, NothingIn DEF LRU
<1>3. Len(Empty.map) = 0 /\ Len(Empty.used) = 0 /\ Capacity[kind] \in Nat
  BY <1>1, NothingIn, CapacityAssumption
<1>4. Exact(Capacity[kind], Empty)
  BY <1>3 DEF Exact, NoTwice
<1> QED
  BY <1>2, <1>4 DEF Caches

LEMMA GoodGrows ==
    ASSUME NEW kind, NEW D, NEW B, D \subseteq B
    PROVE  Good(kind, D) \subseteq Good(kind, B) /\ Good(kind, B) \in SUBSET Entry
BY DEF Good

LEMMA SoundGrows ==
    ASSUME NEW x, NEW D, NEW B, D \subseteq B, Sound(x, D) PROVE Sound(x, B)
<1>1. \A kind : Good(kind, D) \subseteq Good(kind, B)
  BY GoodGrows
<1>2. Told(x, D) => Told(x, B)
  BY <1>1 DEF Told
<1> QED
  BY <1>2 DEF Sound

LEMMA KeysOfTexts == \A t \in Texts : Key[t] \in Keys
BY KeyAssumption DEF Keys, Range

LEMMA KindOfTexts == \A t : Kind(t) \in Kinds
BY DEF Kind, Kinds

----------------------------------------------------------------------------
(***************************************************************************)
(* What a step leaves sound                                                *)
(***************************************************************************)
LEMMA LrusStay ==
    ASSUME LrusSound, UNCHANGED lru, Backed \subseteq Backed' PROVE LrusSound'
<1>1. ASSUME NEW kind \in Kinds PROVE lru[kind] \in Caches(kind, Good(kind, Backed'))
  <2>1. lru[kind] \in Caches(kind, Good(kind, Backed))
    BY DEF LrusSound
  <2>2. Good(kind, Backed) \in SUBSET Good(kind, Backed') /\ Good(kind, Backed') \in SUBSET Entry
    BY GoodGrows
  <2> QED
    BY <2>1, <2>2, CachesGrow
<1>2. (lru \in [Kinds -> LRU])'
  BY DEF LrusSound
<1> QED
  BY <1>1, <1>2 DEF LrusSound

LEMMA OneLru ==
    ASSUME LrusSound, Backed \subseteq Backed', NEW kind \in Kinds,
           NEW y \in Caches(kind, Good(kind, Backed')), lru' = [lru EXCEPT ![kind] = y]
    PROVE  LrusSound'
<1>1. ASSUME NEW other \in Kinds PROVE lru'[other] \in Caches(other, Good(other, Backed'))
  <2>1. CASE other = kind
    BY <2>1 DEF LrusSound
  <2>2. CASE other # kind
    <3>1. lru[other] \in Caches(other, Good(other, Backed)) /\ lru'[other] = lru[other]
      BY <2>2 DEF LrusSound
    <3>2. Good(other, Backed) \in SUBSET Good(other, Backed') /\ Good(other, Backed') \in SUBSET Entry
      BY GoodGrows
    <3> QED
      BY <3>1, <3>2, CachesGrow
  <2> QED
    BY <2>1, <2>2
<1>2. y \in LRU
  <2>1. Good(kind, Backed') \in SUBSET Entry
    BY GoodGrows
  <2> QED
    BY <2>1, CachesAreLrus
<1>3. lru' \in [Kinds -> LRU]
  BY <1>2 DEF LrusSound
<1> QED
  BY <1>1, <1>3 DEF LrusSound

LEMMA CallsStay ==
    ASSUME CallsSound, UNCHANGED call, Backed \subseteq Backed' PROVE CallsSound'
<1>1. ASSUME NEW c \in Calls PROVE Sound(call[c], Backed')
  BY SoundGrows DEF CallsSound
<1>2. (call \in [Calls -> Call])'
  BY DEF CallsSound
<1> QED
  BY <1>1, <1>2 DEF CallsSound

LEMMA OneCall ==
    ASSUME CallsSound, Backed \subseteq Backed', NEW c \in Calls,
           NEW r \in Call, Sound(r, Backed'), call' = [call EXCEPT ![c] = r]
    PROVE  CallsSound'
<1>1. ASSUME NEW d \in Calls PROVE Sound(call'[d], Backed')
  <2>1. CASE d = c
    BY <2>1 DEF CallsSound
  <2>2. CASE d # c
    <3>1. call'[d] = call[d] /\ Sound(call[d], Backed)
      BY <2>2 DEF CallsSound
    <3> QED
      BY <3>1, SoundGrows
  <2> QED
    BY <2>1, <2>2
<1>2. call' \in [Calls -> Call]
  BY DEF CallsSound
<1> QED
  BY <1>1, <1>2 DEF CallsSound

Waits(x, kind) == x.pc = "lookup" /\ ~x.batch /\ Kind(x.texts[1]) = kind

LEMMA CountsStay ==
    ASSUME CountsSound, UNCHANGED <<faults, count>>,
           \A kind \in Kinds, c \in Calls : Waits(call[c], kind)' <=> Waits(call[c], kind)
    PROVE  CountsSound'
<1>1. \A kind \in Kinds : Open(kind)' = Open(kind)
  BY DEF Open, Waits, KindOf
<1> QED
  BY <1>1 DEF CountsSound

LEMMA OneWaits ==
    ASSUME CallsSound, CountsSound, UNCHANGED <<faults, count>>, NEW c \in Calls, NEW r,
           call' = [call EXCEPT ![c] = r], \A kind \in Kinds : Waits(r, kind) <=> Waits(call[c], kind)
    PROVE  CountsSound'
<1>1. ASSUME NEW kind \in Kinds, NEW d \in Calls PROVE Waits(call'[d], kind) <=> Waits(call[d], kind)
  <2>1. call'[d] = IF d = c THEN r ELSE call[d]
    BY DEF CallsSound
  <2> QED
    BY <2>1
<1>2. \A kind \in Kinds, d \in Calls : Waits(call[d], kind)' <=> Waits(call[d], kind)
  BY <1>1 DEF Waits
<1> QED
  BY <1>2, CountsStay

----------------------------------------------------------------------------
(***************************************************************************)
(* The slices, and the texts looked up                                     *)
(***************************************************************************)
LEMMA SlicesAre ==
    ASSUME NEW x, x.texts \in Seq(Texts), x.from \in Nat, x.from < Len(x.texts)
    PROVE  /\ Len(x.texts) \in Nat /\ SliceEnd(x) \in Nat /\ SliceEnd(x) <= Len(x.texts) /\ x.from < SliceEnd(x)
           /\ SliceEnd(x) = Len(x.texts) \/ SliceEnd(x) = x.from + Slice
           /\ \A i : i \in SliceOf(x) <=> i \in 1..Len(x.texts) /\ ~(i <= x.from) /\ i <= SliceEnd(x)
<1> DEFINE n == Len(x.texts)
<1>1. n \in Nat /\ Slice \in Nat \ {0}
  BY BatchAssumption
<1>2. SliceEnd(x) = IF x.from + Slice < n THEN x.from + Slice ELSE n
  BY DEF SliceEnd
<1> HIDE DEF n
<1>3. SliceEnd(x) \in Nat /\ SliceEnd(x) <= n /\ x.from < SliceEnd(x) /\ (SliceEnd(x) = n \/ SliceEnd(x) = x.from + Slice)
  BY <1>1, <1>2 DEF n
<1>4. \A i : i \in SliceOf(x) <=> i \in 1..n /\ ~(i <= x.from) /\ i <= SliceEnd(x)
  BY <1>1, <1>3 DEF SliceOf
<1> QED
  BY <1>1, <1>3, <1>4 DEF n

LEMMA Fields ==
    ASSUME NEW x \in Call
    PROVE  /\ x.batch \in BOOLEAN /\ x.texts \in Seq(Texts) /\ x.from \in Nat
           /\ x.at \in Seq(Places) /\ x.got \in Seq(Texts \union {None})
           /\ x = [pc |-> x.pc, batch |-> x.batch, texts |-> x.texts, from |-> x.from, at |-> x.at, got |-> x.got]
           /\ x.pc \in {"idle", "lookup", "ask", "next", "raw", "ok", "failed", "lost"}
BY DEF Call, Places

LEMMA Made ==
    ASSUME NEW pc \in {"idle", "lookup", "ask", "next", "raw", "ok", "failed", "lost"},
           NEW batch \in BOOLEAN, NEW texts \in Seq(Texts), NEW from \in Nat,
           NEW at \in Seq(Places), NEW got \in Seq(Texts \union {None})
    PROVE  [pc |-> pc, batch |-> batch, texts |-> texts, from |-> from, at |-> at, got |-> got] \in Call
BY DEF Call, Places

LEMMA ListOf ==
    ASSUME NEW n \in Nat, NEW S, NEW f \in [1..n -> S] PROVE f \in Seq(S) /\ Len(f) = n
OBVIOUS

\* A call that is about to look its next slice up.
Ready(x, B) ==
    /\ x \in Call /\ Shape(x) /\ Told(x, B)
    /\ \A i \in 1..x.from : x.at[i] \in Done

LEMMA LooksUp ==
    ASSUME LrusSound, NEW c \in Calls, NEW new, Ready(new, Backed), LookUp(c, new),
           UNCHANGED <<faults, store, writes>>
    PROVE  /\ Backed' = Backed /\ LrusSound'
           /\ \E r \in Call : /\ call' = [call EXCEPT ![c] = r] /\ Sound(r, Backed)
                              /\ r.pc = "lookup" /\ r.batch = new.batch /\ r.texts = new.texts
<1> DEFINE kind == Kind(new.texts[1])
           n == Len(new.texts)
           map == lru[kind].map
           key(i) == Key[new.texts[i]]
           keys == [i \in DOMAIN new.texts |-> Key[new.texts[i]]]
           in(i) == i \in SliceOf(new)
           E == Good(kind, Backed)
           at == [i \in 1..n |->
                          IF ~in(i) THEN new.at[i]
                          ELSE IF Holds(map, key(i)) THEN "l0" ELSE "redis"]
           got == [i \in 1..n |->
                          IF in(i) /\ Holds(map, key(i))
                            THEN Held(map, key(i)) ELSE new.got[i]]
           r == [pc |-> "lookup", batch |-> new.batch, texts |-> new.texts, from |-> new.from, at |-> at, got |-> got]
<1>1. /\ new.batch \in BOOLEAN /\ new.texts \in Seq(Texts) /\ new.from \in Nat
      /\ new.at \in Seq(Places) /\ new.got \in Seq(Texts \union {None})
  BY Fields DEF Ready
<1>2. Shape(new) /\ Told(new, Backed) /\ \A i \in 1..new.from : new.at[i] \in Done
  BY DEF Ready
<1>3. n \in Nat /\ DOMAIN new.texts = 1..n /\ \A i \in 1..n : new.texts[i] \in Texts
  BY <1>1
<1>4. Len(new.at) = n /\ Len(new.got) = n /\ new.from < n /\ n >= 1
      /\ \A i \in 1..n : Kind(new.texts[i]) = kind
  BY <1>1, <1>2 DEF Shape
<1>5. kind \in Kinds /\ E \in SUBSET Entry /\ lru[kind] \in Caches(kind, E)
  BY KindOfTexts, GoodGrows DEF LrusSound
<1>6. map \in Seq(E)
  BY <1>5 DEF Caches
<1>7. \A i \in 1..n : key(i) \in Keys
  BY <1>3, KeysOfTexts
<1>8. call' = [call EXCEPT ![c] = r]
  BY <1>3 DEF LookUp
<1>9. lru' = [lru EXCEPT ![kind] = GetsAll(lru[kind], SubSeq(keys, new.from + 1, SliceEnd(new)))]
  BY <1>3, <1>5 DEF LookUp, LrusSound
<1>10. Backed' = Backed
  BY DEF Backed
<1>11. SliceEnd(new) \in Nat /\ SliceEnd(new) <= n
  BY <1>1, <1>4, SlicesAre
<1>12. SubSeq(keys, new.from + 1, SliceEnd(new)) \in Seq(Keys)
  <2>1. keys \in Seq(Keys) /\ Len(keys) = n
    BY <1>3, <1>7
  <2>2. new.from + 1 \in 1..(n + 1)
    BY <1>1, <1>3, <1>4
  <2> HIDE DEF keys, n
  <2> QED
    BY <1>1, <1>3, <1>11, <2>1, <2>2
<1>13. GetsAll(lru[kind], SubSeq(keys, new.from + 1, SliceEnd(new))) \in Caches(kind, E)
  <2> HIDE DEF kind, E, keys
  <2> QED
    BY <1>5, <1>12, GetsAllStay
<1>14. LrusSound'
  <2> HIDE DEF kind, keys
  <2> QED
    BY <1>5, <1>9, <1>10, <1>13, OneLru
<1>15. ASSUME NEW i \in 1..n, Holds(map, key(i))
       PROVE  [key |-> key(i), val |-> Held(map, key(i))] \in E /\ Held(map, key(i)) \in Texts
  <2>1. \E e \in E : e = [key |-> key(i), val |-> Held(map, key(i))]
    <3> HIDE DEF map, E, key
    <3> QED
      BY <1>5, <1>6, <1>15, Known
  <2>2. [key |-> key(i), val |-> Held(map, key(i))] \in E
    BY <2>1
  <2> QED
    BY <2>2 DEF Good, Entry
<1>16. r \in Call
  <2>1. \A i \in 1..n : at[i] \in Places
    BY <1>1, <1>4 DEF Places, Found
  <2>2. \A i \in 1..n : got[i] \in Texts \union {None}
    <3>1. \A i \in 1..n : new.got[i] \in Texts \union {None}
      BY <1>1, <1>4
    <3>2. \A i \in 1..n : got[i] = IF in(i) /\ Holds(map, key(i)) THEN Held(map, key(i)) ELSE new.got[i]
      OBVIOUS
    <3> HIDE DEF in, map, key, got
    <3> QED
      BY <1>15, <3>1, <3>2
  <2>3. at \in [1..n -> Places] /\ got \in [1..n -> Texts \union {None}]
    <3>1. at = [i \in 1..n |-> at[i]] /\ got = [i \in 1..n |-> got[i]]
      OBVIOUS
    <3> HIDE DEF at, got
    <3> QED
      BY <2>1, <2>2, <3>1
  <2>4. at \in Seq(Places) /\ got \in Seq(Texts \union {None})
    <3> HIDE DEF at, got, n
    <3> QED
      BY <1>3, <2>3, ListOf
  <2> HIDE DEF at, got
  <2> QED
    BY <1>1, <2>4, Made
<1>17. /\ r.pc = "lookup" /\ r.batch = new.batch /\ r.texts = new.texts /\ r.from = new.from /\ r.at = at /\ r.got = got
       /\ Len(at) = n /\ Len(got) = n /\ SliceOf(r) = SliceOf(new)
  BY <1>3 DEF SliceOf, SliceEnd
<1>18. /\ \A i \in 1..n : at[i] = IF ~in(i) THEN new.at[i] ELSE IF Holds(map, key(i)) THEN "l0" ELSE "redis"
       /\ \A i \in 1..n : got[i] = IF in(i) /\ Holds(map, key(i)) THEN Held(map, key(i)) ELSE new.got[i]
  OBVIOUS
<1> HIDE DEF at, got, r
<1>19. Shape(r)
  BY <1>2, <1>4, <1>17 DEF Shape
<1>20. Told(r, Backed)
  <2> SUFFICES ASSUME NEW i \in 1..n, at[i] \in Done PROVE [key |-> Key[new.texts[i]], val |-> got[i]] \in E
    BY <1>17 DEF Told, Result
  <2>1. CASE in(i) /\ Holds(map, key(i))
    BY <1>15, <1>18, <2>1
  <2>2. CASE in(i) /\ ~Holds(map, key(i))
    BY <1>18, <2>2 DEF Done, Found
  <2>3. CASE ~in(i)
    <3>1. at[i] = new.at[i] /\ got[i] = new.got[i]
      BY <1>18, <2>3
    <3> QED
      BY <1>2, <3>1 DEF Told, Result
  <2> QED
    BY <2>1, <2>2, <2>3
<1>21. Stage(r)
  <2>1. \A i : in(i) <=> i \in 1..n /\ ~(i <= new.from) /\ i <= SliceEnd(new)
    BY <1>1, <1>4, SlicesAre
  <2> HIDE DEF in, n
  <2>2. ASSUME NEW i \in 1..new.from PROVE at[i] \in Done
    <3>1. i \in 1..n /\ ~in(i)
      BY <1>1, <1>3, <1>4, <2>1
    <3> QED
      BY <1>2, <1>18, <3>1
  <2>3. ASSUME NEW i, in(i) PROVE at[i] \in Found \union {"redis", "mongo", "miss"}
    <3>1. i \in 1..n
      BY <2>1, <2>3
    <3> QED
      BY <1>18, <2>3, <3>1 DEF Found
  <2> QED
    BY <1>17, <2>2, <2>3 DEF Stage, in
<1> QED
  BY <1>8, <1>10, <1>14, <1>16, <1>17, <1>19, <1>20, <1>21 DEF Sound

----------------------------------------------------------------------------
(***************************************************************************)
(* Actions of a call                                                       *)
(***************************************************************************)
LEMMA CallAt ==
    ASSUME CallsSound, NEW c \in Calls
    PROVE  /\ call[c] \in Call /\ Sound(call[c], Backed)
           /\ call[c].pc # "idle" =>
                 /\ Shape(call[c]) /\ Told(call[c], Backed) /\ Stage(call[c])
                 /\ Len(call[c].texts) \in Nat /\ Len(call[c].texts) >= 1 /\ call[c].texts[1] \in Texts
                 /\ KindOf(c) \in Kinds
<1>1. call[c] \in Call /\ Sound(call[c], Backed)
  BY DEF CallsSound
<1>2. ASSUME call[c].pc # "idle"
      PROVE  /\ Shape(call[c]) /\ Told(call[c], Backed) /\ Stage(call[c])
             /\ Len(call[c].texts) \in Nat /\ Len(call[c].texts) >= 1 /\ call[c].texts[1] \in Texts
             /\ KindOf(c) \in Kinds
  <2>1. Shape(call[c]) /\ Told(call[c], Backed) /\ Stage(call[c])
    BY <1>1, <1>2 DEF Sound
  <2>2. call[c].texts \in Seq(Texts) /\ call[c].from \in Nat
    BY <1>1, Fields
  <2>3. Len(call[c].texts) \in Nat /\ Len(call[c].texts) >= 1
    BY <2>1, <2>2 DEF Shape
  <2>4. call[c].texts[1] \in Texts
    BY <2>2, <2>3
  <2> QED
    BY <2>1, <2>3, <2>4, KindOfTexts DEF KindOf
<1> QED
  BY <1>1, <1>2

LEMMA NewReady ==
    ASSUME NEW pc \in {"next", "raw"}, NEW batch \in BOOLEAN, NEW texts \in Seq(Texts), NEW B,
           Len(texts) >= 1, ~batch => Len(texts) = 1,
           \A i \in 1..Len(texts) : Kind(texts[i]) = Kind(texts[1])
    PROVE  /\ Ready(New(pc, batch, texts), B) /\ New(pc, batch, texts).pc = pc
           /\ New(pc, batch, texts).batch = batch /\ New(pc, batch, texts).texts = texts
           /\ pc = "raw" => Sound(New(pc, batch, texts), B)
<1> DEFINE n == Len(texts)
           at == [i \in DOMAIN texts |-> "later"]
           got == [i \in DOMAIN texts |-> None]
           x == New(pc, batch, texts)
<1>1. n \in Nat /\ DOMAIN texts = 1..n /\ n >= 1
  OBVIOUS
<1>2. at \in [1..n -> Places] /\ got \in [1..n -> Texts \union {None}] /\ \A i \in 1..n : at[i] = "later"
  BY <1>1 DEF Places
<1>3. x = [pc |-> pc, batch |-> batch, texts |-> texts, from |-> 0, at |-> at, got |-> got]
  BY DEF New
<1> HIDE DEF at, got, x
<1>4. at \in Seq(Places) /\ got \in Seq(Texts \union {None}) /\ Len(at) = n /\ Len(got) = n
  <2> HIDE DEF n
  <2> QED
    BY <1>1, <1>2, ListOf
<1>5. x \in Call
  BY <1>3, <1>4, Made
<1>6. /\ x.pc = pc /\ x.batch = batch /\ x.texts = texts /\ x.from = 0 /\ x.at = at /\ x.got = got
  BY <1>3
<1>7. Shape(x)
  BY <1>1, <1>4, <1>6 DEF Shape
<1>8. Told(x, B)
  BY <1>2, <1>6 DEF Told, Done, Found
<1>9. pc = "raw" => Stage(x)
  BY <1>6 DEF Stage
<1> QED
  BY <1>5, <1>6, <1>7, <1>8, <1>9 DEF Ready, Sound, x

LEMMA ChangesBoth ==
    ASSUME NEW x \in Call, NEW p, NEW v
    PROVE  [x EXCEPT !.at = p, !.got = v] =
               [pc |-> x.pc, batch |-> x.batch, texts |-> x.texts, from |-> x.from, at |-> p, got |-> v]
<1> DEFINE y == [x EXCEPT !.at = p]
<1>1. [x EXCEPT !.at = p, !.got = v] = [y EXCEPT !.got = v]
  OBVIOUS
<1>2. y = [pc |-> x.pc, batch |-> x.batch, texts |-> x.texts, from |-> x.from, at |-> p, got |-> x.got]
  <2>1. [x EXCEPT !.at = p] = [pc |-> x.pc, batch |-> x.batch, texts |-> x.texts, from |-> x.from, at |-> p, got |-> x.got]
    <3>1. x \in [pc : {x.pc}, batch : {x.batch}, texts : {x.texts}, from : {x.from}, at : {x.at}, got : {x.got}]
      BY Fields
    <3> HIDE DEF y
    <3> QED
      BY <3>1
  <2> QED
    BY <2>1
<1> HIDE DEF y
<1>3. y \in [pc : {x.pc}, batch : {x.batch}, texts : {x.texts}, from : {x.from}, at : {p}, got : {x.got}]
  BY <1>2
<1>4. [y EXCEPT !.got = v] = [pc |-> y.pc, batch |-> y.batch, texts |-> y.texts, from |-> y.from, at |-> y.at, got |-> v]
  BY <1>3
<1>5. y.pc = x.pc /\ y.batch = x.batch /\ y.texts = x.texts /\ y.from = x.from /\ y.at = p /\ y.got = x.got
  BY <1>2
<1> QED
  BY <1>1, <1>4, <1>5

LEMMA ChangesAt ==
    ASSUME NEW x \in Call, NEW n, NEW p
    PROVE  [x EXCEPT !.at = [@ EXCEPT ![n] = p]] =
               [pc |-> x.pc, batch |-> x.batch, texts |-> x.texts, from |-> x.from, at |-> [x.at EXCEPT ![n] = p], got |-> x.got]
BY DEF Call

LEMMA ChangesPc ==
    ASSUME NEW x \in Call, NEW p
    PROVE  [x EXCEPT !.pc = p] =
               [pc |-> p, batch |-> x.batch, texts |-> x.texts, from |-> x.from, at |-> x.at, got |-> x.got]
BY DEF Call

LEMMA ChangesFrom ==
    ASSUME NEW x \in Call, NEW p
    PROVE  [x EXCEPT !.from = p] =
               [pc |-> x.pc, batch |-> x.batch, texts |-> x.texts, from |-> p, at |-> x.at, got |-> x.got]
BY DEF Call

LEMMA ChangesGot ==
    ASSUME NEW x \in Call, NEW p, NEW v
    PROVE  [x EXCEPT !.pc = p, !.got = v] =
               [pc |-> p, batch |-> x.batch, texts |-> x.texts, from |-> x.from, at |-> x.at, got |-> v]
<1> DEFINE y == [x EXCEPT !.pc = p]
<1>1. [x EXCEPT !.pc = p, !.got = v] = [y EXCEPT !.got = v]
  OBVIOUS
<1>2. y = [pc |-> p, batch |-> x.batch, texts |-> x.texts, from |-> x.from, at |-> x.at, got |-> x.got]
  BY DEF Call
<1> HIDE DEF y
<1>3. y \in [pc : {p}, batch : {x.batch}, texts : {x.texts}, from : {x.from}, at : {x.at}, got : {x.got}]
  BY <1>2
<1>4. [y EXCEPT !.got = v] = [pc |-> y.pc, batch |-> y.batch, texts |-> y.texts, from |-> y.from, at |-> y.at, got |-> v]
  BY <1>3
<1>5. y.pc = p /\ y.batch = x.batch /\ y.texts = x.texts /\ y.from = x.from /\ y.at = x.at /\ y.got = x.got
  BY <1>2
<1> QED
  BY <1>1, <1>4, <1>5

LEMMA ChangesAll ==
    ASSUME NEW x \in Call, NEW p, NEW v, NEW w
    PROVE  [x EXCEPT !.pc = p, !.got = v, !.at = w] =
               [pc |-> p, batch |-> x.batch, texts |-> x.texts, from |-> x.from, at |-> w, got |-> v]
<1> DEFINE y == [x EXCEPT !.pc = p, !.got = v]
<1>1. [x EXCEPT !.pc = p, !.got = v, !.at = w] = [y EXCEPT !.at = w]
  OBVIOUS
<1>2. y = [pc |-> p, batch |-> x.batch, texts |-> x.texts, from |-> x.from, at |-> x.at, got |-> v]
  BY ChangesGot
<1> HIDE DEF y
<1>3. y \in [pc : {p}, batch : {x.batch}, texts : {x.texts}, from : {x.from}, at : {x.at}, got : {v}]
  BY <1>2
<1>4. [y EXCEPT !.at = w] = [pc |-> y.pc, batch |-> y.batch, texts |-> y.texts, from |-> y.from, at |-> w, got |-> y.got]
  BY <1>3
<1>5. y.pc = p /\ y.batch = x.batch /\ y.texts = x.texts /\ y.from = x.from /\ y.got = v
  BY <1>2
<1> QED
  BY <1>1, <1>4, <1>5

\* One lookup of a call has come back.
LEMMA OneBack ==
    ASSUME NEW x \in Call, NEW B, Sound(x, B), x.pc = "lookup", NEW n \in 1..Len(x.texts),
           x.at[n] \in {"redis", "mongo"}, NEW place \in Found \union {"mongo", "miss"},
           NEW v \in Texts \union {None},
           place \in Done => [key |-> Key[x.texts[n]], val |-> v] \in Good(Kind(x.texts[1]), B),
           NEW at, at = [x.at EXCEPT ![n] = place], NEW got, got = [x.got EXCEPT ![n] = v],
           NEW r, r = [pc |-> "lookup", batch |-> x.batch, texts |-> x.texts, from |-> x.from, at |-> at, got |-> got]
    PROVE  r \in Call /\ Sound(r, B) /\ r.pc = "lookup" /\ r.batch = x.batch /\ r.texts = x.texts
<1> DEFINE N == Len(x.texts)
<1>1. /\ x.batch \in BOOLEAN /\ x.texts \in Seq(Texts) /\ x.from \in Nat
      /\ x.at \in Seq(Places) /\ x.got \in Seq(Texts \union {None})
      /\ x = [pc |-> x.pc, batch |-> x.batch, texts |-> x.texts, from |-> x.from, at |-> x.at, got |-> x.got]
  BY Fields
<1>2. Shape(x) /\ Told(x, B) /\ Stage(x)
  BY DEF Sound
<1>3. N \in Nat /\ Len(x.at) = N /\ Len(x.got) = N /\ x.from < N /\ n \in 1..N
  BY <1>1, <1>2 DEF Shape
<1>5. place \in Places
  BY DEF Places, Found
<1>6. /\ at \in Seq(Places) /\ Len(at) = N /\ \A i \in 1..N : at[i] = IF i = n THEN place ELSE x.at[i]
      /\ got \in Seq(Texts \union {None}) /\ Len(got) = N /\ \A i \in 1..N : got[i] = IF i = n THEN v ELSE x.got[i]
  BY <1>1, <1>3, <1>5
<1> HIDE DEF N
<1>7. r \in Call
  BY <1>1, <1>6, Made
<1>8. /\ r.pc = "lookup" /\ r.batch = x.batch /\ r.texts = x.texts /\ r.from = x.from /\ r.at = at /\ r.got = got
      /\ SliceOf(r) = SliceOf(x)
  <2>1. r.pc = "lookup" /\ r.batch = x.batch /\ r.texts = x.texts /\ r.from = x.from /\ r.at = at /\ r.got = got
    OBVIOUS
  <2>2. SliceOf(r) = SliceOf(x)
    BY <2>1 DEF SliceOf, SliceEnd
  <2> QED
    BY <2>1, <2>2
<1>9. Shape(r)
  BY <1>2, <1>3, <1>6, <1>8 DEF Shape, N
<1>10. Told(r, B)
  <2> SUFFICES ASSUME NEW i \in 1..N, at[i] \in Done
               PROVE  [key |-> Key[x.texts[i]], val |-> got[i]] \in Good(Kind(x.texts[1]), B)
    BY <1>8 DEF Told, Result, N
  <2>1. CASE i = n
    BY <1>6, <2>1
  <2>2. CASE i # n
    <3>1. at[i] = x.at[i] /\ got[i] = x.got[i]
      BY <1>6, <2>2
    <3> QED
      BY <1>2, <3>1 DEF Told, Result, N
  <2> QED
    BY <2>1, <2>2
<1>11. Stage(r)
  <2>1. \A i \in 1..x.from : x.at[i] \in Done
    BY <1>2 DEF Stage
  <2>2. ASSUME NEW i \in 1..x.from PROVE at[i] \in Done
    <3>1. i \in 1..N /\ x.at[i] \in Done
      BY <1>1, <1>3, <2>1
    <3>2. i # n
      BY <3>1 DEF Done, Found
    <3> QED
      BY <1>6, <3>1, <3>2
  <2>3. ASSUME NEW i \in SliceOf(x) PROVE at[i] \in Found \union {"redis", "mongo", "miss"}
    <3>1. i \in 1..N
      BY <1>1, <1>3, SlicesAre DEF N
    <3>2. x.at[i] \in Found \union {"redis", "mongo", "miss"}
      BY <1>2 DEF Stage
    <3> QED
      BY <1>6, <3>1, <3>2 DEF Found
  <2> QED
    BY <1>8, <2>2, <2>3 DEF Stage
<1> QED
  BY <1>7, <1>8, <1>9, <1>10, <1>11 DEF Sound

LEMMA GoesSound ==
    ASSUME Inv, NEW c \in Calls, call[c].pc = "lookup", NEW n \in DOMAIN call[c].texts,
           call[c].at[n] \in {"redis", "mongo"}, NEW where \in {"mongo", "miss"}, Goes(c, n, where),
           Backed \subseteq Backed', UNCHANGED <<faults, count>>
    PROVE  LrusSound' /\ CallsSound' /\ CountsSound'
<1> DEFINE x == call[c]
           at == [x.at EXCEPT ![n] = where]
           got == [x.got EXCEPT ![n] = x.got[n]]
           r == [pc |-> "lookup", batch |-> x.batch, texts |-> x.texts, from |-> x.from, at |-> at, got |-> got]
<1>1. x \in Call /\ Sound(x, Backed) /\ Shape(x)
  BY CallAt DEF Inv
<1>2. /\ x.texts \in Seq(Texts) /\ x.at \in Seq(Places) /\ x.got \in Seq(Texts \union {None})
      /\ x = [pc |-> x.pc, batch |-> x.batch, texts |-> x.texts, from |-> x.from, at |-> x.at, got |-> x.got]
  BY <1>1, Fields
<1>3. n \in 1..Len(x.texts) /\ n \in 1..Len(x.got)
  BY <1>1, <1>2 DEF Shape
<1>4. x.got[n] \in Texts \union {None} /\ [x.got EXCEPT ![n] = x.got[n]] = x.got
  BY <1>2, <1>3
<1>5. Sound(x, Backed')
  BY <1>1, SoundGrows
<1>6. call' = [call EXCEPT ![c] = r] /\ UNCHANGED lru
  <2>1. call' = [call EXCEPT ![c] = [x EXCEPT !.at = [@ EXCEPT ![n] = where]]] /\ UNCHANGED lru
    BY DEF Goes
  <2>2. [x EXCEPT !.at = [@ EXCEPT ![n] = where]] = r
    <3>1. x.pc = "lookup"
      OBVIOUS
    <3> HIDE DEF x
    <3> QED
      BY <1>1, <1>4, <3>1, ChangesAt
  <2> QED
    BY <2>1, <2>2
<1>7. r \in Call /\ Sound(r, Backed') /\ r.pc = "lookup" /\ r.batch = x.batch /\ r.texts = x.texts
  <2>1. x.pc = "lookup" /\ x.at[n] \in {"redis", "mongo"}
    OBVIOUS
  <2>2. where \in Found \union {"mongo", "miss"} /\ where \notin Done
    BY DEF Found, Done
  <2>3. at = [x.at EXCEPT ![n] = where] /\ got = [x.got EXCEPT ![n] = x.got[n]]
    OBVIOUS
  <2>4. r = [pc |-> "lookup", batch |-> x.batch, texts |-> x.texts, from |-> x.from, at |-> at, got |-> got]
    OBVIOUS
  <2> HIDE DEF x, at, got, r
  <2> QED
    BY <1>1, <1>3, <1>4, <1>5, <2>1, <2>2, <2>3, <2>4, OneBack
<1> HIDE DEF r
<1>8. \A kind \in Kinds : Waits(r, kind) <=> Waits(call[c], kind)
  BY <1>7 DEF Waits
<1> QED
  BY <1>6, <1>7, <1>8, LrusStay, OneCall, OneWaits DEF Inv

LEMMA FindsSound ==
    ASSUME Inv, NEW c \in Calls, call[c].pc = "lookup", NEW n \in DOMAIN call[c].texts,
           call[c].at[n] \in {"redis", "mongo"}, NEW l \in Found, NEW v \in Texts, Finds(c, n, l, v),
           Key[v] = Key[call[c].texts[n]], Key[v] \in Backed',
           Backed \subseteq Backed', UNCHANGED <<faults, count>>
    PROVE  LrusSound' /\ CallsSound' /\ CountsSound'
<1> DEFINE x == call[c]
           k == Key[x.texts[n]]
           at == [x.at EXCEPT ![n] = l]
           got == [x.got EXCEPT ![n] = v]
           r == [pc |-> "lookup", batch |-> x.batch, texts |-> x.texts, from |-> x.from, at |-> at, got |-> got]
           kind == Kind(x.texts[1])
<1>1. x \in Call /\ Sound(x, Backed) /\ Shape(x) /\ kind \in Kinds /\ kind = KindOf(c)
  BY CallAt DEF Inv, KindOf
<1>2. x.texts \in Seq(Texts) /\ n \in 1..Len(x.texts) /\ x.texts[n] \in Texts
  BY <1>1, Fields
<1>3. Kind(v) = kind
  <2>1. Kind(x.texts[n]) = kind
    BY <1>1, <1>2 DEF Shape
  <2> QED
    BY <1>2, <2>1, KeyAssumption
<1>4. k \in Keys /\ [key |-> k, val |-> v] \in Good(kind, Backed')
  BY <1>2, <1>3, KeysOfTexts DEF Good, Entry
<1>5. Sound(x, Backed')
  BY <1>1, SoundGrows
<1>6. call' = [call EXCEPT ![c] = r]
  <2>1. call' = [call EXCEPT ![c] = [x EXCEPT !.at = [@ EXCEPT ![n] = l], !.got = [@ EXCEPT ![n] = v]]]
    BY DEF Finds
  <2>2. x = [pc |-> "lookup", batch |-> x.batch, texts |-> x.texts, from |-> x.from, at |-> x.at, got |-> x.got]
    BY <1>1, Fields
  <2>3. [x EXCEPT !.at = [@ EXCEPT ![n] = l], !.got = [@ EXCEPT ![n] = v]] = r
    <3> HIDE DEF x
    <3>1. x.pc = "lookup"
      BY DEF x
    <3>2. [x EXCEPT !.at = at, !.got = got] =
             [pc |-> x.pc, batch |-> x.batch, texts |-> x.texts, from |-> x.from, at |-> at, got |-> got]
      <4> HIDE DEF at, got, r, k, kind
      <4> QED
        BY <1>1, ChangesBoth
    <3> QED
      BY <3>1, <3>2, Zenon
  <2> QED
    BY <2>1, <2>3
<1>7. r \in Call /\ Sound(r, Backed') /\ r.pc = "lookup" /\ r.batch = x.batch /\ r.texts = x.texts
  <2>1. x.pc = "lookup" /\ x.at[n] \in {"redis", "mongo"} /\ l \in Found \union {"mongo", "miss"}
    OBVIOUS
  <2>2. at = [x.at EXCEPT ![n] = l] /\ got = [x.got EXCEPT ![n] = v] /\ v \in Texts \union {None}
    OBVIOUS
  <2>3. r = [pc |-> "lookup", batch |-> x.batch, texts |-> x.texts, from |-> x.from, at |-> at, got |-> got]
    OBVIOUS
  <2>4. [key |-> Key[x.texts[n]], val |-> v] \in Good(Kind(x.texts[1]), Backed')
    BY <1>4
  <2> HIDE DEF x, at, got, r, k, kind
  <2> QED
    BY <1>1, <1>2, <1>5, <2>1, <2>2, <2>3, <2>4, OneBack
<1>8. lru' = [lru EXCEPT ![kind] = Sets(kind, lru[kind], k, v)]
  BY <1>1 DEF Finds, KindOf, LrusSound, Inv
<1>9. Sets(kind, lru[kind], k, v) \in Caches(kind, Good(kind, Backed'))
  <2>1. lru[kind] \in Caches(kind, Good(kind, Backed))
    BY <1>1 DEF Inv, LrusSound
  <2>2. Good(kind, Backed) \in SUBSET Good(kind, Backed') /\ Good(kind, Backed') \in SUBSET Entry
    BY GoodGrows
  <2>3. lru[kind] \in Caches(kind, Good(kind, Backed'))
    BY <2>1, <2>2, CachesGrow
  <2> HIDE DEF k, kind
  <2> QED
    BY <1>1, <1>4, <2>2, <2>3, SetsStay
<1> HIDE DEF r
<1>10. \A other \in Kinds : Waits(r, other) <=> Waits(call[c], other)
  BY <1>7 DEF Waits
<1>11. CallsSound' /\ CountsSound'
  BY <1>6, <1>7, <1>10, OneCall, OneWaits DEF Inv
<1>12. LrusSound'
  <2> HIDE DEF kind, k
  <2> QED
    BY <1>1, <1>8, <1>9, OneLru DEF Inv
<1> QED
  BY <1>11, <1>12

LEMMA BackedSame == ASSUME UNCHANGED <<faults, store, writes>> PROVE Backed' = Backed
BY DEF Backed

LEMMA StoresSame == ASSUME StoresSound, UNCHANGED <<faults, store, writes>> PROVE StoresSound'
BY DEF StoresSound

LEMMA Sums ==
    \A a, o, b, c, d, e, n \in Nat :
        a + o = b + c + d + e + n => (a + 1) + o = b + c + d + e + (n + 1)
OBVIOUS

LEMMA OneRequest ==
    ASSUME NEW k, NEW j, NEW n \in Nat, k.requests \in Nat, k.misses \in Nat, k.owed \in Nat,
           k.hits["l0"] \in Nat, k.hits["l1"] \in Nat, k.hits["l2"] \in Nat,
           j.requests = k.requests + 1, j.hits = k.hits, j.misses = k.misses, j.owed = k.owed,
           Balance(k, n)
    PROVE  Balance(j, n + 1)
<1> DEFINE a == k.requests
           b == k.hits["l0"]
           c == k.hits["l1"]
           d == k.hits["l2"]
           e == k.misses
           o == k.owed
<1>1. a + o = b + c + d + e + n
  BY DEF Balance
<1>2. j.requests = a + 1 /\ j.hits["l0"] = b /\ j.hits["l1"] = c /\ j.hits["l2"] = d /\ j.misses = e
      /\ j.owed = o
  OBVIOUS
<1>3. a \in Nat /\ b \in Nat /\ c \in Nat /\ d \in Nat /\ e \in Nat /\ o \in Nat
  OBVIOUS
<1> HIDE DEF a, b, c, d, e, o
<1>4. (a + 1) + o = b + c + d + e + (n + 1)
  BY <1>1, <1>3, Sums
<1> QED
  BY <1>2, <1>4, Zenon DEF Balance

LEMMA SingleSound == ASSUME Inv, NEW c \in Calls, NEW t \in Texts, Single(c, t) PROVE Inv'
<1> DEFINE new == New("next", FALSE, <<t>>)
<1>1. /\ call[c].pc = "idle" /\ LookUp(c, new) /\ UNCHANGED <<faults, store, writes>>
      /\ count' = [count EXCEPT ![Kind(t)].requests = @ + 1]
  BY DEF Single
<1>2. <<t>> \in Seq(Texts) /\ Len(<<t>>) = 1 /\ <<t>>[1] = t /\ \A i \in 1..Len(<<t>>) : i = 1
  OBVIOUS
<1>3. Ready(new, Backed) /\ new.batch = FALSE /\ new.texts = <<t>>
  <2> DEFINE one == <<t>>
  <2> HIDE DEF one
  <2>1. one \in Seq(Texts) /\ Len(one) = 1 /\ \A i \in 1..Len(one) : i = 1
    BY <1>2 DEF one
  <2>2. Ready(New("next", FALSE, one), Backed) /\ New("next", FALSE, one).batch = FALSE
        /\ New("next", FALSE, one).texts = one
    <3>1. \A i \in 1..Len(one) : Kind(one[i]) = Kind(one[1])
      BY <2>1
    <3>2. Len(one) >= 1
      BY <2>1
    <3> QED
      BY <2>1, <3>1, <3>2, NewReady
  <2> QED
    BY <2>2 DEF one
<1> HIDE DEF new
<1>4. /\ Backed' = Backed /\ LrusSound'
      /\ \E r \in Call : /\ call' = [call EXCEPT ![c] = r] /\ Sound(r, Backed)
                         /\ r.pc = "lookup" /\ r.batch = new.batch /\ r.texts = new.texts
  BY <1>1, <1>3, LooksUp DEF Inv
<1>5. PICK r \in Call : /\ call' = [call EXCEPT ![c] = r] /\ Sound(r, Backed)
                        /\ r.pc = "lookup" /\ r.batch = new.batch /\ r.texts = new.texts
  BY <1>4
<1>6. CallsSound'
  BY <1>4, <1>5, OneCall DEF Inv
<1>7. StoresSound'
  BY <1>1, StoresSame DEF Inv
<1>8. r.batch = FALSE /\ Kind(r.texts[1]) = Kind(t) /\ Kind(t) \in Kinds
  BY <1>2, <1>3, <1>5, KindOfTexts
<1>9. ASSUME NEW d \in Calls PROVE call'[d] = IF d = c THEN r ELSE call[d]
  BY <1>5 DEF Inv, CallsSound
<1>10. Open(Kind(t))' = Open(Kind(t)) \union {c} /\ c \notin Open(Kind(t))
  BY <1>1, <1>5, <1>8, <1>9 DEF Open, KindOf
<1>11. \A kind \in Kinds \ {Kind(t)} : Open(kind)' = Open(kind)
  BY <1>1, <1>5, <1>8, <1>9 DEF Open, KindOf
<1>12. count \in [Kinds -> [requests : Nat, hits : [Found -> Nat], misses : Nat, owed : Nat]]
  BY DEF Inv, CountsSound
<1>13. ASSUME NEW kind \in Kinds
       PROVE  /\ count'[kind] \in [requests : Nat, hits : [Found -> Nat], misses : Nat, owed : Nat]
              /\ IsFiniteSet(Open(kind)')
              /\ Balance(count'[kind], Cardinality(Open(kind)'))
  <2>1. /\ IsFiniteSet(Open(kind)) /\ Cardinality(Open(kind)) \in Nat
        /\ Balance(count[kind], Cardinality(Open(kind)))
    BY FS_CardinalityType DEF Inv, CountsSound
  <2>2. CASE kind = Kind(t)
    <3>1. IsFiniteSet(Open(kind)') /\ Cardinality(Open(kind)') = Cardinality(Open(kind)) + 1
      BY <1>10, <2>1, <2>2, FS_AddElement
    <3>2. count[kind] \in [requests : Nat, hits : [Found -> Nat], misses : Nat, owed : Nat]
      BY <1>12
    <3>3. count'[kind] = [count[kind] EXCEPT !.requests = @ + 1]
      BY <1>1, <1>12, <2>2
    <3>4. /\ count'[kind] \in [requests : Nat, hits : [Found -> Nat], misses : Nat, owed : Nat]
          /\ count'[kind].requests = count[kind].requests + 1
          /\ count'[kind].hits = count[kind].hits /\ count'[kind].misses = count[kind].misses
          /\ count'[kind].owed = count[kind].owed
      BY <3>2, <3>3
    <3>5. /\ count[kind].requests \in Nat /\ count[kind].misses \in Nat /\ count[kind].owed \in Nat
          /\ count[kind].hits["l0"] \in Nat /\ count[kind].hits["l1"] \in Nat /\ count[kind].hits["l2"] \in Nat
      BY <3>2 DEF Found
    <3>6. Balance(count[kind], Cardinality(Open(kind))) => Balance(count'[kind], Cardinality(Open(kind)) + 1)
      BY <2>1, <3>4, <3>5, OneRequest
    <3> QED
      BY <2>1, <3>1, <3>4, <3>6
  <2>3. CASE kind # Kind(t)
    <3>1. Open(kind)' = Open(kind) /\ count'[kind] = count[kind]
      BY <1>1, <1>11, <1>12, <2>3
    <3> QED
      BY <1>12, <2>1, <3>1
  <2> QED
    BY <2>2, <2>3
<1>14. count' \in [Kinds -> [requests : Nat, hits : [Found -> Nat], misses : Nat, owed : Nat]]
  <2>1. DOMAIN count' = Kinds /\ count' = [kind \in Kinds |-> count'[kind]]
    BY <1>1, <1>12
  <2> QED
    BY <1>13, <2>1
<1>15. CountsSound'
  BY <1>1, <1>13, <1>14 DEF CountsSound
<1> QED
  BY <1>4, <1>6, <1>7, <1>15 DEF Inv

LEMMA BatchSound == ASSUME Inv, NEW c \in Calls, NEW texts \in Batches, EmbedBatch(c, texts) PROVE Inv'
<1>1. call[c].pc = "idle" /\ UNCHANGED <<faults, store, writes, count>>
  BY DEF EmbedBatch
<1>2. texts \in Seq(Texts) /\ Len(texts) >= 1 /\ \A i \in 1..Len(texts) : Kind(texts[i]) = Kind(texts[1])
  <2>1. texts \in Seq(Texts \ Spoken) /\ texts # <<>>
    BY BatchAssumption
  <2>2. \A i \in 1..Len(texts) : texts[i] \in Texts \ Spoken
    BY <2>1
  <2>3. texts \in Seq(Texts)
    BY <2>1, SeqGrows
  <2>4. Len(texts) >= 1 /\ 1 \in 1..Len(texts)
    BY <2>1
  <2> QED
    BY <2>2, <2>3, <2>4 DEF Kind
<1>3. Backed' = Backed /\ StoresSound'
  BY <1>1, BackedSame, StoresSame DEF Inv
<1>4. LrusSound' /\ \E r \in Call : call' = [call EXCEPT ![c] = r] /\ Sound(r, Backed) /\ r.batch = TRUE
  <2>1. CASE "unbatched" \in faults
    <3>1. call' = [call EXCEPT ![c] = New("raw", TRUE, texts)] /\ UNCHANGED lru
      BY <2>1 DEF EmbedBatch
    <3>2. New("raw", TRUE, texts) \in Call /\ Sound(New("raw", TRUE, texts), Backed) /\ New("raw", TRUE, texts).batch = TRUE
      BY <1>2, NewReady DEF Ready
    <3> QED
      BY <1>3, <3>1, <3>2, LrusStay DEF Inv
  <2>2. CASE "unbatched" \notin faults
    <3> DEFINE new == New("next", TRUE, texts)
    <3>1. LookUp(c, new)
      BY <2>2 DEF EmbedBatch
    <3>2. Ready(new, Backed) /\ new.batch = TRUE
      BY <1>2, NewReady
    <3> HIDE DEF new
    <3>3. /\ LrusSound'
          /\ \E r \in Call : /\ call' = [call EXCEPT ![c] = r] /\ Sound(r, Backed)
                             /\ r.pc = "lookup" /\ r.batch = new.batch /\ r.texts = new.texts
      BY <1>1, <3>1, <3>2, LooksUp DEF Inv
    <3> QED
      BY <3>2, <3>3
  <2> QED
    BY <2>1, <2>2
<1>5. PICK r \in Call : call' = [call EXCEPT ![c] = r] /\ Sound(r, Backed) /\ r.batch = TRUE
  BY <1>4
<1>6. \A kind \in Kinds : Waits(r, kind) <=> Waits(call[c], kind)
  BY <1>1, <1>5 DEF Waits
<1> QED
  BY <1>1, <1>3, <1>4, <1>5, <1>6, OneCall, OneWaits DEF Inv

LEMMA NextSliceSound == ASSUME Inv, NEW c \in Calls, NextSlice(c) PROVE Inv'
<1> DEFINE x == call[c]
           new == [x EXCEPT !.from = @ + Slice]
<1>1. x.pc = "next" /\ LookUp(c, new) /\ UNCHANGED <<faults, store, writes, count>>
  BY DEF NextSlice
<1>2. x \in Call /\ Shape(x) /\ Told(x, Backed) /\ Stage(x)
  BY <1>1, CallAt DEF Inv
<1>3. /\ x.batch \in BOOLEAN /\ x.texts \in Seq(Texts) /\ x.from \in Nat /\ Slice \in Nat
      /\ x.at \in Seq(Places) /\ x.got \in Seq(Texts \union {None})
  BY <1>2, Fields, BatchAssumption
<1>4. new = [pc |-> x.pc, batch |-> x.batch, texts |-> x.texts, from |-> x.from + Slice, at |-> x.at, got |-> x.got]
  <2> HIDE DEF x
  <2> QED
    BY <1>2, ChangesFrom
<1>5. /\ Len(x.texts) \in Nat /\ SliceEnd(x) \in Nat /\ SliceEnd(x) < Len(x.texts) /\ x.from < SliceEnd(x)
      /\ SliceEnd(x) = x.from + Slice
      /\ \A i : i \in SliceOf(x) <=> i \in 1..Len(x.texts) /\ ~(i <= x.from) /\ i <= SliceEnd(x)
  BY <1>1, <1>2, <1>3, SlicesAre DEF Shape, Stage
<1> HIDE DEF x, new
<1>6. new.batch = x.batch /\ new.texts = x.texts /\ new.from = SliceEnd(x) /\ new.at = x.at /\ new.got = x.got
  BY <1>4, <1>5
<1>7. x.batch = TRUE
  BY <1>2, <1>3, <1>5 DEF Shape
<1>8. new \in Call
  <2>1. x.from + Slice \in Nat
    BY <1>3
  <2> QED
    BY <1>1, <1>3, <1>4, <2>1, Made
<1>9. Shape(new) /\ Told(new, Backed)
  BY <1>2, <1>5, <1>6, <1>7 DEF Shape, Told, Result
<1>10. \A i \in 1..new.from : new.at[i] \in Done
  <2>1. \A i \in 1..SliceEnd(x) : i \in 1..x.from \/ i \in SliceOf(x)
    BY <1>3, <1>5
  <2> QED
    BY <1>1, <1>2, <1>6, <2>1 DEF Stage
<1>11. Ready(new, Backed)
  BY <1>8, <1>9, <1>10 DEF Ready
<1>12. /\ Backed' = Backed /\ LrusSound'
       /\ \E r \in Call : /\ call' = [call EXCEPT ![c] = r] /\ Sound(r, Backed)
                          /\ r.pc = "lookup" /\ r.batch = new.batch /\ r.texts = new.texts
  BY <1>1, <1>11, LooksUp DEF Inv
<1>13. PICK r \in Call : call' = [call EXCEPT ![c] = r] /\ Sound(r, Backed) /\ r.batch = TRUE
  BY <1>6, <1>7, <1>12
<1>14. \A kind \in Kinds : Waits(r, kind) <=> Waits(call[c], kind)
  BY <1>1, <1>13 DEF Waits, x
<1> QED
  BY <1>1, <1>12, <1>13, <1>14, StoresSame, OneCall, OneWaits DEF Inv

LEMMA AnswerTrue ==
    ASSUME Inv, NEW name, NEW l \in Slow, NEW k \in Keys, NEW v \in Answer(name, l, k), v # None
    PROVE  v = store[l][k] /\ v \in Texts /\ Key[v] = k
<1>1. v = store[l][k]
  BY DEF Answer
<1>2. store \in [Slow -> [Keys -> Texts \union {None}]]
  BY DEF Inv, StoresSound
<1>3. store[l][k] \in Texts \union {None}
  BY <1>2
<1> QED
  BY <1>1, <1>3 DEF Inv, StoresSound

LEMMA TextsOf ==
    ASSUME Inv, NEW c \in Calls, call[c].pc # "idle"
    PROVE  /\ DOMAIN call[c].texts = 1..Len(call[c].texts)
           /\ \A n \in 1..Len(call[c].texts) : call[c].texts[n] \in Texts /\ Key[call[c].texts[n]] \in Keys
<1>1. call[c].texts \in Seq(Texts)
  BY CallAt, Fields DEF Inv
<1> QED
  BY <1>1, KeysOfTexts

LEMMA RedisSound ==
    ASSUME Inv, NEW c \in Calls, NEW n \in DOMAIN call[c].texts, FromRedis(c, n) PROVE Inv'
<1> DEFINE k == Key[call[c].texts[n]]
<1>1. call[c].pc = "lookup" /\ call[c].at[n] = "redis" /\ UNCHANGED <<faults, store, writes, count>>
  BY DEF FromRedis
<1>2. k \in Keys
  BY <1>1, TextsOf
<1>3. Backed' = Backed /\ StoresSound'
  BY <1>1, BackedSame, StoresSame DEF Inv
<1>4. PICK v \in Answer("redis", "l1", k) : IF v = None THEN Goes(c, n, "mongo") ELSE Finds(c, n, "l1", v)
  BY DEF FromRedis
<1>5. CASE v = None
  <2>1. Goes(c, n, "mongo")
    BY <1>4, <1>5
  <2>2. LrusSound' /\ CallsSound' /\ CountsSound'
    BY <1>1, <1>3, <2>1, GoesSound
  <2> QED
    BY <1>3, <2>2 DEF Inv
<1>6. CASE v # None
  <2>1. Finds(c, n, "l1", v)
    BY <1>4, <1>6
  <2>2. v = store["l1"][k] /\ v \in Texts /\ Key[v] = k /\ "l1" \in Found
    BY <1>2, <1>6, AnswerTrue DEF Slow, Found
  <2>3. k \in Backed
    BY <1>2, <1>6, <2>2 DEF Backed
  <2>4. LrusSound' /\ CallsSound' /\ CountsSound'
    BY <1>1, <1>3, <2>1, <2>2, <2>3, FindsSound
  <2> QED
    BY <1>3, <2>4 DEF Inv
<1> QED
  BY <1>5, <1>6

LEMMA MongoSound ==
    ASSUME Inv, NEW c \in Calls, NEW n \in DOMAIN call[c].texts, FromMongo(c, n) PROVE Inv'
<1> DEFINE k == Key[call[c].texts[n]]
<1>1. call[c].pc = "lookup" /\ call[c].at[n] = "mongo" /\ UNCHANGED <<faults, store, count>>
  BY DEF FromMongo
<1>2. k \in Keys
  BY <1>1, TextsOf
<1>4. PICK v \in Answer("mongo", "l2", k) :
          IF v = None THEN Goes(c, n, "miss") /\ UNCHANGED writes
          ELSE Finds(c, n, "l2", v) /\ writes' = writes \union {[layer |-> "l1", key |-> k, val |-> v]}
  BY DEF FromMongo
<1>5. CASE v = None
  <2>1. Goes(c, n, "miss") /\ UNCHANGED writes
    BY <1>4, <1>5
  <2>2. Backed' = Backed /\ StoresSound'
    BY <1>1, <2>1, BackedSame, StoresSame DEF Inv
  <2>3. LrusSound' /\ CallsSound' /\ CountsSound'
    BY <1>1, <2>1, <2>2, GoesSound
  <2> QED
    BY <2>2, <2>3 DEF Inv
<1>6. CASE v # None
  <2> DEFINE w == [layer |-> "l1", key |-> k, val |-> v]
  <2>1. Finds(c, n, "l2", v) /\ writes' = writes \union {w}
    BY <1>4, <1>6
  <2>2. v \in Texts /\ Key[v] = k /\ "l2" \in Found
    BY <1>2, <1>6, AnswerTrue DEF Slow, Found
  <2>3. w \in Write /\ w.layer = "l1" /\ w.key = k /\ w.val = v
    BY <1>2, <2>2 DEF Write, Slow
  <2> HIDE DEF w, k
  <2>4. k \in Backed' /\ Backed \subseteq Backed'
    BY <1>1, <1>2, <2>1, <2>3 DEF Backed
  <2>5. StoresSound'
    BY <1>1, <2>1, <2>2, <2>3 DEF Inv, StoresSound
  <2>6. LrusSound' /\ CallsSound' /\ CountsSound'
    BY <1>1, <2>1, <2>2, <2>4, FindsSound DEF k
  <2> QED
    BY <2>5, <2>6 DEF Inv
<1> QED
  BY <1>5, <1>6

LEMMA RawSound == ASSUME Inv, NEW c \in Calls, RawAnswers(c) PROVE Inv'
<1> DEFINE x == call[c]
           r == [pc |-> "ok", batch |-> x.batch, texts |-> x.texts, from |-> x.from, at |-> x.at, got |-> x.texts]
<1>1. x.pc = "raw" /\ UNCHANGED <<faults, lru, store, writes, count>>
      /\ call' = [call EXCEPT ![c] = [x EXCEPT !.pc = "ok", !.got = x.texts]]
  BY DEF RawAnswers
<1>2. x \in Call /\ Shape(x) /\ Told(x, Backed)
  BY <1>1, CallAt DEF Inv
<1>3. x.batch \in BOOLEAN /\ x.texts \in Seq(Texts) /\ x.from \in Nat /\ x.at \in Seq(Places)
  BY <1>2, Fields
<1>4. [x EXCEPT !.pc = "ok", !.got = x.texts] = r
  <2> DEFINE v == x.texts
  <2>1. v = x.texts
    OBVIOUS
  <2> HIDE DEF x, v
  <2>2. [x EXCEPT !.pc = "ok", !.got = v] =
           [pc |-> "ok", batch |-> x.batch, texts |-> x.texts, from |-> x.from, at |-> x.at, got |-> v]
    BY <1>2, ChangesGot
  <2> QED
    BY <2>1, <2>2
<1>5. call' = [call EXCEPT ![c] = r]
  BY <1>1, <1>4
<1>6. \A i \in 1..Len(x.texts) : x.texts[i] \in Texts /\ Key[x.texts[i]] \in Keys
  BY <1>3, KeysOfTexts
<1> HIDE DEF x
<1>7. r \in Call
  <2>1. x.texts \in Seq(Texts \union {None})
    BY <1>3, SeqGrows
  <2> QED
    BY <1>3, <2>1, Made
<1>8. r.pc = "ok" /\ r.batch = x.batch /\ r.texts = x.texts /\ r.from = x.from /\ r.at = x.at /\ r.got = x.texts
  OBVIOUS
<1> HIDE DEF r
<1>9. Shape(r) /\ Stage(r)
  BY <1>2, <1>6, <1>8 DEF Shape, Stage
<1>10. Told(r, Backed)
  <2> SUFFICES ASSUME NEW i \in 1..Len(x.texts), x.at[i] \in Done
               PROVE  [key |-> Key[x.texts[i]], val |-> x.texts[i]] \in Good(Kind(x.texts[1]), Backed)
    BY <1>8 DEF Told, Result
  <2>1. Result(x, i) \in Good(Kind(x.texts[1]), Backed)
    BY <1>2 DEF Told
  <2>2. Key[x.texts[i]] \in Backed
    BY <2>1 DEF Good, Result
  <2>3. Kind(x.texts[i]) = Kind(x.texts[1])
    BY <1>2 DEF Shape
  <2> QED
    BY <1>6, <2>2, <2>3 DEF Good, Entry
<1>11. Backed' = Backed /\ StoresSound'
  BY <1>1, BackedSame, StoresSame DEF Inv
<1>12. Sound(r, Backed)
  BY <1>8, <1>9, <1>10 DEF Sound
<1>13. \A kind \in Kinds : Waits(r, kind) <=> Waits(call[c], kind)
  BY <1>1, <1>8 DEF Waits, x
<1> QED
  BY <1>1, <1>5, <1>7, <1>11, <1>12, <1>13, LrusStay, OneCall, OneWaits DEF Inv

LEMMA FailsSound == ASSUME Inv, NEW c \in Calls, ProviderFails(c) PROVE Inv'
<1> DEFINE x == call[c]
           r == [pc |-> "failed", batch |-> x.batch, texts |-> x.texts, from |-> x.from, at |-> x.at, got |-> x.got]
<1>1. x.pc \in {"ask", "raw"} /\ UNCHANGED <<faults, lru, store, writes, count>>
      /\ call' = [call EXCEPT ![c] = [x EXCEPT !.pc = "failed"]]
  BY DEF ProviderFails
<1>2. x \in Call /\ Shape(x) /\ Told(x, Backed)
  BY <1>1, CallAt DEF Inv
<1>3. call' = [call EXCEPT ![c] = r]
  <2>1. [x EXCEPT !.pc = "failed"] = r
    <3> HIDE DEF x
    <3> QED
      BY <1>2, ChangesPc
  <2> QED
    BY <1>1, <2>1
<1> HIDE DEF x
<1>4. r \in Call
  BY <1>2, Fields, Made
<1>5. r.pc = "failed" /\ r.batch = x.batch /\ r.texts = x.texts /\ r.from = x.from /\ r.at = x.at /\ r.got = x.got
  OBVIOUS
<1> HIDE DEF r
<1>6. Sound(r, Backed)
  BY <1>2, <1>5 DEF Sound, Shape, Stage, Told, Result
<1>7. Backed' = Backed /\ StoresSound'
  BY <1>1, BackedSame, StoresSame DEF Inv
<1>8. \A kind \in Kinds : Waits(r, kind) <=> Waits(call[c], kind)
  BY <1>1, <1>5 DEF Waits, x
<1> QED
  BY <1>1, <1>3, <1>4, <1>6, <1>7, <1>8, LrusStay, OneCall, OneWaits DEF Inv

LEMMA Apart ==
    ASSUME NEW S, IsFiniteSet(S), NEW T, IsFiniteSet(T), S \intersect T = {}
    PROVE  /\ IsFiniteSet(S \union T) /\ Cardinality(S \union T) = Cardinality(S) + Cardinality(T)
           /\ Cardinality(S) \in Nat /\ Cardinality(T) \in Nat
<1>1. IsFiniteSet(S \union T) /\ Cardinality(S \union T) = Cardinality(S) + Cardinality(T) - Cardinality(S \intersect T)
  BY FS_Union
<1>2. Cardinality(S \intersect T) = 0
  BY FS_EmptySet
<1>3. Cardinality(S) \in Nat /\ Cardinality(T) \in Nat
  BY FS_CardinalityType
<1> QED
  BY <1>1, <1>2, <1>3

Ends(S, f, place) == {n \in S : f[n] = place}

LEMMA FourParts ==
    ASSUME NEW S, IsFiniteSet(S), NEW f, \A n \in S : f[n] \in {"l0", "l1", "l2", "miss"}
    PROVE  /\ \A p : IsFiniteSet(Ends(S, f, p)) /\ Cardinality(Ends(S, f, p)) \in Nat
           /\ Cardinality(S) = Cardinality(Ends(S, f, "l0")) + Cardinality(Ends(S, f, "l1"))
                               + Cardinality(Ends(S, f, "l2")) + Cardinality(Ends(S, f, "miss"))
<1> DEFINE A == Ends(S, f, "l0")
           B == Ends(S, f, "l1")
           C == Ends(S, f, "l2")
           D == Ends(S, f, "miss")
<1>1. ASSUME NEW p PROVE IsFiniteSet(Ends(S, f, p)) /\ Cardinality(Ends(S, f, p)) \in Nat
  <2>1. Ends(S, f, p) \in SUBSET S
    BY DEF Ends
  <2>2. IsFiniteSet(Ends(S, f, p))
    BY <2>1, FS_Subset
  <2> QED
    BY <2>2, FS_CardinalityType
<1>2. /\ IsFiniteSet(A) /\ Cardinality(A) \in Nat /\ IsFiniteSet(B) /\ Cardinality(B) \in Nat
      /\ IsFiniteSet(C) /\ Cardinality(C) \in Nat /\ IsFiniteSet(D) /\ Cardinality(D) \in Nat
  BY <1>1
<1>3. /\ S = ((A \union B) \union C) \union D
      /\ A \intersect B = {} /\ (A \union B) \intersect C = {} /\ ((A \union B) \union C) \intersect D = {}
  BY DEF Ends
<1> HIDE DEF A, B, C, D
<1>4. IsFiniteSet(A \union B) /\ Cardinality(A \union B) = Cardinality(A) + Cardinality(B)
  BY <1>2, <1>3, Apart
<1>5. /\ IsFiniteSet((A \union B) \union C)
      /\ Cardinality((A \union B) \union C) = Cardinality(A \union B) + Cardinality(C)
  BY <1>2, <1>3, <1>4, Apart
<1>6. Cardinality(((A \union B) \union C) \union D) = Cardinality((A \union B) \union C) + Cardinality(D)
  BY <1>2, <1>3, <1>5, Apart
<1>7. Cardinality(S) = Cardinality(A) + Cardinality(B) + Cardinality(C) + Cardinality(D)
  BY <1>3, <1>4, <1>5, <1>6
<1> QED
  BY <1>1, <1>7 DEF A, B, C, D

LEMMA MoreSums ==
    \A a, o, b, c, d, e, n, m, more, p, q, r, s \in Nat :
        a + o = b + c + d + e + n /\ more + n = p + q + r + s + m =>
            (a + more) + o = (b + p) + (c + q) + (d + r) + (e + s) + m
OBVIOUS

LEMMA AddedUp ==
    ASSUME NEW k, NEW j, NEW n \in Nat, NEW m \in Nat, NEW more \in Nat,
           k.requests \in Nat, k.misses \in Nat, k.owed \in Nat, j.owed = k.owed,
           k.hits["l0"] \in Nat, k.hits["l1"] \in Nat, k.hits["l2"] \in Nat,
           NEW p \in Nat, NEW q \in Nat, NEW r \in Nat, NEW s \in Nat,
           j.requests = k.requests + more, j.misses = k.misses + s, j.hits["l0"] = k.hits["l0"] + p,
           j.hits["l1"] = k.hits["l1"] + q, j.hits["l2"] = k.hits["l2"] + r,
           more + n = p + q + r + s + m, Balance(k, n)
    PROVE  Balance(j, m)
<1> DEFINE a == k.requests
           b == k.hits["l0"]
           c == k.hits["l1"]
           d == k.hits["l2"]
           e == k.misses
           o == k.owed
<1>1. a + o = b + c + d + e + n
  BY DEF Balance
<1>2. /\ j.requests = a + more /\ j.hits["l0"] = b + p /\ j.hits["l1"] = c + q /\ j.hits["l2"] = d + r
      /\ j.misses = e + s /\ j.owed = o
  OBVIOUS
<1>3. a \in Nat /\ b \in Nat /\ c \in Nat /\ d \in Nat /\ e \in Nat /\ o \in Nat
  OBVIOUS
<1> HIDE DEF a, b, c, d, e, o
<1>4. (a + more) + o = (b + p) + (c + q) + (d + r) + (e + s) + m
  BY <1>1, <1>3, MoreSums
<1> QED
  BY <1>2, <1>4, Zenon DEF Balance

LEMMA GatherSound == ASSUME Inv, NEW c \in Calls, Gather(c) PROVE Inv'
<1> DEFINE x == call[c]
           S == SliceOf(x)
           pc == IF Ended(c, "miss") = 0 THEN Onwards(c) ELSE "ask"
           r == [pc |-> pc, batch |-> x.batch, texts |-> x.texts, from |-> x.from, at |-> x.at, got |-> x.got]
           kind == KindOf(c)
           more == IF x.batch THEN Cardinality(S) ELSE 0
           j == [requests |-> count[kind].requests + more,
                 hits     |-> [l \in Found |-> count[kind].hits[l] + Ended(c, l)],
                 misses   |-> count[kind].misses + Ended(c, "miss"),
                 owed     |-> count[kind].owed]
           Counts == [requests : Nat, hits : [Found -> Nat], misses : Nat, owed : Nat]
<1>1. /\ x.pc = "lookup" /\ UNCHANGED <<faults, lru, store, writes>>
      /\ \A n \in S : x.at[n] \in Found \union {"miss"}
      /\ call' = [call EXCEPT ![c] = [x EXCEPT !.pc = pc]] /\ Count(c)
  BY DEF Gather
<1>2. /\ x \in Call /\ Shape(x) /\ Told(x, Backed) /\ Stage(x) /\ kind \in Kinds /\ kind = Kind(x.texts[1])
  BY <1>1, CallAt DEF Inv, KindOf
<1>3. x.batch \in BOOLEAN /\ x.texts \in Seq(Texts) /\ x.from \in Nat /\ x.from < Len(x.texts)
  BY <1>2, Fields DEF Shape
<1>4. /\ Len(x.texts) \in Nat /\ SliceEnd(x) \in Nat /\ SliceEnd(x) <= Len(x.texts) /\ x.from < SliceEnd(x)
      /\ \A i : i \in S <=> i \in 1..Len(x.texts) /\ ~(i <= x.from) /\ i <= SliceEnd(x)
  BY <1>3, SlicesAre
<1>5. call' = [call EXCEPT ![c] = r]
  <2>1. [x EXCEPT !.pc = pc] = r
    <3> HIDE DEF x, pc
    <3> QED
      BY <1>2, ChangesPc
  <2> QED
    BY <1>1, <2>1
<1>6. IsFiniteSet(S) /\ \A p : Ended(c, p) = Cardinality(Ends(S, x.at, p))
  <2>0. 1 \in Int /\ Len(x.texts) \in Int
    BY <1>4
  <2>1. S \in SUBSET (1..Len(x.texts)) /\ IsFiniteSet(1..Len(x.texts))
    BY <1>4, <2>0, FS_Interval
  <2>2. IsFiniteSet(S)
    BY <2>1, FS_Subset
  <2> QED
    BY <2>2 DEF Ended, Ends
<1>7. /\ \A p : IsFiniteSet(Ends(S, x.at, p)) /\ Ended(c, p) \in Nat
      /\ Cardinality(S) = Ended(c, "l0") + Ended(c, "l1") + Ended(c, "l2") + Ended(c, "miss")
  <2>1. \A n \in S : x.at[n] \in {"l0", "l1", "l2", "miss"}
    BY <1>1 DEF Found
  <2> HIDE DEF S, x
  <2> QED
    BY <1>6, <2>1, FourParts
<1>8. Ended(c, "miss") = 0 => \A n \in S : x.at[n] \in Done
  <2>1. Ended(c, "miss") = 0 => Ends(S, x.at, "miss") = {}
    BY <1>6, <1>7, FS_EmptySet
  <2> QED
    BY <1>1, <2>1 DEF Ends, Done
<1>9. Onwards(c) = (IF SliceEnd(x) < Len(x.texts) THEN "next" ELSE "ok")
  BY DEF Onwards
<1>10. /\ pc \in {"next", "ok", "ask"}
       /\ pc = "next" => SliceEnd(x) < Len(x.texts) /\ \A n \in S : x.at[n] \in Done
       /\ pc = "ok" => SliceEnd(x) = Len(x.texts) /\ \A n \in S : x.at[n] \in Done
  BY <1>4, <1>8, <1>9
<1>11. /\ r.pc = pc /\ r.batch = x.batch /\ r.texts = x.texts /\ r.from = x.from /\ r.at = x.at /\ r.got = x.got
       /\ SliceOf(r) = S /\ SliceEnd(r) = SliceEnd(x)
  BY DEF SliceOf, SliceEnd
<1>12. r \in Call
  <2> HIDE DEF x, pc
  <2> QED
    BY <1>2, <1>10, Fields, Made
<1> HIDE DEF r, pc, S
<1>13. Shape(r) /\ Told(r, Backed)
  BY <1>2, <1>11 DEF Shape, Told, Result
<1>14. Stage(r)
  <2>1. \A i \in 1..x.from : x.at[i] \in Done
    BY <1>1, <1>2 DEF Stage
  <2>2. ASSUME pc = "ok", NEW i \in 1..Len(x.texts)
        PROVE  x.got[i] \in Texts /\ Key[x.got[i]] = Key[x.texts[i]]
    <3>1. i \in S \/ i \in 1..x.from
      BY <1>3, <1>4, <1>10, <2>2
    <3>2. x.at[i] \in Done
      BY <1>10, <2>1, <2>2, <3>1
    <3>3. Result(x, i) \in Good(Kind(x.texts[1]), Backed)
      BY <1>2, <3>2 DEF Told
    <3> QED
      BY <3>3 DEF Good, Entry, Result
  <2> HIDE DEF x
  <2>3. \A i \in S : x.at[i] \in Found \union {"miss"}
    BY <1>1
  <2> QED
    BY <1>10, <1>11, <2>1, <2>2, <2>3 DEF Stage
<1>15. Backed' = Backed /\ StoresSound'
  BY <1>1, BackedSame, StoresSame DEF Inv
<1>16. LrusSound' /\ CallsSound'
  <2>1. Sound(r, Backed')
    BY <1>10, <1>11, <1>13, <1>14, <1>15 DEF Sound
  <2> QED
    BY <1>1, <1>5, <1>12, <1>15, <2>1, LrusStay, OneCall DEF Inv
<1>17. count \in [Kinds -> Counts] /\ count' = [count EXCEPT ![kind] = j]
  BY <1>1 DEF Count, Inv, CountsSound, S
<1>18. count[kind] \in Counts
  BY <1>2, <1>17
<1>19. /\ count[kind].requests \in Nat /\ count[kind].misses \in Nat /\ count[kind].owed \in Nat
       /\ count[kind].hits \in [Found -> Nat]
       /\ count[kind].hits["l0"] \in Nat /\ count[kind].hits["l1"] \in Nat /\ count[kind].hits["l2"] \in Nat
  BY <1>18 DEF Found
<1>20. more \in Nat
  BY <1>6, FS_CardinalityType
<1>21. j \in Counts
  BY <1>7, <1>19, <1>20
<1>22. ASSUME NEW d \in Calls PROVE call'[d] = IF d = c THEN r ELSE call[d]
  BY <1>5 DEF Inv, CallsSound
<1>23. ASSUME NEW other \in Kinds
       PROVE  /\ IsFiniteSet(Open(other)')
              /\ Balance(count'[other], Cardinality(Open(other)'))
  <2>1. /\ IsFiniteSet(Open(other)) /\ Cardinality(Open(other)) \in Nat
        /\ Balance(count[other], Cardinality(Open(other)))
    BY FS_CardinalityType DEF Inv, CountsSound
  <2>2. CASE other # kind
    <3>1. Open(other)' = Open(other)
      BY <1>2, <1>10, <1>11, <1>22, <2>2 DEF Open, KindOf
    <3>2. count'[other] = count[other]
      BY <1>17, <2>2
    <3> QED
      BY <2>1, <3>1, <3>2
  <2>3. ASSUME other = kind, NEW m \in Nat,
               more + Cardinality(Open(other)) =
                   Ended(c, "l0") + Ended(c, "l1") + Ended(c, "l2") + Ended(c, "miss") + m
        PROVE  Balance(count'[other], m)
    <3>1. count'[other] = j
      BY <1>2, <1>17, <2>3
    <3>2. /\ j.requests = count[kind].requests + more /\ j.misses = count[kind].misses + Ended(c, "miss")
          /\ j.hits["l0"] = count[kind].hits["l0"] + Ended(c, "l0")
          /\ j.hits["l1"] = count[kind].hits["l1"] + Ended(c, "l1")
          /\ j.hits["l2"] = count[kind].hits["l2"] + Ended(c, "l2")
          /\ j.owed = count[kind].owed
      BY DEF Found
    <3>3. Cardinality(Open(other)) \in Nat /\ Balance(count[kind], Cardinality(Open(other)))
      BY <2>1, <2>3
    <3> DEFINE k == count[kind]
               n == Cardinality(Open(other))
               e0 == Ended(c, "l0")
               e1 == Ended(c, "l1")
               e2 == Ended(c, "l2")
               e3 == Ended(c, "miss")
    <3>4. e0 \in Nat /\ e1 \in Nat /\ e2 \in Nat /\ e3 \in Nat /\ n \in Nat /\ Balance(k, n) /\ more + n = e0 + e1 + e2 + e3 + m
      BY <1>7, <2>3, <3>3
    <3>5. k.requests \in Nat /\ k.misses \in Nat /\ k.owed \in Nat /\ k.hits["l0"] \in Nat /\ k.hits["l1"] \in Nat /\ k.hits["l2"] \in Nat
      BY <1>19
    <3>6. /\ j.requests = k.requests + more /\ j.misses = k.misses + e3
          /\ j.hits["l0"] = k.hits["l0"] + e0 /\ j.hits["l1"] = k.hits["l1"] + e1 /\ j.hits["l2"] = k.hits["l2"] + e2
          /\ j.owed = k.owed
      BY <3>2
    <3>7. m \in Nat /\ more \in Nat
      BY <1>20
    <3> HIDE DEF j, more, kind, k, n, e0, e1, e2, e3
    <3>8. Balance(j, m)
      BY <3>4, <3>5, <3>6, <3>7, AddedUp
    <3> QED
      BY <3>1, <3>8
  <2>4. CASE other = kind /\ x.batch
    <3>1. Open(other)' = Open(other)
      BY <1>2, <1>10, <1>11, <1>22, <2>4 DEF Open, KindOf
    <3>2. more = Cardinality(S)
      BY <2>4
    <3>3. more + Cardinality(Open(other)) =
              Ended(c, "l0") + Ended(c, "l1") + Ended(c, "l2") + Ended(c, "miss") + Cardinality(Open(other))
      BY <1>7, <3>2
    <3>4. Balance(count'[other], Cardinality(Open(other)))
      <4> HIDE DEF more, kind, j, x
      <4> QED
        BY <2>1, <2>3, <2>4, <3>3
    <3> QED
      BY <2>1, <2>4, <3>1, <3>4
  <2>5. CASE other = kind /\ ~x.batch
    <3>1. Open(other)' = Open(other) \ {c} /\ c \in Open(other)
      BY <1>1, <1>2, <1>10, <1>11, <1>22, <2>5 DEF Open, KindOf
    <3>2. /\ IsFiniteSet(Open(other)') /\ Cardinality(Open(other)') \in Nat
          /\ Cardinality(Open(other)') = Cardinality(Open(other)) - 1
      <4>1. IsFiniteSet(Open(other) \ {c}) /\ Cardinality(Open(other) \ {c}) = Cardinality(Open(other)) - 1
        BY <2>1, <2>5, <3>1, FS_RemoveElement
      <4>2. Cardinality(Open(other) \ {c}) \in Nat
        BY <4>1, FS_CardinalityType
      <4> QED
        BY <3>1, <4>1, <4>2
    <3>3. S = {1} /\ Cardinality(S) = 1
      <4>1. Len(x.texts) = 1 /\ x.from = 0
        BY <1>2, <2>5 DEF Shape
      <4>2. S = {1}
        BY <1>4, <4>1
      <4> QED
        BY <4>2, FS_Singleton
    <3>4. more = 0
      BY <2>5
    <3>5. more + Cardinality(Open(other)) =
              Ended(c, "l0") + Ended(c, "l1") + Ended(c, "l2") + Ended(c, "miss") + Cardinality(Open(other)')
      BY <1>7, <2>1, <2>5, <3>2, <3>3, <3>4
    <3>6. Balance(count'[other], Cardinality(Open(other)'))
      <4> HIDE DEF more, kind, j, x
      <4> QED
        BY <2>3, <2>5, <3>2, <3>5
    <3> QED
      BY <2>5, <3>2, <3>6
  <2> QED
    BY <2>2, <2>4, <2>5
<1>24. CountsSound'
  <2>1. count' \in [Kinds -> Counts]
    BY <1>17, <1>21
  <2> QED
    BY <1>1, <1>23, <2>1 DEF CountsSound
<1> QED
  BY <1>15, <1>16, <1>24 DEF Inv

LEMMA Listed ==
    \A S : \A s \in Seq(S) : Len(s) \in Nat /\ DOMAIN s = 1..Len(s) /\ \A i \in 1..Len(s) : s[i] \in S
OBVIOUS

LEMMA AnswersSound == ASSUME Inv, NEW c \in Calls, ProviderAnswers(c) PROVE Inv'
<1> DEFINE x == call[c]
           S == SliceOf(x)
           N == Len(x.texts)
           kind == Kind(x.texts[1])
           M == Misses(c)
           asked == [n \in DOMAIN M |-> x.texts[M[n]]]
           at == [n \in DOMAIN x.at |-> IF x.at[n] = "miss" THEN "new" ELSE x.at[n]]
           got == Filled(c, asked)
           pc == Onwards(c)
           r == [pc |-> pc, batch |-> x.batch, texts |-> x.texts, from |-> x.from, at |-> at, got |-> got]
           W == {[layer |-> l, key |-> Key[t], val |-> t] : l \in Slow, t \in ToSet(asked)}
<1>1. /\ x.pc = "ask" /\ UNCHANGED <<faults, store, count>>
      /\ call' = [call EXCEPT ![c] = [x EXCEPT !.pc = pc, !.got = got, !.at = at]]
      /\ lru' = [lru EXCEPT ![KindOf(c)] = PersistsAll(KindOf(c), @, asked)]
      /\ writes' = writes \union W
  BY DEF ProviderAnswers
<1>2. x \in Call /\ Shape(x) /\ Told(x, Backed) /\ Stage(x) /\ kind \in Kinds /\ kind = KindOf(c)
  BY <1>1, CallAt DEF Inv, KindOf
<1>3. /\ x.batch \in BOOLEAN /\ x.texts \in Seq(Texts) /\ x.from \in Nat /\ x.from < N
      /\ x.at \in Seq(Places) /\ x.got \in Seq(Texts \union {None}) /\ Len(x.at) = N /\ Len(x.got) = N
  BY <1>2, Fields DEF Shape
<1>4. /\ N \in Nat /\ SliceEnd(x) \in Nat /\ SliceEnd(x) <= N /\ x.from < SliceEnd(x)
      /\ \A i : i \in S <=> i \in 1..N /\ ~(i <= x.from) /\ i <= SliceEnd(x)
  BY <1>3, SlicesAre
<1>5. \A i \in 1..N : x.texts[i] \in Texts /\ Key[x.texts[i]] \in Keys /\ Kind(x.texts[i]) = kind
  BY <1>2, <1>3, KeysOfTexts DEF Shape
<1>6. M \in Seq(1..N) /\ Lists(M, x.at, N)
  BY <1>3, MissesListed
<1>7. call' = [call EXCEPT ![c] = r]
  <2>1. [x EXCEPT !.pc = pc, !.got = got, !.at = at] = r
    <3> HIDE DEF x, pc, got, at
    <3> QED
      BY <1>2, ChangesAll
  <2> QED
    BY <1>1, <2>1
<1> HIDE DEF M
<1>8. /\ asked \in Seq(Texts) /\ Len(asked) = Len(M)
      /\ \A q \in 1..Len(M) : asked[q] = x.texts[M[q]] /\ M[q] \in 1..N
  <2>1. Len(M) \in Nat /\ DOMAIN M = 1..Len(M) /\ \A q \in 1..Len(M) : M[q] \in 1..N
    <3>1. M \in Seq(1..N)
      BY <1>6
    <3> HIDE DEF N
    <3> QED
      BY <3>1, Listed
  <2>2. asked \in [1..Len(M) -> Texts]
    <3> HIDE DEF N, x
    <3> QED
      BY <1>5, <2>1
  <2>3. \A q \in 1..Len(M) : asked[q] = x.texts[M[q]]
    BY <2>1
  <2> HIDE DEF asked
  <2>4. asked \in Seq(Texts) /\ Len(asked) = Len(M)
    BY <2>1, <2>2, ListOf
  <2> QED
    BY <2>1, <2>3, <2>4
<1>9. \A i \in 1..N : x.at[i] = "miss" => asked[Cardinality(Missed(x.at, i))] = x.texts[i]
                        /\ Cardinality(Missed(x.at, i)) \in 1..Len(M)
  <2> HIDE DEF asked, N, x
  <2> QED
    BY <1>6, <1>8 DEF Lists
<1>10. /\ \A i \in 1..N : at[i] = IF x.at[i] = "miss" THEN "new" ELSE x.at[i]
       /\ \A i \in 1..N : got[i] = IF x.at[i] = "miss" THEN asked[Cardinality(Missed(x.at, i))] ELSE x.got[i]
       /\ at \in Seq(Places) /\ Len(at) = N /\ got \in Seq(Texts \union {None}) /\ Len(got) = N
  <2>1. DOMAIN x.at = 1..N /\ DOMAIN x.got = 1..N
    BY <1>3
  <2>2. \A i \in 1..N : at[i] = IF x.at[i] = "miss" THEN "new" ELSE x.at[i]
    BY <2>1
  <2>3. got = [i \in 1..N |-> IF x.at[i] = "miss" THEN asked[Cardinality(Missed(x.at, i))] ELSE x.got[i]]
    <3> HIDE DEF asked
    <3> QED
      BY <2>1 DEF Filled, Missed
  <2>4. at \in [1..N -> Places]
    <3>1. \A i \in 1..N : x.at[i] \in Places
      BY <1>3
    <3>2. "new" \in Places
      BY DEF Places
    <3> QED
      BY <2>1, <3>1, <3>2
  <2>5. \A i \in 1..N : x.got[i] \in Texts \union {None}
    BY <1>3
  <2> HIDE DEF asked, x, N, at, got
  <2>6. got \in [1..N -> Texts \union {None}]
    BY <1>5, <1>9, <2>3, <2>5
  <2> QED
    BY <1>4, <2>2, <2>3, <2>4, <2>6, ListOf
<1>11. \A q \in 1..Len(M) : asked[q] \in ToSet(asked)
  <2> HIDE DEF asked
  <2> QED
    BY <1>8 DEF ToSet
<1>12. \A t \in ToSet(asked) : t \in Texts /\ Key[t] \in Keys /\ Kind(t) = kind
  <2>1. \A t \in ToSet(asked) : \E q \in 1..Len(M) : t = asked[q]
    <3> HIDE DEF asked
    <3> QED
      BY <1>8 DEF ToSet
  <2> HIDE DEF asked, N, x, kind
  <2> QED
    BY <1>5, <1>8, <2>1
<1> HIDE DEF asked
<1>13. W \in SUBSET Write /\ \A w \in W : Key[w.val] = w.key
  BY <1>12 DEF Write
<1>14. \A t \in ToSet(asked) : Key[t] \in Backed'
  <2>1. \A t \in ToSet(asked) : \E w \in W : w.layer = "l1" /\ w.key = Key[t]
    <3> SUFFICES ASSUME NEW t \in ToSet(asked) PROVE \E w \in W : w.layer = "l1" /\ w.key = Key[t]
      OBVIOUS
    <3> DEFINE w == [layer |-> "l1", key |-> Key[t], val |-> t]
    <3>1. w \in W
      BY DEF Slow
    <3>2. w.layer = "l1" /\ w.key = Key[t]
      OBVIOUS
    <3> HIDE DEF w, W
    <3> QED
      BY <3>1, <3>2
  <2> HIDE DEF W
  <2> QED
    BY <1>1, <1>12, <2>1 DEF Backed
<1> HIDE DEF W
<1>15. Backed \subseteq Backed' /\ StoresSound'
  BY <1>1, <1>13 DEF Backed, Inv, StoresSound
<1>16. LrusSound'
  <2> DEFINE E == Good(kind, Backed')
  <2>1. lru[kind] \in Caches(kind, Good(kind, Backed))
    BY <1>2 DEF Inv, LrusSound
  <2>2. Good(kind, Backed) \in SUBSET E /\ E \in SUBSET Entry
    BY <1>15, GoodGrows
  <2>3. lru[kind] \in Caches(kind, E)
    BY <2>1, <2>2, CachesGrow
  <2>4. \A q \in 1..Len(asked) : Key[asked[q]] \in Keys /\ [key |-> Key[asked[q]], val |-> asked[q]] \in E
    BY <1>8, <1>11, <1>12, <1>14 DEF Good, Entry
  <2>5. lru' = [lru EXCEPT ![kind] = PersistsAll(kind, lru[kind], asked)]
    BY <1>1, <1>2 DEF Inv, LrusSound
  <2> HIDE DEF E, kind
  <2>6. PersistsAll(kind, lru[kind], asked) \in Caches(kind, E)
    BY <1>2, <1>8, <2>2, <2>3, <2>4, PersistsAllStay
  <2> QED
    BY <1>2, <1>15, <2>5, <2>6, OneLru DEF Inv, E
<1>17. /\ r.pc = pc /\ r.batch = x.batch /\ r.texts = x.texts /\ r.from = x.from /\ r.at = at /\ r.got = got
       /\ SliceOf(r) = S /\ SliceEnd(r) = SliceEnd(x)
  BY DEF SliceOf, SliceEnd
<1>18. pc = IF SliceEnd(x) < N THEN "next" ELSE "ok"
  BY DEF Onwards
<1> HIDE DEF at, got, pc
<1>19. r \in Call
  <2> HIDE DEF x
  <2> QED
    BY <1>3, <1>10, <1>18, Made
<1> HIDE DEF r, S
<1>20. Shape(r)
  BY <1>2, <1>10, <1>17 DEF Shape
<1>21. ASSUME NEW i \in 1..N, at[i] \in Done
       PROVE  [key |-> Key[x.texts[i]], val |-> got[i]] \in Good(kind, Backed')
  <2>1. CASE x.at[i] = "miss"
    <3>1. got[i] = x.texts[i] /\ x.texts[i] \in ToSet(asked)
      BY <1>9, <1>10, <1>11, <2>1
    <3> QED
      BY <1>12, <1>14, <3>1 DEF Good, Entry
  <2>2. CASE x.at[i] # "miss"
    <3>1. got[i] = x.got[i] /\ x.at[i] \in Done
      BY <1>10, <1>21, <2>2
    <3>2. [key |-> Key[x.texts[i]], val |-> got[i]] \in Good(kind, Backed)
      BY <1>2, <3>1 DEF Told, Result
    <3> QED
      BY <1>15, <3>2, GoodGrows
  <2> QED
    BY <2>1, <2>2
<1>22. Told(r, Backed')
  BY <1>17, <1>21 DEF Told, Result
<1>23. Stage(r)
  <2>1. ASSUME NEW i \in 1..N, x.at[i] \in Found \union {"miss", "new"} PROVE at[i] \in Done
    BY <1>10, <2>1 DEF Done
  <2>2. \A i \in 1..x.from : i \in 1..N /\ x.at[i] \in Done
    BY <1>1, <1>2, <1>3, <1>4 DEF Stage
  <2>3. \A i \in 1..x.from : at[i] \in Done
    BY <2>1, <2>2 DEF Done
  <2>4. \A i \in S : at[i] \in Done
    <3>1. \A i \in S : i \in 1..N /\ x.at[i] \in Found \union {"miss"}
      BY <1>1, <1>2, <1>4 DEF Stage, S
    <3> QED
      BY <2>1, <3>1
  <2>5. ASSUME pc = "ok", NEW i \in 1..N PROVE got[i] \in Texts /\ Key[got[i]] = Key[x.texts[i]]
    <3>1. i \in S \/ i \in 1..x.from
      BY <1>3, <1>4, <1>18, <2>5
    <3>2. at[i] \in Done
      BY <2>3, <2>4, <3>1
    <3>3. [key |-> Key[x.texts[i]], val |-> got[i]] \in Good(kind, Backed')
      BY <1>21, <3>2
    <3> QED
      BY <3>3 DEF Good, Entry
  <2> HIDE DEF x, N
  <2> QED
    BY <1>17, <1>18, <2>3, <2>4, <2>5 DEF Stage, N
<1>24. CallsSound'
  <2>1. Sound(r, Backed')
    BY <1>17, <1>18, <1>20, <1>22, <1>23 DEF Sound
  <2> QED
    BY <1>7, <1>15, <1>19, <2>1, OneCall DEF Inv
<1>25. \A other \in Kinds : Waits(r, other) <=> Waits(call[c], other)
  BY <1>1, <1>17, <1>18 DEF Waits
<1>26. CountsSound'
  BY <1>1, <1>7, <1>25, OneWaits DEF Inv
<1> QED
  BY <1>15, <1>16, <1>24, <1>26 DEF Inv

----------------------------------------------------------------------------
(***************************************************************************)
(* The other actions                                                       *)
(***************************************************************************)
LEMMA OthersStay ==
    ASSUME Inv, UNCHANGED <<faults, lru, call, count>>, Backed \subseteq Backed', StoresSound' PROVE Inv'
<1>1. LrusSound' /\ CallsSound'
  BY LrusStay, CallsStay DEF Inv
<1>2. \A kind \in Kinds, c \in Calls : Waits(call[c], kind)' <=> Waits(call[c], kind)
  BY DEF Waits
<1>3. CountsSound'
  BY <1>2, CountsStay DEF Inv
<1> QED
  BY <1>1, <1>3 DEF Inv

LEMMA AnythingGoes == ~(faults \subseteq {"provider"}) /\ UNCHANGED faults => Backed = Keys /\ Backed' = Keys
BY DEF Backed

LEMMA PutSound == ASSUME Inv, NEW w \in writes, Put(w) PROVE Inv'
<1>1. /\ writes' = writes \ {w} /\ UNCHANGED <<faults, lru, call, count>>
      /\ store' = [store EXCEPT ![w.layer] = [@ EXCEPT ![w.key] = w.val]]
  BY DEF Put, WriteKey
<1>2. /\ store \in [Slow -> [Keys -> Texts \union {None}]]
      /\ writes \in SUBSET Write /\ w \in Write /\ Key[w.val] = w.key
  BY DEF Inv, StoresSound
<1>3. w.layer \in Slow /\ w.key \in Keys /\ w.val \in Texts /\ w.val # None
  BY <1>2, KeyAssumption DEF Write
<1>4. ASSUME NEW l \in Slow, NEW k \in Keys
      PROVE  store'[l][k] = IF l = w.layer /\ k = w.key THEN w.val ELSE store[l][k]
  BY <1>1, <1>2, <1>3
<1>5. store' \in [Slow -> [Keys -> Texts \union {None}]]
  BY <1>1, <1>2, <1>3
<1>6. StoresSound'
  <2>1. \A l \in Slow, k \in Keys : store'[l][k] # None => Key[store'[l][k]] = k
    BY <1>2, <1>4 DEF Inv, StoresSound
  <2> QED
    BY <1>1, <1>2, <1>5, <2>1 DEF Inv, StoresSound
<1>7. Backed \subseteq Backed'
  <2> SUFFICES ASSUME NEW k \in Backed PROVE k \in Backed'
    OBVIOUS
  <2>0. k \in Keys /\ "l1" \in Slow
    BY DEF Backed, Slow
  <2>1. CASE ~(faults \subseteq {"provider"})
    BY <1>1, <2>0, <2>1 DEF Backed
  <2>2. CASE store["l1"][k] # None
    <3>1. store'["l1"][k] # None
      BY <1>3, <1>4, <2>0, <2>2
    <3> QED
      BY <2>0, <3>1 DEF Backed
  <2>3. ASSUME NEW v \in writes, v.layer = "l1", v.key = k PROVE k \in Backed'
    <3>1. CASE v = w
      <4>1. store'["l1"][k] # None
        BY <1>3, <1>4, <2>0, <2>3, <3>1
      <4> QED
        BY <2>0, <4>1 DEF Backed
    <3>2. CASE v # w
      BY <1>1, <2>0, <2>3, <3>2 DEF Backed
    <3> QED
      BY <3>1, <3>2
  <2> QED
    BY <2>1, <2>2, <2>3 DEF Backed
<1> QED
  BY <1>1, <1>6, <1>7, OthersStay

LEMMA PutFailsSound == ASSUME Inv, NEW w \in writes, PutFails(w) PROVE Inv'
<1>1. writes' = writes \ {w} /\ UNCHANGED <<faults, lru, store, call, count>> /\ ~(faults \subseteq {"provider"})
  BY DEF PutFails
<1>2. StoresSound'
  BY <1>1 DEF Inv, StoresSound
<1> QED
  BY <1>1, <1>2, AnythingGoes, OthersStay

LEMMA ExpireSound == ASSUME Inv, NEW l \in Slow, NEW k \in Keys, Expire(l, k) PROVE Inv'
<1>1. /\ UNCHANGED <<faults, lru, writes, call, count>> /\ ~(faults \subseteq {"provider"})
      /\ store' = [store EXCEPT ![l] = [@ EXCEPT ![k] = None]]
  BY DEF Expire
<1>2. store \in [Slow -> [Keys -> Texts \union {None}]]
  BY DEF Inv, StoresSound
<1>3. store' \in [Slow -> [Keys -> Texts \union {None}]]
  BY <1>1, <1>2
<1>4. \A m \in Slow, i \in Keys : store'[m][i] = IF m = l /\ i = k THEN None ELSE store[m][i]
  BY <1>1, <1>2
<1>5. StoresSound'
  BY <1>1, <1>3, <1>4 DEF Inv, StoresSound
<1> QED
  BY <1>1, <1>5, AnythingGoes, OthersStay

LEMMA OtherSound == ASSUME Inv, NEW l \in Slow, NEW t \in Elsewhere, OtherInstance(l, t) PROVE Inv'
<1>1. /\ UNCHANGED <<faults, lru, writes, call, count>> /\ ~(faults \subseteq {"provider"})
      /\ store' = [store EXCEPT ![l] = [@ EXCEPT ![Key[t]] = t]]
  BY DEF OtherInstance
<1>2. store \in [Slow -> [Keys -> Texts \union {None}]] /\ t \in Texts /\ Key[t] \in Keys
  BY ElsewhereAssumption, KeysOfTexts DEF Inv, StoresSound
<1>3. store' \in [Slow -> [Keys -> Texts \union {None}]]
  BY <1>1, <1>2
<1>4. \A m \in Slow, i \in Keys : store'[m][i] = IF m = l /\ i = Key[t] THEN t ELSE store[m][i]
  BY <1>1, <1>2
<1>5. StoresSound'
  BY <1>1, <1>3, <1>4 DEF Inv, StoresSound
<1> QED
  BY <1>1, <1>5, AnythingGoes, OthersStay

LEMMA NothingCounted ==
    /\ NoCount \in [requests : Nat, hits : [Found -> Nat], misses : Nat, owed : Nat]
    /\ Balance(NoCount, 0)
    /\ \A n \in Nat : /\ [NoCount EXCEPT !.owed = n] \in
                             [requests : Nat, hits : [Found -> Nat], misses : Nat, owed : Nat]
                      /\ Balance([NoCount EXCEPT !.owed = n], n)
<1>1. NoCount.requests = 0 /\ NoCount.owed = 0 /\ NoCount.misses = 0 /\ NoCount.hits = [l \in Found |-> 0]
  BY DEF NoCount
<1>2. NoCount.hits["l0"] = 0 /\ NoCount.hits["l1"] = 0 /\ NoCount.hits["l2"] = 0
  BY <1>1 DEF Found
<1>3. NoCount \in [requests : Nat, hits : [Found -> Nat], misses : Nat, owed : Nat]
  BY DEF NoCount
<1>4. ASSUME NEW n \in Nat
      PROVE  /\ [NoCount EXCEPT !.owed = n] \in
                    [requests : Nat, hits : [Found -> Nat], misses : Nat, owed : Nat]
             /\ Balance([NoCount EXCEPT !.owed = n], n)
  <2> DEFINE k == [NoCount EXCEPT !.owed = n]
  <2>1. /\ k \in [requests : Nat, hits : [Found -> Nat], misses : Nat, owed : Nat]
        /\ k.requests = 0 /\ k.owed = n /\ k.misses = 0 /\ k.hits = NoCount.hits
    BY <1>1, <1>3 DEF NoCount
  <2> HIDE DEF k
  <2>2. Balance(k, n)
    BY <1>2, <2>1 DEF Balance
  <2> QED
    BY <2>1, <2>2 DEF k
<1> QED
  BY <1>1, <1>2, <1>3, <1>4 DEF Balance

LEMMA ResetSound == ASSUME Inv, Reset PROVE Inv'
<1>1. /\ "reset" \in faults /\ UNCHANGED <<faults, lru, store, writes, call>>
      /\ count' = [kind \in Kinds |-> [NoCount EXCEPT !.owed = Cardinality(Open(kind))]]
  BY DEF Reset
<1>2. Backed' = Backed /\ StoresSound'
  BY <1>1, BackedSame, StoresSame DEF Inv
<1>3. LrusSound' /\ CallsSound'
  BY <1>1, <1>2, LrusStay, CallsStay DEF Inv
<1>4. \A kind \in Kinds : Open(kind)' = Open(kind)
  BY <1>1 DEF Open, KindOf
<1>5. ASSUME NEW kind \in Kinds
      PROVE  /\ count'[kind] \in [requests : Nat, hits : [Found -> Nat], misses : Nat, owed : Nat]
             /\ IsFiniteSet(Open(kind)) /\ Balance(count'[kind], Cardinality(Open(kind)))
  <2>1. IsFiniteSet(Open(kind)) /\ Cardinality(Open(kind)) \in Nat
    BY FS_CardinalityType DEF Inv, CountsSound
  <2> QED
    BY <1>1, <2>1, NothingCounted
<1>6. CountsSound'
  <2>1. count' = [kind \in Kinds |-> count'[kind]]
    BY <1>1
  <2>2. count' \in [Kinds -> [requests : Nat, hits : [Found -> Nat], misses : Nat, owed : Nat]]
    BY <1>5, <2>1
  <2> QED
    BY <1>4, <1>5, <2>2 DEF CountsSound
<1> QED
  BY <1>2, <1>3, <1>6 DEF Inv

LEMMA RestartSound == ASSUME Inv, Restart PROVE Inv'
<1>1. /\ ~(faults \subseteq {"provider"}) /\ UNCHANGED <<faults, store>>
      /\ lru' = [kind \in Kinds |-> Empty] /\ writes' = {} /\ count' = [kind \in Kinds |-> NoCount]
      /\ call' = [c \in Calls |-> IF call[c].pc \in {"lookup", "ask", "next", "raw"}
                                    THEN [call[c] EXCEPT !.pc = "lost"] ELSE call[c]]
  BY DEF Restart
<1>2. Backed = Keys /\ Backed' = Keys
  BY <1>1, AnythingGoes
<1>3. StoresSound'
  BY <1>1 DEF Inv, StoresSound
<1>4. LrusSound'
  <2>1. \A kind \in Kinds : Empty \in Caches(kind, Good(kind, Backed')) /\ Empty \in LRU
    BY EmptyIsCache
  <2> QED
    BY <1>1, <2>1 DEF LrusSound
<1>5. ASSUME NEW c \in Calls
      PROVE  call'[c] \in Call /\ Sound(call'[c], Backed') /\ call'[c].pc # "lookup"
  <2> DEFINE x == call[c]
             r == [pc |-> "lost", batch |-> x.batch, texts |-> x.texts, from |-> x.from, at |-> x.at, got |-> x.got]
  <2>1. x \in Call /\ Sound(x, Backed)
    BY CallAt DEF Inv
  <2>2. CASE x.pc \in {"lookup", "ask", "next", "raw"}
    <3>1. call'[c] = [x EXCEPT !.pc = "lost"]
      BY <1>1, <2>2
    <3>2. Shape(x) /\ Told(x, Backed)
      BY <2>1, <2>2 DEF Sound
    <3> HIDE DEF x
    <3>3. call'[c] = r
      BY <2>1, <3>1, ChangesPc
    <3>4. r \in Call
      BY <2>1, Fields, Made
    <3>5. r.pc = "lost" /\ r.batch = x.batch /\ r.texts = x.texts /\ r.from = x.from /\ r.at = x.at /\ r.got = x.got
      OBVIOUS
    <3> HIDE DEF r
    <3>6. Sound(r, Backed)
      BY <3>2, <3>5 DEF Sound, Shape, Stage, Told, Result
    <3> QED
      BY <1>2, <3>3, <3>4, <3>5, <3>6
  <2>3. CASE x.pc \notin {"lookup", "ask", "next", "raw"}
    BY <1>1, <1>2, <2>1, <2>3
  <2> QED
    BY <2>2, <2>3
<1>6. CallsSound'
  <2>1. call' = [c \in Calls |-> call'[c]]
    BY <1>1
  <2>2. call' \in [Calls -> Call]
    BY <1>5, <2>1
  <2> QED
    BY <1>5, <2>2 DEF CallsSound
<1>7. CountsSound'
  <2>1. \A kind \in Kinds : Open(kind)' = {}
    BY <1>5 DEF Open
  <2>2. IsFiniteSet({}) /\ Cardinality({}) = 0
    BY FS_EmptySet
  <2> QED
    BY <1>1, <2>1, <2>2, NothingCounted DEF CountsSound
<1> QED
  BY <1>3, <1>4, <1>6, <1>7 DEF Inv

----------------------------------------------------------------------------
LEMMA InitSound == ASSUME Init PROVE Inv
<1>1. /\ faults \in Circumstances /\ lru = [kind \in Kinds |-> Empty] /\ writes = {}
      /\ store \in [Slow -> Kept] /\ call = [c \in Calls |-> Idle] /\ count = [kind \in Kinds |-> NoCount]
  BY DEF Init
<1>2. StoresSound
  <2>1. \A kept \in Kept : /\ kept \in [Keys -> Texts \union {None}]
                           /\ \A k \in Keys : kept[k] # None => Key[kept[k]] = k
    BY ElsewhereAssumption DEF Kept
  <2>2. store \in [Slow -> [Keys -> Texts \union {None}]]
    BY <1>1, <2>1
  <2> QED
    BY <1>1, <2>1, <2>2 DEF StoresSound
<1>3. LrusSound
  <2>1. \A kind \in Kinds : Empty \in Caches(kind, Good(kind, Backed)) /\ Empty \in LRU
    BY EmptyIsCache
  <2> QED
    BY <1>1, <2>1 DEF LrusSound
<1>4. CallsSound
  <2>1. Idle \in Call /\ Idle.pc = "idle"
    <3>1. Idle = [pc |-> "idle", batch |-> FALSE, texts |-> <<>>, from |-> 0, at |-> <<>>, got |-> <<>>]
      BY DEF Idle
    <3>2. <<>> \in Seq(Texts) /\ <<>> \in Seq(Places) /\ <<>> \in Seq(Texts \union {None})
      BY NothingIn
    <3> QED
      BY <3>1, <3>2, Made
  <2> QED
    BY <1>1, <2>1 DEF CallsSound, Sound, Idle
<1>5. CountsSound
  <2>1. \A kind \in Kinds : Open(kind) = {}
    BY <1>1 DEF Open, Idle
  <2>2. IsFiniteSet({}) /\ Cardinality({}) = 0
    BY FS_EmptySet
  <2> QED
    BY <1>1, <2>1, <2>2, NothingCounted DEF CountsSound
<1> QED
  BY <1>2, <1>3, <1>4, <1>5 DEF Inv

LEMMA StepSound == ASSUME Inv, [Next]_vars PROVE Inv'
<1>1. ASSUME NEW c \in Calls, Proceed(c) PROVE Inv'
  <2>1. ASSUME NEW n \in DOMAIN call[c].texts, FromRedis(c, n) \/ FromMongo(c, n) PROVE Inv'
    BY <2>1, RedisSound, MongoSound
  <2>2. ASSUME Gather(c) \/ NextSlice(c) \/ ProviderAnswers(c) PROVE Inv'
    BY <2>2, GatherSound, NextSliceSound, AnswersSound
  <2>3. ASSUME RawAnswers(c) \/ ProviderFails(c) PROVE Inv'
    BY <2>3, RawSound, FailsSound
  <2> QED
    BY <1>1, <2>1, <2>2, <2>3 DEF Proceed
<1>2. ASSUME NEW c \in Calls, NEW t \in Texts, Single(c, t) PROVE Inv'
  BY <1>2, SingleSound
<1>3. ASSUME NEW c \in Calls, NEW texts \in Batches, EmbedBatch(c, texts) PROVE Inv'
  BY <1>3, BatchSound
<1>4. ASSUME NEW w \in writes, Put(w) \/ PutFails(w) PROVE Inv'
  BY <1>4, PutSound, PutFailsSound
<1>5. ASSUME NEW l \in Slow, NEW k \in Keys, Expire(l, k) PROVE Inv'
  BY <1>5, ExpireSound
<1>6. ASSUME NEW l \in Slow, NEW t \in Elsewhere, OtherInstance(l, t) PROVE Inv'
  BY <1>6, OtherSound
<1>7. ASSUME Restart \/ Reset PROVE Inv'
  BY <1>7, RestartSound, ResetSound
<1>8. ASSUME UNCHANGED vars PROVE Inv'
  <2>1. UNCHANGED <<faults, lru, store, writes, call, count>>
    BY <1>8 DEF vars
  <2>2. Backed' = Backed /\ StoresSound'
    BY <2>1, BackedSame, StoresSame DEF Inv
  <2> QED
    BY <2>1, <2>2, OthersStay
<1> QED
  BY <1>1, <1>2, <1>3, <1>4, <1>5, <1>6, <1>7, <1>8 DEF Next

LEMMA Invariant == Spec => []Inv
<1>1. Init => Inv
  BY InitSound
<1>2. Inv /\ [Next]_vars => Inv'
  BY StepSound
<1> QED
  BY <1>1, <1>2, PTL DEF Spec

----------------------------------------------------------------------------
(***************************************************************************)
(* Theorems                                                                *)
(***************************************************************************)

\* Types; no LRU outgrows its capacity, whatever its hits, puts and evictions.
THEOREM TypeCorrect == Spec => []TypeOK
<1>1. Inv => TypeOK
  <2> SUFFICES ASSUME Inv PROVE TypeOK
    OBVIOUS
  <2>1. ASSUME NEW kind \in Kinds PROVE Len(lru[kind].map) <= Capacity[kind]
    BY DEF Inv, LrusSound, Caches, Exact
  <2> QED
    BY <2>1 DEF Inv, StoresSound, LrusSound, CallsSound, CountsSound, TypeOK
<1> QED
  BY <1>1, Invariant, PTL

\* Any number of calls that interleave at their awaits, of any batches in slices of
\* any size, with layers that fail, expire or are written by others: each text of an
\* answer has at its place a result of that text or of one with the same key.
THEOREM AnswersAreTrue == Spec => []AnswersTrue
<1>1. Inv => AnswersTrue
  <2> SUFFICES ASSUME Inv, NEW c \in Calls, call[c].pc = "ok"
               PROVE  /\ Len(call[c].got) = Len(call[c].texts)
                      /\ \A n \in DOMAIN call[c].texts :
                            call[c].got[n] # None /\ Key[call[c].got[n]] = Key[call[c].texts[n]]
    BY DEF AnswersTrue
  <2>1. Shape(call[c]) /\ Stage(call[c]) /\ call[c].texts \in Seq(Texts)
    BY CallAt, Fields DEF Inv
  <2>2. Len(call[c].got) = Len(call[c].texts) /\ DOMAIN call[c].texts = 1..Len(call[c].texts)
    BY <2>1 DEF Shape
  <2>3. \A n \in 1..Len(call[c].texts) :
            call[c].got[n] \in Texts /\ Key[call[c].got[n]] = Key[call[c].texts[n]]
    BY <2>1 DEF Stage
  <2> QED
    BY <2>2, <2>3, KeyAssumption
<1> QED
  BY <1>1, Invariant, PTL

\* No interleaving of calls, late puts and other instances leaves a result under a key
\* that is not its own, in a layer or on its way there, or in the LRU of the other kind.
THEOREM CachesAreTrue == Spec => []CachesTrue
<1>1. Inv => CachesTrue
  <2> SUFFICES ASSUME Inv PROVE CachesTrue
    OBVIOUS
  <2>1. ASSUME NEW kind \in Kinds, NEW n \in DOMAIN lru[kind].map
        PROVE  Key[lru[kind].map[n].val] = lru[kind].map[n].key /\ Kind(lru[kind].map[n].val) = kind
    <3>1. lru[kind].map \in Seq(Good(kind, Backed))
      BY DEF Inv, LrusSound, Caches
    <3>2. lru[kind].map[n] \in Good(kind, Backed)
      BY <3>1, Listed
    <3> QED
      BY <3>2 DEF Good
  <2> QED
    BY <2>1 DEF CachesTrue, Inv, StoresSound
<1> QED
  BY <1>1, Invariant, PTL

\* Of any capacity and after any gets, sets and evictions, an LRU holds exactly the keys
\* touched last, in the order in which they were touched.
THEOREM LruIsExact == Spec => []LruExact
<1>1. Inv => LruExact
  <2> SUFFICES ASSUME Inv, NEW kind \in Kinds
               PROVE  LET held == [n \in DOMAIN lru[kind].map |-> lru[kind].map[n].key]
                          used == lru[kind].used
                          size == IF Len(used) < Capacity[kind] THEN Len(used) ELSE Capacity[kind]
                      IN held = SubSeq(used, Len(used) - size + 1, Len(used))
    BY DEF LruExact
  <2> DEFINE map == lru[kind].map
             used == lru[kind].used
             cap == Capacity[kind]
             n == Len(map)
             m == Len(used)
             past == m - n
             size == IF m < cap THEN m ELSE cap
  <2>1. map \in Seq(Good(kind, Backed)) /\ used \in Seq(Keys) /\ Exact(cap, lru[kind])
    BY DEF Inv, LrusSound, Caches
  <2>2. /\ n \in Nat /\ m \in Nat /\ past \in Nat /\ n <= cap /\ (n = cap \/ past = 0) /\ cap \in Nat
        /\ \A i \in 1..n : map[i].key = used[past + i]
    <3>1. n \in Nat /\ m \in Nat /\ cap \in Nat
      BY <2>1, CapacityAssumption
    <3>2. /\ past \in Nat /\ n <= cap /\ (n = cap \/ past = 0)
          /\ \A i \in 1..n : map[i].key = used[past + i]
      BY <2>1 DEF Exact
    <3> QED
      BY <3>1, <3>2
  <2>3. past = m - n /\ size = (IF m < cap THEN m ELSE cap)
    OBVIOUS
  <2>4. DOMAIN map = 1..n /\ m = Len(used) /\ \A i \in 1..m : used[i] \in Keys
    BY <2>1
  <2> HIDE DEF map, used, cap, n, m, past, size
  <2>5. size = n /\ m - size + 1 = past + 1
    BY <2>2, <2>3
  <2>6. SubSeq(used, past + 1, m) = [i \in 1..n |-> used[past + i]]
    <3>1. (m - (past + 1)) + 1 = n
      BY <2>2, <2>3
    <3>2. SubSeq(used, past + 1, m) = [i \in 1..((m - (past + 1)) + 1) |-> used[((past + 1) + i) - 1]]
      BY <2>1, <2>2, <2>4
    <3>3. \A i \in 1..n : ((past + 1) + i) - 1 = past + i
      BY <2>2
    <3> QED
      BY <3>1, <3>2, <3>3
  <2>7. [i \in DOMAIN map |-> map[i].key] = SubSeq(used, m - size + 1, m)
    BY <2>2, <2>4, <2>5, <2>6
  <2> QED
    BY <2>7 DEF map, used, cap, n, m, past, size
<1> QED
  BY <1>1, Invariant, PTL

\* Where nothing but the provider fails, no order of calls, slices, failures and puts
\* leaves a result found or computed out of Redis once the puts are through.
THEOREM FindsAreWrittenBack == Spec => []WrittenBack
<1>1. Inv => WrittenBack
  <2> SUFFICES ASSUME Inv, faults \subseteq {"provider"}, writes = {}, NEW c \in Calls,
                      NEW n \in DOMAIN call[c].texts, call[c].at[n] \in Found \union {"new"}
               PROVE  store["l1"][Key[call[c].texts[n]]] # None
    BY DEF WrittenBack
  <2>1. call[c].texts \in Seq(Texts) /\ DOMAIN call[c].texts = 1..Len(call[c].texts)
    BY CallAt, Fields DEF Inv
  <2>2. CASE call[c].pc = "idle"
    <3>1. call[c].texts = <<>>
      BY <2>2, CallAt DEF Inv, Sound
    <3> QED
      BY <2>1, <3>1
  <2>3. CASE call[c].pc # "idle"
    <3>1. Told(call[c], Backed)
      BY <2>3, CallAt DEF Inv
    <3>2. Result(call[c], n) \in Good(Kind(call[c].texts[1]), Backed)
      BY <2>1, <3>1 DEF Told, Done
    <3>3. Key[call[c].texts[n]] \in Backed
      BY <3>2 DEF Good, Result
    <3> QED
      BY <3>3 DEF Backed
  <2> QED
    BY <2>2, <2>3
<1> QED
  BY <1>1, Invariant, PTL

\* However many calls overlap, fail, are lost or met by a reset: the requests of the
\* metrics, and those wiped out under way, are the hits and misses, and the single
\* calls under way.
THEOREM CountsAddUp == Spec => []CountsAdd
<1>1. Inv => CountsAdd
  BY DEF Inv, CountsSound, CountsAdd, Open, Balance
<1> QED
  BY <1>1, Invariant, PTL

=============================================================================
