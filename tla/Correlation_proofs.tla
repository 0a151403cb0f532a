------------------------ MODULE Correlation_proofs ------------------------
(***************************************************************************)
(* Theorems about Correlation, for any forest of goals, any cosines,       *)
(* weights and threshold, and any length of the answer: the loops compute  *)
(* the worth of each goal, the answer is the top of the ranking, and the   *)
(* walk up the parents ends.                                               *)
(***************************************************************************)
EXTENDS Correlation, Folding

\* No goal has two entries.
Distinct(s) == \A j, k \in 1..Len(s) : s[j].goal = s[k].goal => j = k

Maps == {s \in Seq(Match) : Distinct(s)}

\* s has the goal of m with a score as great, or greater.
Above(s, m) == \E k \in 1..Len(s) : s[k].goal = m.goal /\ s[k].score >= m.score

Entries(s) == {s[k] : k \in 1..Len(s)}

(***************************************************************************)
(* PutMax                                                                  *)
(***************************************************************************)

LEMMA MapShape ==
    ASSUME NEW s \in Seq(Match)
    PROVE  /\ Len(s) \in Nat /\ DOMAIN s = 1..Len(s)
           /\ \A k \in 1..Len(s) : s[k] \in Match /\ s[k].goal \in Goals /\ s[k].score \in Nat
<1>1. Len(s) \in Nat /\ DOMAIN s = 1..Len(s) /\ \A k \in 1..Len(s) : s[k] \in Match
  OBVIOUS
<1>2. \A m \in Match : m.goal \in Goals /\ m.score \in Nat
  BY ScoreAssumption DEF Match
<1> QED
  BY <1>1, <1>2

LEMMA PutMaxPuts ==
    ASSUME NEW s \in Maps, NEW m \in Match
    PROVE  /\ PutMax(s, m) \in Maps
           /\ Above(PutMax(s, m), m)
           /\ \A n : Above(s, n) /\ n.score \in Nat => Above(PutMax(s, m), n)
           /\ Entries(PutMax(s, m)) \subseteq Entries(s) \union {m}
<1>0. s \in Seq(Match) /\ Distinct(s) /\ m.goal \in Goals /\ m.score \in Nat
  BY ScoreAssumption DEF Maps, Match
<1>1. /\ Len(s) \in Nat /\ DOMAIN s = 1..Len(s)
      /\ \A k \in 1..Len(s) : s[k] \in Match /\ s[k].goal \in Goals /\ s[k].score \in Nat
  BY <1>0, MapShape
<1>2. CASE ~Has(s, m.goal)
  <2> DEFINE t == Append(s, m)
  <2>1. PutMax(s, m) = t
    BY <1>2 DEF PutMax
  <2>2. t \in Seq(Match) /\ Len(t) = Len(s) + 1 /\ t[Len(s) + 1] = m
        /\ \A k \in 1..Len(s) : t[k] = s[k]
    BY <1>0
  <2>3. \A k \in 1..Len(s) : s[k].goal # m.goal
    BY <1>1, <1>2 DEF Has
  <2> HIDE DEF t
  <2>4. \A k \in 1..Len(t) : k \in 1..Len(s) \/ k = Len(s) + 1
    BY <1>1, <2>2
  <2>5. Distinct(t)
    BY <1>0, <2>2, <2>3, <2>4 DEF Distinct
  <2>6. Above(t, m)
    BY <1>0, <1>1, <2>2 DEF Above
  <2>7. \A n : Above(s, n) => Above(t, n)
    BY <1>1, <2>2 DEF Above
  <2>8. Entries(t) \subseteq Entries(s) \union {m}
    BY <2>2, <2>4 DEF Entries
  <2> QED
    BY <2>1, <2>2, <2>5, <2>6, <2>7, <2>8 DEF Maps
<1>3. CASE Has(s, m.goal)
  <2> DEFINE p == Index(s, m.goal)
  <2>1. p \in 1..Len(s) /\ s[p].goal = m.goal
    BY <1>1, <1>3 DEF Has, Index
  <2> HIDE DEF p
  <2>2. CASE s[p].score < m.score
    <3> DEFINE t == [s EXCEPT ![p] = m]
    <3>1. PutMax(s, m) = t
      BY <1>3, <2>2 DEF PutMax, p
    <3>2. t \in Seq(Match) /\ Len(t) = Len(s) /\ t[p] = m
          /\ \A k \in 1..Len(s) : k # p => t[k] = s[k]
      BY <1>0, <1>1, <2>1
    <3> HIDE DEF t
    <3>3. \A k \in 1..Len(s) : t[k].goal = s[k].goal
      BY <2>1, <3>2
    <3>4. Distinct(t)
      BY <1>0, <3>2, <3>3 DEF Distinct
    <3>5. Above(t, m)
      BY <1>0, <2>1, <3>2 DEF Above
    <3>6. ASSUME NEW n, Above(s, n), n.score \in Nat PROVE Above(t, n)
      <4>1. PICK k \in 1..Len(s) : s[k].goal = n.goal /\ s[k].score >= n.score
        BY <3>6 DEF Above
      <4>2. t[k].score >= s[k].score /\ t[k].score \in Nat
        BY <1>0, <1>1, <2>1, <2>2, <3>2
      <4>3. t[k].score >= n.score
        BY <1>1, <3>6, <4>1, <4>2
      <4> QED
        BY <3>2, <3>3, <4>1, <4>3 DEF Above
    <3>7. Entries(t) \subseteq Entries(s) \union {m}
      BY <3>2 DEF Entries
    <3> QED
      BY <3>1, <3>2, <3>4, <3>5, <3>6, <3>7 DEF Maps
  <2>3. CASE ~(s[p].score < m.score)
    <3>1. PutMax(s, m) = s
      BY <1>3, <2>3 DEF PutMax, p
    <3>2. Above(s, m)
      BY <1>0, <1>1, <2>1, <2>3 DEF Above
    <3> QED
      BY <3>1, <3>2
  <2> QED
    BY <2>2, <2>3
<1> QED
  BY <1>2, <1>3

(***************************************************************************)
(* Insert                                                                  *)
(***************************************************************************)

LEMMA Inserted ==
    ASSUME NEW S, NEW s \in Seq(S), NEW p \in 1..(Len(s) + 1), NEW x \in S
    PROVE  /\ InsertAt(s, p, x) \in Seq(S) /\ Len(InsertAt(s, p, x)) = Len(s) + 1
           /\ \A k \in 1..(Len(s) + 1) :
                 InsertAt(s, p, x)[k] = IF k < p THEN s[k] ELSE IF k = p THEN x ELSE s[k - 1]
<1> DEFINE u == SubSeq(s, 1, p - 1)
           v == SubSeq(s, p, Len(s))
<1>1. u \in Seq(S) /\ Len(u) = p - 1 /\ \A k \in 1..(p - 1) : u[k] = s[k]
  OBVIOUS
<1>2. v \in Seq(S) /\ Len(v) = Len(s) - p + 1 /\ \A k \in 1..(Len(s) - p + 1) : v[k] = s[p + k - 1]
  OBVIOUS
<1>3. InsertAt(s, p, x) = (u \o <<x>>) \o v
  BY DEF InsertAt
<1> HIDE DEF u, v
<1>4. u \o <<x>> \in Seq(S) /\ Len(u \o <<x>>) = p
      /\ \A k \in 1..p : (u \o <<x>>)[k] = IF k < p THEN s[k] ELSE x
  BY <1>1
<1> DEFINE w == u \o <<x>>
<1> HIDE DEF w
<1>5. w \in Seq(S) /\ Len(w) = p /\ \A k \in 1..p : w[k] = IF k < p THEN s[k] ELSE x
  BY <1>4 DEF w
<1>6. w \o v \in Seq(S) /\ Len(w \o v) = Len(s) + 1
  BY <1>2, <1>5
<1>7. ASSUME NEW k \in 1..(Len(s) + 1)
      PROVE  (w \o v)[k] = IF k < p THEN s[k] ELSE IF k = p THEN x ELSE s[k - 1]
  <2>1. CASE k <= p
    BY <1>2, <1>5, <2>1
  <2>2. CASE k > p
    <3>1. (w \o v)[k] = v[k - p] /\ k - p \in 1..(Len(s) - p + 1)
      BY <1>2, <1>5, <2>2
    <3> QED
      BY <1>2, <2>2, <3>1
  <2>3. Len(s) \in Nat
    OBVIOUS
  <2>4. k <= p \/ k > p
    BY <2>3
  <2> QED
    BY <2>1, <2>2, <2>4
<1> QED
  BY <1>3, <1>6, <1>7 DEF w

\* The weights and scores that the ranking compares.
Weighted == goal \in [Goals -> [parent : Goals \union {Absent, None}, weight : Nat, cosine : 0..Top]]

LEMMA EffectiveType == ASSUME Weighted, NEW m \in Match PROVE Effective(m) \in Nat
<1>1. m.score \in Nat /\ goal[m.goal].weight \in Nat
  BY ScoreAssumption DEF Match, Weighted
<1> QED
  BY <1>1 DEF Effective

Falling(s) == \A j, k \in 1..Len(s) : j <= k => Effective(s[j]) >= Effective(s[k])

LEMMA InsertPuts ==
    ASSUME Weighted, NEW s \in Seq(Match), NEW m \in Match
    PROVE  /\ Insert(s, m) \in Seq(Match)
           /\ Entries(Insert(s, m)) = Entries(s) \union {m}
           /\ Falling(s) => Falling(Insert(s, m))
           /\ Distinct(s) /\ (\A k \in 1..Len(s) : s[k].goal # m.goal) => Distinct(Insert(s, m))
<1> DEFINE after == {k \in DOMAIN s : Effective(s[k]) < Effective(m)}
           p == IF after = {} THEN Len(s) + 1 ELSE CHOOSE k \in after : \A j \in after : k <= j
           t == InsertAt(s, p, m)
<1>1. /\ Len(s) \in Nat /\ DOMAIN s = 1..Len(s) /\ Effective(m) \in Nat
      /\ \A k \in 1..Len(s) : Effective(s[k]) \in Nat
  BY MapShape, EffectiveType
<1>2. /\ p \in 1..(Len(s) + 1)
      /\ \A k \in 1..Len(s) : k < p => Effective(s[k]) >= Effective(m)
      /\ p <= Len(s) => Effective(s[p]) < Effective(m)
  <2>1. CASE after = {}
    BY <1>1, <2>1
  <2>2. CASE after # {}
    <3>1. after \in SUBSET Nat /\ after \subseteq 1..Len(s)
      BY <1>1
    <3>2. \E k \in after : \A j \in after : k <= j
      <4> HIDE DEF after
      <4> QED
        BY <2>2, <3>1, Least
    <3>3. p \in after /\ \A j \in after : p <= j
      BY <2>2, <3>2
    <3> HIDE DEF p
    <3>4. ASSUME NEW k \in 1..Len(s), k < p PROVE k \notin after
      BY <3>1, <3>3, <3>4
    <3> QED
      BY <1>1, <3>1, <3>3, <3>4
  <2> QED
    BY <2>1, <2>2
<1>3. Insert(s, m) = t
  BY DEF Insert
<1> HIDE DEF p, after
<1>4. /\ t \in Seq(Match) /\ Len(t) = Len(s) + 1
      /\ \A k \in 1..(Len(s) + 1) : t[k] = IF k < p THEN s[k] ELSE IF k = p THEN m ELSE s[k - 1]
  BY <1>2, Inserted
<1> HIDE DEF t
<1>5. ASSUME NEW k \in 1..Len(t)
      PROVE  \/ k < p /\ k \in 1..Len(s) /\ t[k] = s[k]
             \/ k = p /\ t[k] = m
             \/ k > p /\ k - 1 \in 1..Len(s) /\ t[k] = s[k - 1]
  BY <1>1, <1>2, <1>4
<1>6. Entries(t) = Entries(s) \union {m}
  <2>1. Entries(t) \subseteq Entries(s) \union {m}
    BY <1>5 DEF Entries
  <2>2. m \in Entries(t)
    BY <1>1, <1>2, <1>4 DEF Entries
  <2>3. ASSUME NEW k \in 1..Len(s) PROVE s[k] \in Entries(t)
    <3>1. CASE k < p
      BY <1>1, <1>4, <3>1 DEF Entries
    <3>2. CASE ~(k < p)
      <4>1. k + 1 \in 1..Len(t) /\ ~(k + 1 < p) /\ k + 1 # p /\ (k + 1) - 1 = k
        BY <1>1, <1>2, <1>4, <3>2
      <4>2. t[k + 1] = s[k]
        BY <1>4, <4>1
      <4> QED
        BY <4>1, <4>2 DEF Entries
    <3> QED
      BY <3>1, <3>2
  <2>4. Entries(s) \subseteq Entries(t)
    BY <2>3 DEF Entries
  <2> QED
    BY <2>1, <2>2, <2>4
<1>7. ASSUME Falling(s), NEW j \in 1..Len(t), NEW k \in 1..Len(t), j <= k
      PROVE  Effective(t[j]) >= Effective(t[k])
  <2>1. \A a, b \in 1..Len(s) : a <= b => Effective(s[a]) >= Effective(s[b])
    BY <1>7 DEF Falling
  <2>2. \A a \in 1..Len(s) : a >= p => Effective(m) >= Effective(s[a])
    <3> SUFFICES ASSUME NEW a \in 1..Len(s), a >= p PROVE Effective(m) >= Effective(s[a])
      OBVIOUS
    <3>1. p \in 1..Len(s) /\ p <= a /\ p <= Len(s)
      BY <1>1, <1>2
    <3>2. Effective(s[p]) >= Effective(s[a]) /\ Effective(s[p]) < Effective(m)
      BY <1>2, <2>1, <3>1
    <3> QED
      BY <1>1, <3>1, <3>2
  <2>3. CASE j < p
    <3>1. j \in 1..Len(s) /\ t[j] = s[j]
      BY <1>2, <1>5, <2>3
    <3>2. CASE k < p
      BY <1>5, <1>7, <2>1, <3>1, <3>2
    <3>3. CASE k = p
      BY <1>2, <1>5, <2>3, <3>1, <3>3
    <3>4. CASE k > p
      <4>1. k - 1 \in 1..Len(s) /\ t[k] = s[k - 1] /\ j <= k - 1
        BY <1>2, <1>5, <2>3, <3>4
      <4> QED
        BY <2>1, <3>1, <4>1
    <3> QED
      BY <1>2, <3>2, <3>3, <3>4
  <2>4. CASE j = p
    <3>1. t[j] = m
      BY <1>5, <2>4
    <3>2. CASE k = p
      BY <1>1, <1>5, <3>1, <3>2
    <3>3. CASE k > p
      <4>1. k - 1 \in 1..Len(s) /\ t[k] = s[k - 1] /\ k - 1 >= p
        BY <1>2, <1>5, <3>3
      <4> QED
        BY <2>2, <3>1, <4>1
    <3> QED
      BY <1>2, <1>7, <2>4, <3>2, <3>3
  <2>5. CASE j > p
    <3>1. /\ j - 1 \in 1..Len(s) /\ t[j] = s[j - 1] /\ k > p
          /\ k - 1 \in 1..Len(s) /\ t[k] = s[k - 1] /\ j - 1 <= k - 1
      BY <1>2, <1>5, <1>7, <2>5
    <3> QED
      BY <2>1, <3>1
  <2> QED
    BY <1>2, <2>3, <2>4, <2>5
<1>8. ASSUME Distinct(s), \A k \in 1..Len(s) : s[k].goal # m.goal,
             NEW j \in 1..Len(t), NEW k \in 1..Len(t), t[j].goal = t[k].goal
      PROVE  j = k
  <2>1. \A a, b \in 1..Len(s) : s[a].goal = s[b].goal => a = b
    BY <1>8 DEF Distinct
  <2>2. ASSUME j = p PROVE k = p
    BY <1>5, <1>8, <2>2
  <2>3. ASSUME k = p PROVE j = p
    BY <1>5, <1>8, <2>3
  <2>4. ASSUME j # p, k # p PROVE j = k
    <3>1. CASE j < p /\ k < p
      BY <1>2, <1>5, <1>8, <2>1, <3>1
    <3>2. CASE j < p /\ k > p
      <4>1. j \in 1..Len(s) /\ t[j] = s[j] /\ k - 1 \in 1..Len(s) /\ t[k] = s[k - 1]
        BY <1>2, <1>5, <3>2
      <4>2. j = k - 1
        BY <1>8, <2>1, <4>1
      <4> QED
        BY <1>2, <3>2, <4>2
    <3>3. CASE j > p /\ k < p
      <4>1. k \in 1..Len(s) /\ t[k] = s[k] /\ j - 1 \in 1..Len(s) /\ t[j] = s[j - 1]
        BY <1>2, <1>5, <3>3
      <4>2. k = j - 1
        BY <1>8, <2>1, <4>1
      <4> QED
        BY <1>2, <3>3, <4>2
    <3>4. CASE j > p /\ k > p
      <4>1. k - 1 \in 1..Len(s) /\ t[k] = s[k - 1] /\ j - 1 \in 1..Len(s) /\ t[j] = s[j - 1]
        BY <1>2, <1>5, <3>4
      <4>2. k - 1 = j - 1
        BY <1>8, <2>1, <4>1
      <4> QED
        BY <4>2
    <3> QED
      BY <1>2, <2>4, <3>1, <3>2, <3>3, <3>4
  <2> QED
    BY <2>2, <2>3, <2>4
<1> QED
  BY <1>3, <1>4, <1>6, <1>7, <1>8 DEF Falling, Distinct


(***************************************************************************)
(* The three folds, as the states of a loop.                               *)
(***************************************************************************)

Found(found, g) ==
    IF goal[g].cosine < minScore THEN found
    ELSE Append(found, [goal |-> g, score |-> goal[g].cosine])

LEMMA ListedShape == Listed \in Seq(Goals) /\ Len(Listed) \in Nat /\ DOMAIN Listed = 1..Len(Listed)
                     /\ \A k \in 1..Len(Listed) : Listed[k] \in Goals
<1>1. Listed \in Seq(Goals)
  BY ListedAssumption
<1> QED
  BY <1>1

LEMMA DirectLoop ==
    ASSUME Weighted
    PROVE  \E a \in [0..Len(Listed) -> Seq(Match)] :
              /\ a[0] = <<>> /\ a[Len(Listed)] = DirectMatches
              /\ \A k \in 1..Len(Listed) : a[k] = Found(a[k - 1], Listed[k])
<1> DEFINE n == Len(Listed)
           X == Seq(Match)
           b == <<>>
           F == [k \in 1..n |-> [y \in X |-> Found(y, Listed[k])]]
           Fold(h) == h = [t \in SUBSET DOMAIN Listed |->
                             IF t = {} THEN <<>> ELSE Found(h[t \ {Max(t)}], Listed[Max(t)])]
           h == CHOOSE g : Fold(g)
<1>1. n \in Nat /\ DOMAIN Listed = 1..n /\ n = Len(Listed)
  BY ListedShape
<1>0. n \in Nat /\ b \in X /\ b = <<>>
  BY <1>1
<1>8. DirectMatches = h[1..n]
  BY <1>1, Zenon DEF DirectMatches, Found, FoldLeft, MapThenFoldSet
<1>2. \A y \in X, k \in 1..n : Found(y, Listed[k]) \in X
  <2> SUFFICES ASSUME NEW y \in X, NEW k \in 1..n PROVE Found(y, Listed[k]) \in X
    OBVIOUS
  <2>1. [goal |-> Listed[k], score |-> goal[Listed[k]].cosine] \in Match
    BY ListedShape DEF Match, Weighted
  <2> QED
    BY <2>1 DEF Found
<1> HIDE DEF n, b
<1>3. F \in [1..n -> [X -> X]] /\ \A y \in X, k \in 1..n : F[k][y] = Found(y, Listed[k])
  <2> HIDE DEF X
  <2> QED
    BY <1>2
<1> HIDE DEF F, X
<1>4. PICK g \in [SUBSET (1..n) -> X] : IsFold(g, n, b, F)
  BY <1>0, <1>3, FoldExists, Zenon
<1>5. ASSUME NEW t \in SUBSET (1..n)
      PROVE  g[t] = IF t = {} THEN <<>> ELSE Found(g[t \ {Max(t)}], Listed[Max(t)])
  <2>1. g[t] = IF t = {} THEN <<>> ELSE F[Max(t)][g[t \ {Max(t)}]]
    BY <1>0, <1>4 DEF IsFold
  <2>2. t # {} => Max(t) \in 1..n /\ g[t \ {Max(t)}] \in X
    BY <1>1, GreatestIn
  <2> QED
    BY <1>3, <2>1, <2>2
<1>6. Fold(g)
  BY <1>1, <1>5
<1>7. Fold(h)
  <2> HIDE DEF Fold
  <2> QED
    BY <1>6
<1> HIDE DEF h
<1>9. h[{}] = b
  BY <1>0, <1>1, <1>7
<1>10. ASSUME NEW k \in 1..n, h[1..(k - 1)] \in X
       PROVE  h[1..k] = F[k][h[1..(k - 1)]]
  <2>1. 1..k # {} /\ Max(1..k) = k /\ (1..k) \ {Max(1..k)} = 1..(k - 1) /\ 1..k \in SUBSET DOMAIN Listed
    BY <1>1, WholeLast
  <2>2. h[1..k] = Found(h[1..(k - 1)], Listed[k])
    BY <1>7, <2>1
  <2> QED
    BY <1>3, <1>10, <2>2
<1>11. PICK a \in [0..n -> X] : IsTrace(a, n, b, F) /\ a[n] = h[1..n]
  <2>1. Follows(h, n, X, F)
    BY <1>10 DEF Follows
  <2>2. F \in [1..n -> [X -> X]] /\ n \in Nat /\ b \in X /\ h[{}] = b
    BY <1>0, <1>3, <1>9
  <2> HIDE DEF F, X, n, h, b, Fold
  <2> QED
    BY <2>1, <2>2, FoldTrace
<1>12. ASSUME NEW k \in 1..n PROVE a[k] = Found(a[k - 1], Listed[k])
  <2>1. a[k] = F[k][a[k - 1]] /\ a[k - 1] \in X
    BY <1>0, <1>11 DEF IsTrace
  <2> QED
    BY <1>3, <2>1
<1>13. a[0] = <<>> /\ a[n] = DirectMatches
  BY <1>0, <1>8, <1>11 DEF IsTrace
<1> HIDE DEF h, Fold
<1> QED
  BY <1>1, <1>11, <1>12, <1>13 DEF X

MergeOf(s) == FoldLeft(PutMax, <<>>, s)

LEMMA MergeLoop ==
    ASSUME NEW s \in Seq(Match)
    PROVE  \E a \in [0..Len(s) -> Maps] :
              /\ a[0] = <<>> /\ a[Len(s)] = MergeOf(s)
              /\ \A k \in 1..Len(s) : a[k] = PutMax(a[k - 1], s[k])
<1> DEFINE n == Len(s)
           X == Maps
           b == <<>>
           F == [k \in 1..n |-> [y \in X |-> PutMax(y, s[k])]]
           Fold(h) == h = [t \in SUBSET DOMAIN s |->
                             IF t = {} THEN <<>> ELSE PutMax(h[t \ {Max(t)}], s[Max(t)])]
           h == CHOOSE g : Fold(g)
<1>1. n \in Nat /\ DOMAIN s = 1..n /\ n = Len(s)
  OBVIOUS
<1>0. n \in Nat /\ b \in X /\ b = <<>>
  BY <1>1 DEF Maps, Distinct
<1>8. MergeOf(s) = h[1..n]
  BY <1>1, Zenon DEF MergeOf, FoldLeft, MapThenFoldSet
<1>2. \A y \in X, k \in 1..n : PutMax(y, s[k]) \in X
  BY PutMaxPuts
<1> HIDE DEF n, b
<1>3. F \in [1..n -> [X -> X]] /\ \A y \in X, k \in 1..n : F[k][y] = PutMax(y, s[k])
  <2> HIDE DEF X
  <2> QED
    BY <1>2
<1> HIDE DEF F, X
<1>4. PICK g \in [SUBSET (1..n) -> X] : IsFold(g, n, b, F)
  BY <1>0, <1>3, FoldExists, Zenon
<1>5. ASSUME NEW t \in SUBSET (1..n)
      PROVE  g[t] = IF t = {} THEN <<>> ELSE PutMax(g[t \ {Max(t)}], s[Max(t)])
  <2>1. g[t] = IF t = {} THEN <<>> ELSE F[Max(t)][g[t \ {Max(t)}]]
    BY <1>0, <1>4 DEF IsFold
  <2>2. t # {} => Max(t) \in 1..n /\ g[t \ {Max(t)}] \in X
    BY <1>1, GreatestIn
  <2> QED
    BY <1>3, <2>1, <2>2
<1>6. Fold(g)
  BY <1>1, <1>5
<1>7. Fold(h)
  <2> HIDE DEF Fold
  <2> QED
    BY <1>6
<1> HIDE DEF h
<1>9. h[{}] = b
  BY <1>0, <1>1, <1>7
<1>10. ASSUME NEW k \in 1..n, h[1..(k - 1)] \in X
       PROVE  h[1..k] = F[k][h[1..(k - 1)]]
  <2>1. 1..k # {} /\ Max(1..k) = k /\ (1..k) \ {Max(1..k)} = 1..(k - 1) /\ 1..k \in SUBSET DOMAIN s
    BY <1>1, WholeLast
  <2>2. h[1..k] = PutMax(h[1..(k - 1)], s[k])
    BY <1>7, <2>1
  <2> QED
    BY <1>3, <1>10, <2>2
<1>11. PICK a \in [0..n -> X] : IsTrace(a, n, b, F) /\ a[n] = h[1..n]
  <2>1. Follows(h, n, X, F)
    BY <1>10 DEF Follows
  <2>2. F \in [1..n -> [X -> X]] /\ n \in Nat /\ b \in X /\ h[{}] = b
    BY <1>0, <1>3, <1>9
  <2> HIDE DEF F, X, n, h, b, Fold
  <2> QED
    BY <2>1, <2>2, FoldTrace
<1>12. ASSUME NEW k \in 1..n PROVE a[k] = PutMax(a[k - 1], s[k])
  <2>1. a[k] = F[k][a[k - 1]] /\ a[k - 1] \in X
    BY <1>0, <1>11 DEF IsTrace
  <2> QED
    BY <1>3, <2>1
<1>13. a[0] = <<>> /\ a[n] = MergeOf(s)
  BY <1>0, <1>8, <1>11 DEF IsTrace
<1> HIDE DEF h, Fold
<1> QED
  BY <1>1, <1>11, <1>12, <1>13 DEF X

LEMMA RankLoop ==
    ASSUME Weighted, NEW s \in Seq(Match)
    PROVE  \E a \in [0..Len(s) -> Seq(Match)] :
              /\ a[0] = <<>> /\ a[Len(s)] = Ranked(s)
              /\ \A k \in 1..Len(s) : a[k] = Insert(a[k - 1], s[k])
<1> DEFINE n == Len(s)
           X == Seq(Match)
           b == <<>>
           F == [k \in 1..n |-> [y \in X |-> Insert(y, s[k])]]
           Fold(h) == h = [t \in SUBSET DOMAIN s |->
                             IF t = {} THEN <<>> ELSE Insert(h[t \ {Max(t)}], s[Max(t)])]
           h == CHOOSE g : Fold(g)
<1>1. n \in Nat /\ DOMAIN s = 1..n /\ n = Len(s)
  OBVIOUS
<1>0. n \in Nat /\ b \in X /\ b = <<>>
  BY <1>1
<1>8. Ranked(s) = h[1..n]
  BY <1>1, Zenon DEF Ranked, FoldLeft, MapThenFoldSet
<1>2. \A y \in X, k \in 1..n : Insert(y, s[k]) \in X
  BY InsertPuts
<1> HIDE DEF n, b
<1>3. F \in [1..n -> [X -> X]] /\ \A y \in X, k \in 1..n : F[k][y] = Insert(y, s[k])
  <2> HIDE DEF X
  <2> QED
    BY <1>2
<1> HIDE DEF F, X
<1>4. PICK g \in [SUBSET (1..n) -> X] : IsFold(g, n, b, F)
  BY <1>0, <1>3, FoldExists, Zenon
<1>5. ASSUME NEW t \in SUBSET (1..n)
      PROVE  g[t] = IF t = {} THEN <<>> ELSE Insert(g[t \ {Max(t)}], s[Max(t)])
  <2>1. g[t] = IF t = {} THEN <<>> ELSE F[Max(t)][g[t \ {Max(t)}]]
    BY <1>0, <1>4 DEF IsFold
  <2>2. t # {} => Max(t) \in 1..n /\ g[t \ {Max(t)}] \in X
    BY <1>1, GreatestIn
  <2> QED
    BY <1>3, <2>1, <2>2
<1>6. Fold(g)
  BY <1>1, <1>5
<1>7. Fold(h)
  <2> HIDE DEF Fold
  <2> QED
    BY <1>6
<1> HIDE DEF h
<1>9. h[{}] = b
  BY <1>0, <1>1, <1>7
<1>10. ASSUME NEW k \in 1..n, h[1..(k - 1)] \in X
       PROVE  h[1..k] = F[k][h[1..(k - 1)]]
  <2>1. 1..k # {} /\ Max(1..k) = k /\ (1..k) \ {Max(1..k)} = 1..(k - 1) /\ 1..k \in SUBSET DOMAIN s
    BY <1>1, WholeLast
  <2>2. h[1..k] = Insert(h[1..(k - 1)], s[k])
    BY <1>7, <2>1
  <2> QED
    BY <1>3, <1>10, <2>2
<1>11. PICK a \in [0..n -> X] : IsTrace(a, n, b, F) /\ a[n] = h[1..n]
  <2>1. Follows(h, n, X, F)
    BY <1>10 DEF Follows
  <2>2. F \in [1..n -> [X -> X]] /\ n \in Nat /\ b \in X /\ h[{}] = b
    BY <1>0, <1>3, <1>9
  <2> HIDE DEF F, X, n, h, b, Fold
  <2> QED
    BY <2>1, <2>2, FoldTrace
<1>12. ASSUME NEW k \in 1..n PROVE a[k] = Insert(a[k - 1], s[k])
  <2>1. a[k] = F[k][a[k - 1]] /\ a[k - 1] \in X
    BY <1>0, <1>11 DEF IsTrace
  <2> QED
    BY <1>3, <2>1
<1>13. a[0] = <<>> /\ a[n] = Ranked(s)
  BY <1>0, <1>8, <1>11 DEF IsTrace
<1> HIDE DEF h, Fold
<1> QED
  BY <1>1, <1>11, <1>12, <1>13 DEF X

(***************************************************************************)
(* What the three loops compute.                                           *)
(***************************************************************************)

\* Every direct match is a goal at or over the threshold, with its own cosine.
Fair(d) == \A k \in 1..Len(d) : d[k].score = goal[d[k].goal].cosine /\ d[k].score >= minScore

Holds(d, g) == \E k \in 1..Len(d) : d[k].goal = g

Given(d) == Fair(d) /\ \A g \in Goals : goal[g].cosine >= minScore => Holds(d, g)

LEMMA FoundKeeps ==
    ASSUME Weighted, minScore \in Nat, NEW d \in Seq(Match), Fair(d), NEW g \in Goals
    PROVE  /\ Fair(Found(d, g))
           /\ \A h : Holds(d, h) => Holds(Found(d, g), h)
           /\ goal[g].cosine >= minScore => Holds(Found(d, g), g)
<1> DEFINE c == goal[g].cosine
           m == [goal |-> g, score |-> c]
           e == Append(d, m)
<1>1. c \in Nat /\ m \in Match /\ m.goal = g /\ m.score = c
  BY ScoreAssumption DEF Weighted, Match
<1>2. CASE c < minScore
  BY <1>1, <1>2 DEF Found
<1>3. CASE ~(c < minScore)
  <2>1. Found(d, g) = e
    BY <1>3 DEF Found
  <2>2. c >= minScore
    BY <1>1, <1>3
  <2> HIDE DEF m
  <2>3. Len(d) \in Nat /\ Len(e) = Len(d) + 1 /\ e[Len(d) + 1] = m /\ \A k \in 1..Len(d) : e[k] = d[k]
    BY <1>1
  <2> HIDE DEF e, c
  <2>4. \A k \in 1..Len(e) : k \in 1..Len(d) \/ k = Len(d) + 1
    BY <2>3
  <2>5. Len(d) + 1 \in 1..Len(e) /\ \A k \in 1..Len(d) : k \in 1..Len(e)
    BY <2>3
  <2>6. Fair(e)
    BY <1>1, <2>2, <2>3, <2>4 DEF Fair, c
  <2>7. Holds(e, g)
    BY <1>1, <2>3, <2>5 DEF Holds
  <2>8. \A h : Holds(d, h) => Holds(e, h)
    BY <2>3, <2>5 DEF Holds
  <2> QED
    BY <2>1, <2>6, <2>7, <2>8
<1> QED
  BY <1>2, <1>3

LEMMA DirectIsGiven ==
    ASSUME Weighted, minScore \in Nat
    PROVE  DirectMatches \in Seq(Match) /\ Given(DirectMatches)
<1> DEFINE n == Len(Listed)
<1>1. PICK a \in [0..n -> Seq(Match)] :
         /\ a[0] = <<>> /\ a[n] = DirectMatches
         /\ \A k \in 1..n : a[k] = Found(a[k - 1], Listed[k])
  BY DirectLoop
<1>2. n \in Nat /\ \A k \in 1..n : Listed[k] \in Goals
  BY ListedShape
<1>3. \A g \in Goals : \E k \in 1..n : g = Listed[k]
  BY ListedShape DEF Goals, ToSet
<1> HIDE DEF n
<1> DEFINE Upto(k) == Fair(a[k])
                      /\ \A j \in 1..k : goal[Listed[j]].cosine >= minScore => Holds(a[k], Listed[j])
           T == {k \in 0..n : Upto(k)}
<1>4. 0 \in T
  <2>1. Fair(<<>>)
    BY DEF Fair
  <2> QED
    BY <1>1, <1>2, <2>1
<1>5. ASSUME NEW k \in 0..(n - 1), k \in T PROVE k + 1 \in T
  <2>1. k + 1 \in 1..n /\ (k + 1) - 1 = k /\ k + 1 \in 0..n /\ k \in 0..n
    BY <1>2
  <2>2. a[k] \in Seq(Match) /\ Listed[k + 1] \in Goals /\ a[k + 1] = Found(a[k], Listed[k + 1])
    BY <1>1, <1>2, <2>1
  <2>3. Upto(k)
    BY <1>5
  <2>4. /\ Fair(a[k + 1])
        /\ \A h : Holds(a[k], h) => Holds(a[k + 1], h)
        /\ goal[Listed[k + 1]].cosine >= minScore => Holds(a[k + 1], Listed[k + 1])
    BY <2>2, <2>3, FoundKeeps
  <2>5. \A j \in 1..(k + 1) : j \in 1..k \/ j = k + 1
    BY <2>1
  <2>6. Upto(k + 1)
    BY <2>3, <2>4, <2>5
  <2> HIDE DEF Upto
  <2> QED
    BY <2>1, <2>6
<1>6. 0..n \subseteq T
  <2> HIDE DEF T
  <2> QED
    BY <1>2, <1>4, <1>5, InductTo
<1>7. n \in 0..n
  BY <1>2
<1>8. Upto(n)
  BY <1>6, <1>7
<1> QED
  BY <1>1, <1>3, <1>7, <1>8 DEF Given

LEMMA MergeKeeps ==
    ASSUME NEW s \in Seq(Match)
    PROVE  /\ MergeOf(s) \in Maps
           /\ Entries(MergeOf(s)) \subseteq Entries(s)
           /\ \A k \in 1..Len(s) : Above(MergeOf(s), s[k])
<1> DEFINE n == Len(s)
<1>1. PICK a \in [0..n -> Maps] :
         a[0] = <<>> /\ a[n] = MergeOf(s) /\ \A k \in 1..n : a[k] = PutMax(a[k - 1], s[k])
  BY MergeLoop
<1>2. n \in Nat /\ \A k \in 1..n : s[k] \in Match /\ s[k].score \in Nat
  BY MapShape
<1>3. n = Len(s)
  OBVIOUS
<1> HIDE DEF n
<1> DEFINE Upto(k) == Entries(a[k]) \subseteq Entries(s) /\ \A j \in 1..k : Above(a[k], s[j])
           T == {k \in 0..n : Upto(k)}
<1>4. 0 \in T
  <2>1. Entries(<<>>) = {}
    BY DEF Entries
  <2> QED
    BY <1>1, <1>2, <2>1
<1>5. ASSUME NEW k \in 0..(n - 1), k \in T PROVE k + 1 \in T
  <2>1. k + 1 \in 1..n /\ (k + 1) - 1 = k /\ k + 1 \in 0..n /\ k \in 0..n
    BY <1>2
  <2>2. a[k] \in Maps /\ s[k + 1] \in Match /\ a[k + 1] = PutMax(a[k], s[k + 1])
    BY <1>1, <1>2, <2>1
  <2>3. Upto(k)
    BY <1>5
  <2>4. /\ Above(a[k + 1], s[k + 1])
        /\ \A m : Above(a[k], m) /\ m.score \in Nat => Above(a[k + 1], m)
        /\ Entries(a[k + 1]) \subseteq Entries(a[k]) \union {s[k + 1]}
    BY <2>2, PutMaxPuts
  <2>5. \A j \in 1..(k + 1) : j \in 1..k \/ j = k + 1
    BY <2>1
  <2>6. \A j \in 1..k : j \in 1..n
    BY <1>2, <2>1
  <2>7. s[k + 1] \in Entries(s)
    BY <1>3, <2>1 DEF Entries
  <2>8. Upto(k + 1)
    BY <1>2, <2>3, <2>4, <2>5, <2>6, <2>7
  <2> HIDE DEF Upto
  <2> QED
    BY <2>1, <2>8
<1>6. 0..n \subseteq T
  <2> HIDE DEF T
  <2> QED
    BY <1>2, <1>4, <1>5, InductTo
<1>7. n \in 0..n
  BY <1>2
<1>8. Upto(n)
  BY <1>6, <1>7
<1> QED
  BY <1>1, <1>3, <1>7, <1>8

LEMMA RankedIsRanking ==
    ASSUME Weighted, NEW s \in Maps
    PROVE  /\ Ranked(s) \in Seq(Match) /\ Entries(Ranked(s)) = Entries(s)
           /\ Falling(Ranked(s)) /\ Distinct(Ranked(s))
<1> DEFINE n == Len(s)
<1>1. s \in Seq(Match) /\ Distinct(s)
  BY DEF Maps
<1>2. PICK a \in [0..n -> Seq(Match)] :
         a[0] = <<>> /\ a[n] = Ranked(s) /\ \A k \in 1..n : a[k] = Insert(a[k - 1], s[k])
  BY <1>1, RankLoop
<1>3. n \in Nat /\ n = Len(s) /\ \A k \in 1..n : s[k] \in Match
  BY <1>1, MapShape
<1> HIDE DEF n
<1> DEFINE Upto(k) == Entries(a[k]) = {s[j] : j \in 1..k} /\ Falling(a[k]) /\ Distinct(a[k])
           T == {k \in 0..n : Upto(k)}
<1>4. 0 \in T
  <2>1. Entries(<<>>) = {} /\ Falling(<<>>) /\ Distinct(<<>>)
    BY DEF Entries, Falling, Distinct
  <2>2. 1..0 = {}
    OBVIOUS
  <2> QED
    BY <1>2, <1>3, <2>1, <2>2
<1>5. ASSUME NEW k \in 0..(n - 1), k \in T PROVE k + 1 \in T
  <2>1. k + 1 \in 1..n /\ (k + 1) - 1 = k /\ k + 1 \in 0..n /\ k \in 0..n
    BY <1>3
  <2>2. a[k] \in Seq(Match) /\ s[k + 1] \in Match /\ a[k + 1] = Insert(a[k], s[k + 1])
    BY <1>2, <1>3, <2>1
  <2>3. Upto(k)
    BY <1>5
  <2>4. ASSUME NEW e \in 1..Len(a[k]) PROVE a[k][e].goal # s[k + 1].goal
    <3>1. a[k][e] \in Entries(a[k])
      BY DEF Entries
    <3>2. PICK j \in 1..k : a[k][e] = s[j]
      BY <2>3, <3>1
    <3>3. j \in 1..n /\ j # k + 1
      BY <1>3, <2>1
    <3>4. s[j].goal # s[k + 1].goal
      BY <1>1, <1>3, <2>1, <3>3 DEF Distinct
    <3> QED
      BY <3>2, <3>4
  <2>5. /\ Entries(a[k + 1]) = Entries(a[k]) \union {s[k + 1]}
        /\ Falling(a[k + 1]) /\ Distinct(a[k + 1])
    BY <2>2, <2>3, <2>4, InsertPuts
  <2>6. {s[j] : j \in 1..(k + 1)} = {s[j] : j \in 1..k} \union {s[k + 1]}
    <3>1. \A j : j \in 1..(k + 1) <=> j \in 1..k \/ j = k + 1
      BY <2>1
    <3> QED
      BY <3>1
  <2>7. Upto(k + 1)
    BY <2>3, <2>5, <2>6
  <2> HIDE DEF Upto
  <2> QED
    BY <2>1, <2>7
<1>6. 0..n \subseteq T
  <2> HIDE DEF T
  <2> QED
    BY <1>3, <1>4, <1>5, InductTo
<1>7. n \in 0..n
  BY <1>3
<1>8. Upto(n)
  BY <1>6, <1>7
<1>9. Entries(s) = {s[j] : j \in 1..n}
  BY <1>3 DEF Entries
<1> QED
  BY <1>2, <1>7, <1>8, <1>9

(***************************************************************************)
(* Worth: the recursion has a value, for every forest.                     *)
(***************************************************************************)

LEMMA GreatestFrom ==
    ASSUME NEW B \in Nat, NEW S \in SUBSET ((-1)..B), S # {}
    PROVE  Max(S) \in S /\ \A y \in S : Max(S) >= y
<1> DEFINE T == {B - x : x \in S}
<1>1. T \in SUBSET Nat /\ T # {}
  <2>1. \A x \in S : x \in Int /\ B - x \in Nat
    OBVIOUS
  <2> QED
    BY <2>1
<1>2. PICK m \in T : \A y \in T : m <= y
  BY <1>1, Least
<1>3. PICK x \in S : m = B - x
  BY <1>2
<1>4. ASSUME NEW y \in S PROVE x >= y
  <2>1. B - y \in T
    OBVIOUS
  <2>2. B - x <= B - y
    BY <1>2, <1>3, <2>1
  <2> HIDE DEF T
  <2> QED
    BY <2>2
<1>5. Max(S) = CHOOSE z \in S : \A y \in S : z >= y
  BY DEF Max
<1> QED
  BY <1>4, <1>5

LEMMA GoalsFinite == Cardinality(Goals) \in Nat
<1> DEFINE n == Len(Listed)
           S == {Listed[k] : k \in 1..n}
           f == [k \in 1..n |-> Listed[k]]
<1>1. n \in Nat /\ Goals = S
  BY ListedShape DEF Goals, ToSet
<1>2. IsFiniteSet(1..n)
  BY <1>1, FS_Interval
<1>3. f \in Surjection(1..n, S)
  BY DEF Surjection
<1>4. IsFiniteSet(S)
  BY <1>2, <1>3, FS_Surjection
<1> QED
  BY <1>1, <1>4, FS_CardinalityType

\* A rank that grows from every goal to the goals under it.
Orders(rank) ==
    /\ rank \in [Goals -> 1..Cardinality(Goals)]
    /\ \A g \in Goals : goal[g].parent \in Goals => rank[goal[g].parent] < rank[g]

Forest == \E rank : Orders(rank)

\* The scores that reach a goal when those of the goals under it are W.
Reaching(W, g) ==
    {s \in {goal[g].cosine} \union {Discount[W[c]] : c \in {c \in Goals : goal[c].parent = g /\ W[c] >= 0}} :
        s >= minScore} \union {-1}

Settled(W, g) == W[g] = Max(Reaching(W, g))

LEMMA ReachingBounded ==
    ASSUME Weighted, NEW W \in [Goals -> (-1)..Top], NEW g \in Goals
    PROVE  /\ Reaching(W, g) \in SUBSET ((-1)..Top)
           /\ Max(Reaching(W, g)) \in Reaching(W, g)
           /\ \A y \in Reaching(W, g) : Max(Reaching(W, g)) >= y
<1>1. Top \in Nat /\ \A w \in 0..Top : Discount[w] \in (-1)..Top
  BY ScoreAssumption, DiscountAssumption
<1>2. \A c \in Goals : W[c] \in (-1)..Top /\ (W[c] >= 0 => W[c] \in 0..Top)
  BY <1>1
<1>3. goal[g].cosine \in (-1)..Top /\ -1 \in (-1)..Top
  BY <1>1 DEF Weighted
<1>4. Reaching(W, g) \in SUBSET ((-1)..Top) /\ -1 \in Reaching(W, g)
  BY <1>1, <1>2, <1>3 DEF Reaching
<1> QED
  BY <1>1, <1>4, GreatestFrom

LEMMA WorthExists ==
    ASSUME Weighted, Forest
    PROVE  \E W \in [Goals -> (-1)..Top] : \A g \in Goals : Settled(W, g)
<1> DEFINE N == Cardinality(Goals)
           X == [Goals -> (-1)..Top]
<1>1. PICK rank : Orders(rank)
  BY DEF Forest
<1>2. N \in Nat /\ \A g \in Goals : rank[g] \in 1..N
  BY <1>1, GoalsFinite DEF Orders
<1>3. \A g \in Goals, c \in Goals : goal[c].parent = g => rank[g] < rank[c]
  BY <1>1 DEF Orders
<1> HIDE DEF N
<1> DEFINE T == {k \in 0..N : \E W \in X : \A g \in Goals : rank[g] > N - k => Settled(W, g)}
<1>4. 0 \in T
  <2>1. [g \in Goals |-> -1] \in X /\ 0 \in 0..N
    BY <1>2, ScoreAssumption
  <2>2. \A g \in Goals : ~(rank[g] > N - 0)
    BY <1>2
  <2> QED
    BY <2>1, <2>2
<1>5. ASSUME NEW k \in 0..(N - 1), k \in T PROVE k + 1 \in T
  <2>1. PICK W \in X : \A g \in Goals : rank[g] > N - k => Settled(W, g)
    BY <1>5
  <2> DEFINE V == [g \in Goals |-> IF rank[g] = N - k THEN Max(Reaching(W, g)) ELSE W[g]]
  <2>2. ASSUME NEW g \in Goals PROVE Max(Reaching(W, g)) \in (-1)..Top
    BY ReachingBounded
  <2>3. V \in X
    BY <2>2
  <2>4. ASSUME NEW g \in Goals, rank[g] > N - (k + 1) PROVE Settled(V, g)
    <3>1. \A c \in Goals : goal[c].parent = g => V[c] = W[c]
      <4> SUFFICES ASSUME NEW c \in Goals, goal[c].parent = g PROVE V[c] = W[c]
        OBVIOUS
      <4>1. rank[c] # N - k
        BY <1>2, <1>3, <2>4
      <4> QED
        BY <4>1
    <3>2. Reaching(V, g) = Reaching(W, g)
      <4> HIDE DEF V
      <4> QED
        BY <3>1 DEF Reaching
    <3>3. rank[g] = N - k \/ rank[g] > N - k
      BY <1>2, <2>4
    <3>4. CASE rank[g] = N - k
      <4>1. V[g] = Max(Reaching(W, g))
        BY <3>4
      <4> HIDE DEF V
      <4> QED
        BY <3>2, <4>1 DEF Settled
    <3>5. CASE rank[g] > N - k
      <4>1. rank[g] # N - k
        BY <1>2, <3>5
      <4>2. V[g] = W[g]
        BY <4>1
      <4> HIDE DEF V
      <4> QED
        BY <2>1, <3>2, <3>5, <4>2 DEF Settled
    <3> QED
      BY <3>3, <3>4, <3>5
  <2>5. k + 1 \in 0..N
    BY <1>2
  <2> HIDE DEF V
  <2> QED
    BY <2>3, <2>4, <2>5
<1>6. 0..N \subseteq T
  <2> HIDE DEF T
  <2> QED
    BY <1>2, <1>4, <1>5, InductTo
<1>7. N \in T
  BY <1>2, <1>6
<1>8. \A g \in Goals : rank[g] > N - N
  BY <1>2
<1> QED
  BY <1>7, <1>8

LEMMA SettledOnce ==
    ASSUME Forest, NEW V, NEW W, \A g \in Goals : Settled(V, g) /\ Settled(W, g)
    PROVE  \A g \in Goals : V[g] = W[g]
<1> DEFINE N == Cardinality(Goals)
<1>1. PICK rank : Orders(rank)
  BY DEF Forest
<1>2. N \in Nat /\ \A g \in Goals : rank[g] \in 1..N
  BY <1>1, GoalsFinite DEF Orders
<1>3. \A g \in Goals, c \in Goals : goal[c].parent = g => rank[g] < rank[c]
  BY <1>1 DEF Orders
<1> HIDE DEF N
<1> DEFINE T == {k \in 0..N : \A g \in Goals : rank[g] > N - k => V[g] = W[g]}
<1>4. 0 \in T
  BY <1>2
<1>5. ASSUME NEW k \in 0..(N - 1), k \in T PROVE k + 1 \in T
  <2>1. ASSUME NEW g \in Goals, rank[g] > N - (k + 1) PROVE V[g] = W[g]
    <3>1. ASSUME NEW c \in Goals, goal[c].parent = g PROVE V[c] = W[c]
      <4>1. rank[c] > N - k
        BY <1>2, <1>3, <2>1, <3>1
      <4> QED
        BY <1>5, <4>1
    <3>2. Reaching(V, g) = Reaching(W, g)
      BY <3>1 DEF Reaching
    <3> QED
      BY <3>2 DEF Settled
  <2>2. k + 1 \in 0..N
    BY <1>2
  <2> QED
    BY <2>1, <2>2
<1>6. 0..N \subseteq T
  <2> HIDE DEF T
  <2> QED
    BY <1>2, <1>4, <1>5, InductTo
<1>7. N \in T
  <2> HIDE DEF T
  <2> QED
    BY <1>2, <1>6
<1>8. \A g \in Goals : rank[g] > N - N
  BY <1>2
<1> QED
  BY <1>7, <1>8

\* What is known of a goal's worth, without the recursion.
Valued(W, g) ==
    /\ W[g] \in (-1)..Top
    /\ \/ W[g] = -1
       \/ /\ W[g] >= minScore
          /\ \/ W[g] = goal[g].cosine
             \/ \E c \in Goals : goal[c].parent = g /\ W[c] >= 0 /\ W[g] = Discount[W[c]]
    /\ goal[g].cosine >= minScore => W[g] >= goal[g].cosine
    /\ \A c \in Goals : goal[c].parent = g /\ W[c] >= 0 /\ Discount[W[c]] >= minScore
          => W[g] >= Discount[W[c]]

LEMMA WorthValued ==
    ASSUME Weighted, Forest
    PROVE  \A g \in Goals : Valued(Worth, g)
<1>2. PICK V \in [Goals -> (-1)..Top] : \A g \in Goals : Settled(V, g)
  BY WorthExists
<1> DEFINE IsWorth(W) == W = [g \in Goals |->
              LET below    == {c \in Goals : goal[c].parent = g /\ W[c] >= 0}
                  reaching == {goal[g].cosine} \union {Discount[W[c]] : c \in below}
              IN Max({s \in reaching : s >= minScore} \union {-1})]
<1>3. IsWorth(V)
  BY <1>2 DEF Settled, Reaching
<1>4. Worth = CHOOSE W : IsWorth(W)
  BY Zenon DEF Worth
<1>5. IsWorth(Worth)
  <2> HIDE DEF IsWorth
  <2> QED
    BY <1>3, <1>4
<1>6. Worth = [g \in Goals |-> Max(Reaching(Worth, g))]
  BY <1>5 DEF Reaching
<1> HIDE DEF IsWorth
<1> DEFINE W == Worth
<1> HIDE DEF W
<1>7. W = [g \in Goals |-> Max(Reaching(W, g))]
  BY <1>6 DEF W
<1>8. \A g \in Goals : Settled(W, g)
  <2> SUFFICES ASSUME NEW g \in Goals PROVE Settled(W, g)
    OBVIOUS
  <2>1. [x \in Goals |-> Max(Reaching(W, x))][g] = Max(Reaching(W, g))
    OBVIOUS
  <2> QED
    BY <1>7, <2>1, Zenon DEF Settled
<1>9. \A g \in Goals : V[g] = W[g]
  BY <1>2, <1>8, SettledOnce
<1>10. W = V
  <2>1. \E f : W = [g \in Goals |-> f[g]]
    <3> DEFINE f == [g \in Goals |-> Max(Reaching(W, g))]
    <3>1. f = [g \in Goals |-> f[g]]
      OBVIOUS
    <3> QED
      BY <1>7, <3>1
  <2>2. PICK f : W = [g \in Goals |-> f[g]]
    BY <2>1
  <2>3. \A g \in Goals : V[g] = f[g]
    BY <1>9, <2>2
  <2> QED
    BY <2>2, <2>3
<1>11. W \in [Goals -> (-1)..Top]
  BY <1>10
<1> SUFFICES ASSUME NEW g \in Goals PROVE Valued(W, g)
  BY DEF W
<1>12. /\ W[g] \in Reaching(W, g)
       /\ \A y \in Reaching(W, g) : W[g] >= y
  <2>1. W[g] = Max(Reaching(W, g))
    BY <1>8 DEF Settled
  <2> QED
    BY <1>11, <2>1, ReachingBounded
<1>13. W[g] \in (-1)..Top
  BY <1>11
<1>14. \A y : y \in Reaching(W, g) <=>
           \/ y = -1
           \/ y >= minScore /\ (y = goal[g].cosine \/ \E c \in Goals : goal[c].parent = g /\ W[c] >= 0 /\ y = Discount[W[c]])
  BY DEF Reaching
<1>15. W[g] = -1 \/ (W[g] >= minScore /\ (W[g] = goal[g].cosine
                       \/ \E c \in Goals : goal[c].parent = g /\ W[c] >= 0 /\ W[g] = Discount[W[c]]))
  BY <1>12, <1>14
<1>16. goal[g].cosine >= minScore => W[g] >= goal[g].cosine
  BY <1>12, <1>14
<1>17. \A c \in Goals : goal[c].parent = g /\ W[c] >= 0 /\ Discount[W[c]] >= minScore
          => W[g] >= Discount[W[c]]
  BY <1>12, <1>14
<1> QED
  BY <1>13, <1>15, <1>16, <1>17 DEF Valued

(***************************************************************************)
(* The closure under propagation: what has been walked over has reached    *)
(* the goal above, and it stays there.                                     *)
(***************************************************************************)

\* The entry m has been propagated one level up, where the threshold allows it.
Passed(m) ==
    LET up == goal[m.goal].parent
    IN  up \in Goals /\ Discount[m.score] >= minScore
           => Above(propagated, [goal |-> up, score |-> Discount[m.score]])

\* The walk stands at m.
Here(m) == pc = "climb" /\ m = [goal |-> cur, score |-> score]

\* m does not promise more than its goal is worth.
Best(m) == m.score >= minScore /\ m.score <= Worth[m.goal]

Facts == Weighted /\ minScore \in Nat /\ Forest

Typed ==
    /\ Facts
    /\ direct \in Seq(Match) /\ propagated \in Maps /\ matches \in Seq(Match)
    /\ i \in 0..Len(direct)
    /\ cur \in Goals \union {None} /\ score \in 0..Top /\ depth \in Nat
    /\ pc \in {"next", "climb", "done"}

Walk ==
    /\ \A m \in Entries(propagated) : Best(m) /\ (Here(m) \/ Passed(m))
    /\ \A k \in 1..i : Here(direct[k]) \/ Passed(direct[k])
    /\ pc = "climb" => cur \in Goals /\ Best([goal |-> cur, score |-> score])

LEMMA BestRises ==
    ASSUME Facts, NEW g \in Goals, NEW s \in 0..Top, Best([goal |-> g, score |-> s]),
           goal[g].parent \in Goals, Discount[s] >= minScore
    PROVE  /\ [goal |-> goal[g].parent, score |-> Discount[s]] \in Match
           /\ Best([goal |-> goal[g].parent, score |-> Discount[s]])
<1> DEFINE p == goal[g].parent
<1>1. s <= Worth[g] /\ Worth[g] \in 0..Top
  <2>1. s <= Worth[g] /\ Worth[g] \in (-1)..Top
    BY WorthValued DEF Best, Facts, Valued
  <2> QED
    BY <2>1, ScoreAssumption
<1>2. Discount[s] \in 0..Top /\ Discount[Worth[g]] \in 0..Top /\ Discount[s] <= Discount[Worth[g]]
  BY <1>1, DiscountAssumption
<1>3. Discount[Worth[g]] >= minScore
  BY <1>2 DEF Facts
<1>4. Worth[p] \in (-1)..Top /\ Worth[p] >= Discount[Worth[g]]
  BY <1>1, <1>3, WorthValued DEF Facts, Valued
<1>5. Discount[s] <= Worth[p]
  BY <1>2, <1>4, ScoreAssumption
<1> QED
  BY <1>2, <1>5 DEF Match, Best

\* The entries that are merged.
All == propagated \o direct

LEMMA AllOfThem ==
    ASSUME Typed
    PROVE  /\ All \in Seq(Match)
           /\ Entries(All) = Entries(propagated) \union Entries(direct)
<1>1. /\ propagated \in Seq(Match) /\ direct \in Seq(Match)
      /\ Len(propagated) \in Nat /\ Len(direct) \in Nat
  BY DEF Typed, Maps
<1>2. All \in Seq(Match) /\ Len(All) = Len(propagated) + Len(direct)
  BY <1>1 DEF All
<1>3. \A k \in 1..Len(propagated) : All[k] = propagated[k] /\ k \in 1..Len(All)
  BY <1>1, <1>2 DEF All
<1>4. \A k \in 1..Len(direct) : All[Len(propagated) + k] = direct[k] /\ Len(propagated) + k \in 1..Len(All)
  BY <1>1, <1>2 DEF All
<1>5. \A k \in 1..Len(All) : k \in 1..Len(propagated) \/ \E j \in 1..Len(direct) : k = Len(propagated) + j
  <2> SUFFICES ASSUME NEW k \in 1..Len(All), k \notin 1..Len(propagated)
               PROVE  \E j \in 1..Len(direct) : k = Len(propagated) + j
    OBVIOUS
  <2>1. k - Len(propagated) \in 1..Len(direct) /\ k = Len(propagated) + (k - Len(propagated))
    BY <1>1, <1>2
  <2> QED
    BY <2>1
<1>6. Entries(All) \subseteq Entries(propagated) \union Entries(direct)
  <2> SUFFICES ASSUME NEW k \in 1..Len(All)
               PROVE  All[k] \in Entries(propagated) \union Entries(direct)
    BY DEF Entries
  <2>1. CASE k \in 1..Len(propagated)
    BY <1>3, <2>1 DEF Entries
  <2>2. ASSUME NEW j \in 1..Len(direct), k = Len(propagated) + j
        PROVE  All[k] \in Entries(direct)
    BY <1>4, <2>2 DEF Entries
  <2> QED
    BY <1>5, <2>1, <2>2
<1>7. Entries(propagated) \subseteq Entries(All) /\ Entries(direct) \subseteq Entries(All)
  BY <1>3, <1>4 DEF Entries
<1> QED
  BY <1>2, <1>6, <1>7

LEMMA EntriesTyped ==
    ASSUME NEW s \in Seq(Match), NEW m \in Entries(s)
    PROVE  m \in Match /\ m.goal \in Goals /\ m.score \in 0..Top /\ m.score \in Nat
<1>1. m \in Match /\ m.score \in Nat
  BY MapShape DEF Entries
<1> QED
  BY <1>1 DEF Match

\* When the walks are over, the worth of every goal is among the entries.
LEMMA Complete ==
    ASSUME Typed, Given(direct), \A m \in Entries(All) : Passed(m)
    PROVE  \A g \in Goals : Worth[g] >= minScore =>
              \E m \in Entries(All) : m.goal = g /\ m.score >= Worth[g]
<1> DEFINE N == Cardinality(Goals)
           Met(g) == Worth[g] >= minScore => \E m \in Entries(All) : m.goal = g /\ m.score >= Worth[g]
           T(rank) == {k \in 0..N : \A g \in Goals : rank[g] > N - k => Met(g)}
<1>1. PICK rank : Orders(rank)
  BY DEF Typed, Facts, Forest
<1>2. N \in Nat /\ \A g \in Goals : rank[g] \in 1..N
  BY <1>1, GoalsFinite DEF Orders
<1>3. \A g \in Goals, c \in Goals : goal[c].parent = g => rank[g] < rank[c]
  BY <1>1 DEF Orders
<1>4. \A g \in Goals : Valued(Worth, g)
  BY WorthValued DEF Typed, Facts
<1>5. /\ All \in Seq(Match) /\ minScore \in Nat
      /\ Entries(All) = Entries(propagated) \union Entries(direct)
  BY AllOfThem DEF Typed, Facts
<1> HIDE DEF N
<1>6. ASSUME NEW g \in Goals, \A c \in Goals : goal[c].parent = g => Met(c)
      PROVE  Met(g)
  <2> SUFFICES ASSUME Worth[g] >= minScore
               PROVE  \E m \in Entries(All) : m.goal = g /\ m.score >= Worth[g]
    OBVIOUS
  <2>1. Worth[g] \in Int /\ Worth[g] # -1
    BY <1>4, <1>5, ScoreAssumption DEF Valued
  <2>2. CASE Worth[g] = goal[g].cosine
    <3>1. PICK k \in 1..Len(direct) : direct[k].goal = g
      BY <2>2 DEF Given, Holds
    <3>2. direct[k] \in Entries(All) /\ direct[k].score = Worth[g]
      BY <1>5, <2>2, <3>1 DEF Given, Fair, Entries
    <3> QED
      BY <2>1, <3>1, <3>2
  <2>3. ASSUME NEW c \in Goals, goal[c].parent = g, Worth[c] >= 0, Worth[g] = Discount[Worth[c]]
        PROVE  \E m \in Entries(All) : m.goal = g /\ m.score >= Worth[g]
    <3>1. Worth[c] \in (-1)..Top /\ (Worth[c] = -1 \/ Worth[c] >= minScore)
      BY <1>4 DEF Valued
    <3>2. Worth[c] >= minScore
      BY <2>3, <3>1
    <3>3. PICK m \in Entries(All) : m.goal = c /\ m.score >= Worth[c]
      BY <1>6, <2>3, <3>2
    <3>4. Discount[m.score] \in 0..Top /\ Discount[m.score] >= Worth[g]
      <4>1. m.score \in 0..Top
        BY <1>5, EntriesTyped
      <4>2. Worth[c] \in 0..Top
        BY <2>3, <3>1, ScoreAssumption
      <4> QED
        BY <2>3, <3>1, <3>3, <4>1, <4>2, DiscountAssumption
    <3>5. Discount[m.score] >= minScore
      BY <1>5, <2>1, <3>4
    <3>6. Above(propagated, [goal |-> g, score |-> Discount[m.score]])
      BY <2>3, <3>3, <3>5 DEF Passed
    <3>7. PICK k \in 1..Len(propagated) :
             propagated[k].goal = g /\ propagated[k].score >= Discount[m.score]
      BY <3>6 DEF Above
    <3>8. propagated[k] \in Entries(All)
      BY <1>5 DEF Entries
    <3>9. propagated[k].score \in Nat
      BY <1>5, <3>8, EntriesTyped
    <3>10. propagated[k].score >= Worth[g]
      BY <2>1, <3>4, <3>7, <3>9
    <3> QED
      BY <3>7, <3>8, <3>10
  <2> QED
    BY <1>4, <2>1, <2>2, <2>3 DEF Valued
<1> HIDE DEF Met
<1>7. 0 \in T(rank)
  BY <1>2
<1>8. ASSUME NEW k \in 0..(N - 1), k \in T(rank) PROVE k + 1 \in T(rank)
  <2>1. ASSUME NEW g \in Goals, rank[g] > N - (k + 1) PROVE Met(g)
    <3>1. ASSUME NEW c \in Goals, goal[c].parent = g PROVE Met(c)
      <4>1. rank[c] > N - k
        BY <1>2, <1>3, <2>1, <3>1
      <4> QED
        BY <1>8, <4>1
    <3> QED
      BY <1>6, <3>1
  <2>2. k + 1 \in 0..N
    BY <1>2
  <2> QED
    BY <2>1, <2>2
<1>9. 0..N \subseteq T(rank)
  <2> HIDE DEF T
  <2> QED
    BY <1>2, <1>7, <1>8, InductTo
<1>10. N \in T(rank)
  <2> HIDE DEF T
  <2> QED
    BY <1>2, <1>9
<1>11. \A g \in Goals : rank[g] > N - N
  BY <1>2
<1>12. \A g \in Goals : Met(g)
  BY <1>10, <1>11
<1> QED
  BY <1>12 DEF Met

LEMMA MergedIsWorth ==
    ASSUME Typed, Given(direct), \A m \in Entries(All) : Passed(m) /\ Best(m)
    PROVE  /\ Merged \in Maps
           /\ \A m \in Entries(Merged) : m.score >= minScore /\ m.score = Worth[m.goal]
           /\ \A g \in Goals : Worth[g] >= 0 => \E m \in Entries(Merged) : m.goal = g
<1> DEFINE M == Merged
<1>1. M = MergeOf(All)
  BY DEF Merged, MergeOf, All
<1> HIDE DEF M
<1>2. All \in Seq(Match) /\ minScore \in Nat
  BY AllOfThem DEF Typed, Facts
<1>3. M \in Maps /\ Entries(M) \subseteq Entries(All) /\ \A k \in 1..Len(All) : Above(M, All[k])
  BY <1>1, <1>2, MergeKeeps
<1>4. M \in Seq(Match) /\ Distinct(M)
  BY <1>3 DEF Maps
<1>5. \A g \in Goals : Valued(Worth, g)
  BY WorthValued DEF Typed, Facts
<1>6. ASSUME NEW g \in Goals, Worth[g] >= minScore
      PROVE  \E k \in 1..Len(M) : M[k].goal = g /\ M[k].score = Worth[g]
  <2>1. PICK m \in Entries(All) : m.goal = g /\ m.score >= Worth[g]
    BY <1>6, Complete
  <2>2. Above(M, m)
    BY <1>3 DEF Entries
  <2>3. PICK k \in 1..Len(M) : M[k].goal = m.goal /\ M[k].score >= m.score
    BY <2>2 DEF Above
  <2>4. M[k] \in Entries(All)
    BY <1>3 DEF Entries
  <2>5. M[k].score <= Worth[g] /\ M[k].score \in Nat /\ m.score \in Nat /\ Worth[g] \in Int
    BY <1>2, <1>5, <2>1, <2>3, <2>4, EntriesTyped DEF Best, Valued
  <2> QED
    BY <2>1, <2>3, <2>5
<1>7. ASSUME NEW j \in 1..Len(M) PROVE M[j].score >= minScore /\ M[j].score = Worth[M[j].goal]
  <2>1. M[j] \in Entries(All)
    BY <1>3 DEF Entries
  <2>2. /\ M[j].goal \in Goals /\ M[j].score \in Nat
        /\ M[j].score >= minScore /\ M[j].score <= Worth[M[j].goal]
    BY <1>2, <2>1, EntriesTyped DEF Best
  <2>3. Worth[M[j].goal] \in Int
    BY <1>5, <2>2 DEF Valued
  <2>4. Worth[M[j].goal] >= minScore
    BY <1>2, <2>2, <2>3
  <2>5. PICK k \in 1..Len(M) : M[k].goal = M[j].goal /\ M[k].score = Worth[M[j].goal]
    BY <1>6, <2>2, <2>4
  <2>6. k = j
    BY <1>4, <2>5 DEF Distinct
  <2> QED
    BY <2>2, <2>5, <2>6
<1>8. ASSUME NEW g \in Goals, Worth[g] >= 0 PROVE \E m \in Entries(M) : m.goal = g
  <2>1. Worth[g] >= minScore
    BY <1>5, <1>8 DEF Valued
  <2> QED
    BY <1>6, <2>1 DEF Entries
<1>9. \A m \in Entries(M) : m.score >= minScore /\ m.score = Worth[m.goal]
  BY <1>7 DEF Entries
<1> QED
  BY <1>3, <1>8, <1>9 DEF M

(***************************************************************************)
(* The answer.                                                             *)
(***************************************************************************)

TrueOf(q) == \A k \in DOMAIN q : q[k].score >= minScore /\ q[k].score = Worth[q[k].goal]

RankingOf(q) ==
    LET inside  == {q[k].goal : k \in DOMAIN q}
        outside == {g \in Goals \ inside : Worth[g] >= 0}
        Value(k) == q[k].score * goal[q[k].goal].weight
    IN
    /\ Cardinality(inside) = Len(q)
    /\ \A j, k \in DOMAIN q : j < k => Value(j) >= Value(k)
    /\ outside # {} => Len(q) = TopK
    /\ \A g \in outside, k \in DOMAIN q : Worth[g] * goal[g].weight <= Value(k)

LEMMA SliceShape ==
    ASSUME NEW s \in Seq(Match)
    PROVE  /\ Slice(s, TopK) \in Seq(Match) /\ Len(Slice(s, TopK)) \in 0..Len(s)
           /\ DOMAIN Slice(s, TopK) = 1..Len(Slice(s, TopK))
           /\ \A k \in 1..Len(Slice(s, TopK)) : Slice(s, TopK)[k] = s[k]
           /\ Len(Slice(s, TopK)) < Len(s) => Len(Slice(s, TopK)) = TopK
<1> DEFINE n == IF Len(s) < TopK THEN Len(s) ELSE TopK
<1>1. Len(s) \in Nat /\ TopK \in Nat
  BY TopKAssumption
<1>2. n \in 0..Len(s) /\ (n < Len(s) => n = TopK)
  BY <1>1
<1>3. Slice(s, TopK) = SubSeq(s, 1, n)
  BY DEF Slice
<1> HIDE DEF n
<1>4. /\ SubSeq(s, 1, n) \in Seq(Match) /\ Len(SubSeq(s, 1, n)) = n
      /\ \A k \in 1..n : SubSeq(s, 1, n)[k] = s[k]
  BY <1>1, <1>2
<1> QED
  BY <1>2, <1>3, <1>4

LEMMA AnswerIsTrue ==
    ASSUME Typed, Given(direct), \A m \in Entries(All) : Passed(m) /\ Best(m)
    PROVE  /\ Slice(Ranked(Merged), TopK) \in Seq(Match)
           /\ TrueOf(Slice(Ranked(Merged), TopK))
           /\ RankingOf(Slice(Ranked(Merged), TopK))
<1> DEFINE r == Ranked(Merged)
           q == Slice(r, TopK)
           n == Len(q)
<1>1. /\ Merged \in Maps
      /\ \A m \in Entries(Merged) : m.score >= minScore /\ m.score = Worth[m.goal]
      /\ \A g \in Goals : Worth[g] >= 0 => \E m \in Entries(Merged) : m.goal = g
  BY MergedIsWorth
<1>2. r \in Seq(Match) /\ Entries(r) = Entries(Merged) /\ Falling(r) /\ Distinct(r)
  BY <1>1, RankedIsRanking DEF Typed, Facts
<1> HIDE DEF r
<1>3. /\ q \in Seq(Match) /\ n \in 0..Len(r) /\ DOMAIN q = 1..n
      /\ \A k \in 1..n : q[k] = r[k]
      /\ n < Len(r) => n = TopK
  BY <1>2, SliceShape
<1>4. Len(r) \in Nat /\ \A k \in 1..Len(r) : r[k] \in Match /\ r[k].goal \in Goals /\ r[k].score \in Nat
  BY <1>2, MapShape
<1>5. n = Len(q)
  OBVIOUS
<1> HIDE DEF q, n
<1>6. \A k \in 1..n : k \in 1..Len(r)
  BY <1>3, <1>4
<1>7. \A k \in 1..Len(r) : r[k].score >= minScore /\ r[k].score = Worth[r[k].goal]
  BY <1>1, <1>2 DEF Entries
<1>8. TrueOf(q)
  BY <1>3, <1>6, <1>7 DEF TrueOf
<1> DEFINE inside == {q[k].goal : k \in DOMAIN q}
           outside == {g \in Goals \ inside : Worth[g] >= 0}
           Value(k) == q[k].score * goal[q[k].goal].weight
<1>9. Cardinality(inside) = n
  <2> DEFINE f == [k \in 1..n |-> q[k].goal]
  <2>1. f \in Surjection(1..n, inside)
    BY <1>3 DEF Surjection
  <2>2. \A j, k \in 1..n : q[j].goal = q[k].goal => j = k
    BY <1>2, <1>3, <1>6 DEF Distinct
  <2>3. f \in Injection(1..n, inside)
    <3>1. f \in [1..n -> inside] /\ \A k \in 1..n : f[k] = q[k].goal
      BY <1>3
    <3> HIDE DEF f, inside
    <3> QED
      BY <2>2, <3>1 DEF Injection, IsInjective
  <2>4. IsFiniteSet(1..n) /\ Cardinality(1..n) = n
    <3>1. n \in Int /\ 1 \in Int /\ (1 > n => n = 0) /\ n - 1 + 1 = n
      BY <1>3
    <3> QED
      BY <3>1, FS_Interval
  <2> HIDE DEF f, inside
  <2> QED
    BY <2>1, <2>3, <2>4, FS_Surjection
<1>10. \A k \in 1..n : Value(k) = Effective(r[k])
  BY <1>3 DEF Effective
<1>11. ASSUME NEW j \in 1..n, NEW k \in 1..n, j < k PROVE Value(j) >= Value(k)
  <2>1. Effective(r[j]) >= Effective(r[k])
    BY <1>2, <1>6, <1>11 DEF Falling
  <2> HIDE DEF Value
  <2> QED
    BY <1>10, <2>1
<1>12. ASSUME NEW g \in outside
       PROVE  \E j \in 1..Len(r) : r[j].goal = g /\ n < j /\ Effective(r[j]) = Worth[g] * goal[g].weight
  <2>1. PICK m \in Entries(Merged) : m.goal = g
    BY <1>1
  <2>2. PICK j \in 1..Len(r) : r[j] = m
    BY <1>2 DEF Entries
  <2>3. ~(j <= n)
    <3> SUFFICES ASSUME j <= n PROVE FALSE
      OBVIOUS
    <3>1. j \in 1..n
      BY <1>3, <1>4
    <3>2. g \in inside
      BY <1>3, <2>1, <2>2, <3>1
    <3> QED
      BY <3>2
  <2>4. n < j
    BY <1>3, <1>4, <2>3
  <2>5. Effective(r[j]) = Worth[g] * goal[g].weight
    BY <1>7, <2>1, <2>2 DEF Effective
  <2> QED
    BY <2>1, <2>2, <2>4, <2>5
<1>13. outside # {} => n = TopK
  <2> SUFFICES ASSUME NEW g \in outside PROVE n = TopK
    OBVIOUS
  <2>1. PICK j \in 1..Len(r) : n < j
    BY <1>12
  <2>2. n < Len(r)
    BY <1>3, <1>4, <2>1
  <2> QED
    BY <1>3, <2>2
<1>14. ASSUME NEW g \in outside, NEW k \in 1..n PROVE Worth[g] * goal[g].weight <= Value(k)
  <2>1. PICK j \in 1..Len(r) : n < j /\ Effective(r[j]) = Worth[g] * goal[g].weight
    BY <1>12
  <2>2. k <= j /\ k \in 1..Len(r)
    BY <1>3, <1>4, <1>6, <2>1
  <2>3. Effective(r[k]) >= Effective(r[j])
    BY <1>2, <2>2 DEF Falling
  <2>4. Effective(r[k]) \in Nat /\ Effective(r[j]) \in Nat
    BY <1>4, <2>2, EffectiveType DEF Typed, Facts
  <2> HIDE DEF Value, outside
  <2> QED
    BY <1>10, <2>1, <2>3, <2>4
<1>15. RankingOf(q)
  <2> HIDE DEF n
  <2> QED
    BY <1>3, <1>5, <1>9, <1>11, <1>13, <1>14 DEF RankingOf
<1> QED
  BY <1>3, <1>8, <1>15 DEF q, r

(***************************************************************************)
(* The invariant.                                                          *)
(***************************************************************************)

Answered == pc = "done" => TrueOf(matches) /\ RankingOf(matches)

\* Types, the direct matches as computed, the closure, and the answer.
Inv == Typed /\ Given(direct) /\ Walk /\ Answered

\* The tree and the threshold are never assigned, and neither is what they determine.
LEMMA WorthStays ==
    ASSUME goal' = goal, minScore' = minScore
    PROVE  Worth' = Worth
BY DEF Worth

LEMMA FixedStays ==
    ASSUME Inv, goal' = goal, minScore' = minScore, direct' = direct
    PROVE  /\ Facts' /\ Given(direct)' /\ Worth' = Worth
           /\ \A m : Best(m)' <=> Best(m)
<1>1. Worth' = Worth
  BY WorthStays
<1>2. Facts'
  BY DEF Inv, Typed, Facts, Weighted, Forest, Orders
<1>3. Given(direct)'
  BY DEF Inv, Given, Fair, Holds
<1>4. \A m : Best(m)' <=> Best(m)
  BY <1>1 DEF Best
<1> QED
  BY <1>1, <1>2, <1>3, <1>4

LEMMA InitInv == Init => Inv
<1> SUFFICES ASSUME Init PROVE Inv
  OBVIOUS
<1> USE DEF Init
<1>1. Weighted /\ minScore \in Nat
  BY ScoreAssumption DEF Weighted
<1>2. Forest
  <2>1. PICK rank \in [Goals -> 1..Cardinality(Goals)] :
           \A g \in Goals : [h \in Goals |-> goal[h].parent][g] \in Goals
                => rank[[h \in Goals |-> goal[h].parent][g]] < rank[g]
    BY DEF Acyclic
  <2>2. Orders(rank)
    BY <2>1 DEF Orders
  <2> QED
    BY <2>2 DEF Forest
<1>3. direct \in Seq(Match) /\ Given(direct)
  BY <1>1, DirectIsGiven
<1>4. <<>> \in Maps /\ Len(direct) \in Nat
  BY <1>3 DEF Maps, Distinct
<1>5. Typed
  BY <1>1, <1>2, <1>3, <1>4, ScoreAssumption DEF Typed, Facts
<1>6. Entries(propagated) = {}
  BY DEF Entries
<1>7. Walk
  BY <1>6 DEF Walk
<1> QED
  BY <1>3, <1>5, <1>7 DEF Inv, Answered

LEMMA NextMatchInv == ASSUME Inv, NextMatch PROVE Inv'
<1> USE DEF NextMatch
<1>1. Facts' /\ Given(direct)' /\ \A m : Best(m)' <=> Best(m)
  BY FixedStays
<1> DEFINE m == direct[i + 1]
<1>2. i \in Nat /\ i + 1 \in 1..Len(direct) /\ direct \in Seq(Match)
  BY DEF Inv, Typed
<1>3. m \in Match /\ m.goal \in Goals /\ m.score \in 0..Top /\ m.score \in Nat
  <2>1. m \in Match /\ m.score \in Nat
    BY <1>2, MapShape
  <2> QED
    BY <2>1 DEF Match
<1>4. Typed'
  BY <1>1, <1>2, <1>3 DEF Inv, Typed
<1>5. \A e : ~Here(e) /\ (Passed(e)' <=> Passed(e))
  BY DEF Here, Passed, Above
<1>6. \A k : k = i + 1 => Here(direct[k])'
  <2>1. m = [goal |-> m.goal, score |-> m.score]
    BY <1>3 DEF Match
  <2> QED
    BY <2>1 DEF Here
<1>7. \A k \in 1..i' : (Here(direct[k]) \/ Passed(direct[k]))'
  <2> SUFFICES ASSUME NEW k \in 1..(i + 1) PROVE Here(direct[k])' \/ Passed(direct[k])'
    OBVIOUS
  <2>1. k \in 1..i \/ k = i + 1
    BY <1>2
  <2>2. \A j \in 1..i : Passed(direct[j])
    BY <1>5 DEF Inv, Walk
  <2>3. CASE k \in 1..i
    BY <1>5, <2>2, <2>3
  <2>4. CASE k = i + 1
    BY <1>6, <2>4
  <2> QED
    BY <2>1, <2>3, <2>4
<1>8. Best([goal |-> m.goal, score |-> m.score])
  <2>1. m.score = goal[m.goal].cosine /\ m.score >= minScore
    BY <1>2 DEF Inv, Given, Fair
  <2>2. Worth[m.goal] >= m.score
    BY <1>3, <2>1, WorthValued DEF Inv, Typed, Facts, Valued
  <2>3. Worth[m.goal] \in Int
    BY <1>3, WorthValued DEF Inv, Typed, Facts, Valued
  <2> QED
    BY <1>3, <2>1, <2>2, <2>3 DEF Best
<1>9. \A e \in Entries(propagated)' : Best(e)' /\ (Here(e)' \/ Passed(e)')
  <2>1. Entries(propagated)' = Entries(propagated)
    BY DEF Entries
  <2> QED
    BY <1>1, <1>5, <2>1 DEF Inv, Walk
<1>10. Best([goal |-> cur, score |-> score])'
  BY <1>1, <1>8
<1>11. Walk'
  BY <1>3, <1>7, <1>9, <1>10 DEF Walk
<1> QED
  BY <1>1, <1>4, <1>11 DEF Inv, Answered

LEMMA ClimbInv == ASSUME Inv, Climb PROVE Inv'
<1> USE DEF Climb, Climbs
<1>1. Facts' /\ Given(direct)' /\ \A m : Best(m)' <=> Best(m)
  BY FixedStays
<1> DEFINE p == goal[cur].parent
           u == [goal |-> p, score |-> Discount[score]]
<1>2. /\ Facts /\ propagated \in Maps /\ direct \in Seq(Match) /\ score \in 0..Top
      /\ cur \in Goals /\ p \in Goals /\ Best([goal |-> cur, score |-> score])
      /\ depth \in Nat /\ i \in 0..Len(direct)
  BY DEF Inv, Typed, Walk
<1>3. u \in Match /\ Best(u) /\ Discount[score] \in 0..Top
  BY <1>2, BestRises, DiscountAssumption
<1>4. /\ propagated' \in Maps
      /\ Above(propagated', u)
      /\ \A m : Above(propagated, m) /\ m.score \in Nat => Above(propagated', m)
      /\ Entries(propagated') \subseteq Entries(propagated) \union {u}
  BY <1>2, <1>3, PutMaxPuts
<1>5. Typed'
  BY <1>1, <1>2, <1>3, <1>4 DEF Inv, Typed
<1>6. \A m : m = u => Here(m)'
  BY DEF Here
<1>7. ASSUME NEW m \in Match, Here(m) \/ Passed(m) PROVE Passed(m)'
  <2> DEFINE up == goal[m.goal].parent
             v == [goal |-> up, score |-> Discount[m.score]]
  <2>1. SUFFICES ASSUME up \in Goals, Discount[m.score] >= minScore PROVE Above(propagated', v)
    <3>1. goal' = goal /\ minScore' = minScore
      OBVIOUS
    <3> QED
      BY <3>1 DEF Passed, Above
  <2>2. m.score \in Nat /\ Discount[m.score] \in Nat
    <3>1. m.score \in 0..Top
      BY DEF Match
    <3>2. Discount[m.score] \in 0..Top
      BY <3>1, DiscountAssumption
    <3> QED
      BY <3>1, <3>2, ScoreAssumption
  <2>3. CASE Here(m)
    <3>1. v = u
      BY <2>3 DEF Here
    <3> QED
      BY <1>4, <3>1
  <2>4. CASE Passed(m)
    <3>1. Above(propagated, v)
      BY <2>1, <2>4 DEF Passed
    <3> QED
      BY <1>4, <2>2, <3>1
  <2> QED
    BY <1>7, <2>3, <2>4
<1>8. \A m \in Entries(propagated') : Best(m)' /\ (Here(m)' \/ Passed(m)')
  <2> SUFFICES ASSUME NEW m \in Entries(propagated') PROVE Best(m) /\ (Here(m)' \/ Passed(m)')
    BY <1>1
  <2>1. CASE m = u
    BY <1>3, <1>6, <2>1
  <2>2. CASE m \in Entries(propagated)
    <3>1. m \in Match
      BY <1>2, <2>2, EntriesTyped DEF Maps
    <3> QED
      BY <1>7, <2>2, <3>1 DEF Inv, Walk
  <2> QED
    BY <1>4, <2>1, <2>2
<1>9. \A k \in 1..i : Passed(direct[k])'
  <2> SUFFICES ASSUME NEW k \in 1..i PROVE Passed(direct[k])'
    OBVIOUS
  <2>1. direct[k] \in Match
    BY <1>2
  <2>2. Here(direct[k]) \/ Passed(direct[k])
    BY DEF Inv, Walk
  <2>3. \A m \in Match : Here(m) \/ Passed(m) => Passed(m)'
    BY <1>7
  <2>4. \A m : m = direct[k] => Passed(m)'
    BY <2>1, <2>2, <2>3
  <2>5. direct' = direct
    OBVIOUS
  <2> QED
    BY <2>4, <2>5
<1>10. cur' \in Goals /\ Best([goal |-> cur, score |-> score])'
  <2>1. cur' = p /\ score' = Discount[score]
    OBVIOUS
  <2>2. \A m : m = u => Best(m)'
    BY <1>1, <1>3
  <2> QED
    BY <1>2, <2>1, <2>2
<1>11. Entries(propagated)' = Entries(propagated')
  BY DEF Entries
<1>12. Walk'
  <2>1. i' = i
    OBVIOUS
  <2> QED
    BY <1>8, <1>9, <1>10, <1>11, <2>1 DEF Walk
<1> QED
  BY <1>1, <1>5, <1>12 DEF Inv, Answered

LEMMA StopInv == ASSUME Inv, Stop PROVE Inv'
<1> USE DEF Stop
<1>1. Facts' /\ Given(direct)' /\ \A m : Best(m)' <=> Best(m)
  BY FixedStays
<1>2. Typed'
  BY <1>1 DEF Inv, Typed
<1>3. \A m : Here(m) => Passed(m)
  BY DEF Here, Passed, Climbs
<1>4. \A m : Passed(m)' <=> Passed(m)
  BY DEF Passed, Above
<1>5. Walk'
  <2>1. Entries(propagated)' = Entries(propagated)
    BY DEF Entries
  <2>2. \A k \in 1..i : Passed(direct[k])
    BY <1>3 DEF Inv, Walk
  <2>3. (\A k \in 1..i : Here(direct[k]) \/ Passed(direct[k]))'
    BY <1>4, <2>2
  <2> QED
    BY <1>1, <1>3, <1>4, <2>1, <2>3 DEF Inv, Walk
<1> QED
  BY <1>1, <1>2, <1>5 DEF Inv, Answered

LEMMA RankInv == ASSUME Inv, Rank PROVE Inv'
<1> USE DEF Rank
<1>1. Facts' /\ Given(direct)' /\ Worth' = Worth /\ \A m : Best(m)' <=> Best(m)
  BY FixedStays
<1>2. \A m : ~Here(m) /\ (Passed(m)' <=> Passed(m))
  BY DEF Here, Passed, Above
<1>3. /\ Typed /\ Given(direct)
      /\ \A m \in Entries(propagated) : Best(m) /\ Passed(m)
      /\ \A k \in 1..Len(direct) : Passed(direct[k])
  BY <1>2 DEF Inv, Walk
<1>4. \A k \in 1..Len(direct) : Best(direct[k])
  <2> SUFFICES ASSUME NEW k \in 1..Len(direct) PROVE Best(direct[k])
    OBVIOUS
  <2>1. direct[k].goal \in Goals /\ direct[k].score \in Nat
    BY <1>3, MapShape DEF Typed
  <2>2. direct[k].score = goal[direct[k].goal].cosine /\ direct[k].score >= minScore
    BY <1>3 DEF Given, Fair
  <2>3. Worth[direct[k].goal] \in Int /\ Worth[direct[k].goal] >= direct[k].score
    BY <1>3, <2>1, <2>2, WorthValued DEF Typed, Facts, Valued
  <2> QED
    BY <2>1, <2>2, <2>3 DEF Best
<1>5. \A m \in Entries(All) : Passed(m) /\ Best(m)
  <2>1. Entries(All) = Entries(propagated) \union Entries(direct)
    BY <1>3, AllOfThem
  <2>2. \A m \in Entries(direct) : Passed(m) /\ Best(m)
    BY <1>3, <1>4 DEF Entries
  <2> QED
    BY <1>3, <2>1, <2>2
<1> DEFINE q == Slice(Ranked(Merged), TopK)
<1>6. q \in Seq(Match) /\ TrueOf(q) /\ RankingOf(q)
  BY <1>3, <1>5, AnswerIsTrue
<1>7. matches' = q /\ pc' = "done" /\ goal' = goal /\ minScore' = minScore
  OBVIOUS
<1>8. Typed'
  BY <1>1, <1>6 DEF Inv, Typed
<1> HIDE DEF q
<1>9. TrueOf(matches)'
  BY <1>1, <1>6, <1>7 DEF TrueOf
<1>10. RankingOf(matches)'
  BY <1>1, <1>6, <1>7 DEF RankingOf
<1>11. Walk'
  <2>1. Entries(propagated)' = Entries(propagated)
    BY DEF Entries
  <2> QED
    BY <1>1, <1>2, <1>3, <2>1 DEF Inv, Walk, Typed
<1> QED
  BY <1>1, <1>8, <1>9, <1>10, <1>11 DEF Inv, Answered

LEMMA StutterInv == ASSUME Inv, UNCHANGED vars PROVE Inv'
<1> USE DEF vars
<1>1. Facts' /\ Given(direct)' /\ Worth' = Worth /\ \A m : Best(m)' <=> Best(m)
  BY FixedStays
<1>2. \A m : (Passed(m)' <=> Passed(m)) /\ (Here(m)' <=> Here(m))
  BY DEF Here, Passed, Above
<1>3. Typed'
  BY <1>1 DEF Inv, Typed
<1>4. Walk'
  <2>1. Entries(propagated)' = Entries(propagated)
    BY DEF Entries
  <2>2. (Best([goal |-> cur, score |-> score]))' <=> Best([goal |-> cur, score |-> score])
    BY <1>1
  <2>3. (\A k \in 1..i : Here(direct[k]) \/ Passed(direct[k]))'
    BY <1>2 DEF Inv, Walk
  <2> QED
    BY <1>1, <1>2, <2>1, <2>2, <2>3 DEF Inv, Walk
<1>5. Answered'
  BY <1>1 DEF Inv, Answered, TrueOf, RankingOf
<1> QED
  BY <1>1, <1>3, <1>4, <1>5 DEF Inv

LEMMA InvHolds == Spec => []Inv
<1>1. Inv /\ [Next]_vars => Inv'
  BY NextMatchInv, ClimbInv, StopInv, RankInv, StutterInv DEF Next
<1> QED
  BY InitInv, <1>1, PTL DEF Spec

(***************************************************************************)
(* The theorems.                                                           *)
(***************************************************************************)

\* The lists of correlateActionUseCase are lists of matches of listed goals, and the
\* walk never leaves the goals.
THEOREM TypeCorrect == Spec => []TypeOK
<1>1. Inv => TypeOK
  BY DEF Inv, Typed, Facts, Weighted, Maps, TypeOK
<1> QED
  BY InvHolds, <1>1, PTL

\* Every match of the answer carries the best score that reaches its goal, directly or
\* through the goals below it, whatever the forest and the order of the list.
THEOREM WorthIsTrue == Spec => []WorthTrue
<1>1. Inv => WorthTrue
  BY DEF Inv, Answered, TrueOf, WorthTrue
<1> QED
  BY InvHolds, <1>1, PTL

\* The answer is the top of the ranking: no goal twice, the effective scores fall, and
\* a goal is left out only when topK others are in, none of them worth less.
THEOREM RankingIsTrue == Spec => []RankingTrue
<1>1. Inv => RankingTrue
  BY DEF Inv, Answered, RankingOf, RankingTrue
<1> QED
  BY InvHolds, <1>1, PTL

(***************************************************************************)
(* The end of the walk.                                                    *)
(***************************************************************************)

\* Each level climbed takes one from what is left above.
Room(rank) ==
    /\ Orders(rank)
    /\ pc = "climb" => rank[cur] + depth <= Cardinality(Goals) + 1

Deep == depth <= Cardinality(Goals) /\ \E rank : Room(rank)

LEMMA InitDeep == Init => Deep
<1> SUFFICES ASSUME Init PROVE Deep
  OBVIOUS
<1>1. PICK rank : Orders(rank)
  BY InitInv DEF Inv, Typed, Facts, Forest
<1>2. \E g : g \in Goals
  BY ListedAssumption
<1>3. Cardinality(Goals) \in Nat /\ Cardinality(Goals) >= 1
  BY <1>1, <1>2, GoalsFinite DEF Orders
<1> QED
  BY <1>1, <1>3 DEF Init, Deep, Room

LEMMA StepDeep == Inv /\ Deep /\ [Next]_vars => Deep'
<1> SUFFICES ASSUME Inv, Deep, [Next]_vars PROVE Deep'
  OBVIOUS
<1> DEFINE N == Cardinality(Goals)
<1>1. PICK rank : Room(rank)
  BY DEF Deep
<1>2. N \in Nat /\ \A g \in Goals : rank[g] \in 1..N
  BY <1>1, GoalsFinite DEF Room, Orders
<1>3. depth \in Nat /\ depth <= N /\ (pc = "climb" => cur \in Goals /\ rank[cur] + depth <= N + 1)
  BY <1>1 DEF Inv, Typed, Walk, Deep, Room
<1> SUFFICES depth' <= N /\ Room(rank)'
  BY DEF Deep
<1>4. goal' = goal => Orders(rank)'
  BY <1>1 DEF Room, Orders
<1> HIDE DEF N
<1>5. CASE NextMatch
  <2>1. direct[i + 1].goal \in Goals
    <3>1. direct \in Seq(Match) /\ i + 1 \in 1..Len(direct)
      BY <1>5 DEF Inv, Typed, NextMatch
    <3> QED
      BY <3>1, MapShape
  <2>2. rank[direct[i + 1].goal] + 1 <= N + 1 /\ 1 <= N
    BY <1>2, <2>1
  <2> QED
    BY <1>4, <1>5, <2>2 DEF NextMatch, Room, N
<1>6. CASE Climb
  <2>1. cur \in Goals /\ goal[cur].parent \in Goals /\ rank[cur] + depth <= N + 1
    BY <1>3, <1>6 DEF Climb, Climbs
  <2>2. rank[goal[cur].parent] < rank[cur]
    BY <1>1, <2>1 DEF Room, Orders
  <2>3. depth + 1 <= N /\ rank[goal[cur].parent] + (depth + 1) <= N + 1
    BY <1>2, <1>3, <2>1, <2>2
  <2> QED
    BY <1>4, <1>6, <2>3 DEF Climb, Room, N
<1>7. CASE Stop
  BY <1>3, <1>4, <1>7 DEF Stop, Room, N
<1>8. CASE Rank
  BY <1>3, <1>4, <1>8 DEF Rank, Room, N
<1>9. CASE UNCHANGED vars
  BY <1>1, <1>3, <1>4, <1>9 DEF vars, Room, N
<1> QED
  BY <1>5, <1>6, <1>7, <1>8, <1>9 DEF Next

\* A walk climbs fewer levels than there are goals: the synchronous loop over the
\* parents ends, for every forest and every threshold, zero included.
THEOREM WalkHasEnd == Spec => []WalkEnds
<1>1. Deep => WalkEnds
  BY DEF Deep, WalkEnds
<1> QED
  BY InvHolds, InitDeep, StepDeep, <1>1, PTL DEF Spec
=============================================================================
