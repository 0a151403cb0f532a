-------------------------- MODULE Realtime_proofs --------------------------
(***************************************************************************)
(* For any sockets, analyses, users, sessions, configurations and bodies:  *)
(* a client hears only of what is its own; the one who asked hears all of  *)
(* it; what is told of an analysis is its story in order, and what is      *)
(* remembered the whole answer; the AI limiter counts each user exactly.   *)
(***************************************************************************)
EXTENDS Realtime, Folding

(***************************************************************************)
(* What the line reader makes of a body, for any pieces, lines and cuts:   *)
(* the reads may be cut anywhere, and the whole is the meaning of the      *)
(* complete lines.                                                         *)
(***************************************************************************)

\* The states of a reader.
Reader == [buffer : Seq(STRING), ready : Seq(Deltas), ended : BOOLEAN]

LEMMA OneMore == ASSUME NEW S, NEW c \in Seq(S), NEW x \in S PROVE Append(c, x) \in Seq(S)
OBVIOUS

LEMMA Buffered ==
    ASSUME NEW r \in Reader, NEW x
    PROVE  [r EXCEPT !.buffer = Append(@, x)]
             = [buffer |-> Append(r.buffer, x), ready |-> r.ready, ended |-> r.ended]
BY DEF Reader

\* A line adds a piece or nothing.
LEMMA AddPieceType ==
    ASSUME NEW p \in Seq(Deltas), NEW line PROVE AddPiece(p, line) \in Seq(Deltas)
<1>1. Parse(line) \in Deltas \union {Nothing}
  BY DEF Parse
<1> QED
  BY <1>1 DEF AddPiece

\* A symbol leaves a reader a reader.
LEMMA TakeType ==
    ASSUME NEW r \in Reader, NEW x \in STRING, NEW stops \in BOOLEAN
    PROVE  Take(r, x, stops) \in Reader
<1>1. EndOfLine(r, stops) \in Reader
  <2>1. AddPiece(r.ready, r.buffer) \in Seq(Deltas)
    BY AddPieceType DEF Reader
  <2>2. <<>> \in Seq(STRING)
    OBVIOUS
  <2>3. (stops /\ r.buffer = EndLine) \in BOOLEAN
    OBVIOUS
  <2> QED
    BY <2>1, <2>2, <2>3 DEF EndOfLine, Reader
<1>2. [r EXCEPT !.buffer = Append(@, x)] \in Reader
  BY DEF Reader
<1> QED
  BY <1>1, <1>2 DEF Take

\* A read takes the symbols one after another.
TakesAll(a, r, chunk, stops) ==
    /\ a[0] = r /\ a[Len(chunk)] = Feed(r, chunk, stops)
    /\ \A k \in 1..Len(chunk) : a[k] = Take(a[k - 1], chunk[k], stops)

LEMMA Feeding ==
    ASSUME NEW r \in Reader, NEW chunk \in Seq(STRING), NEW stops \in BOOLEAN
    PROVE  \E a \in [0..Len(chunk) -> Reader] : TakesAll(a, r, chunk, stops)
<1> DEFINE n == Len(chunk)
           F == [k \in 1..n |-> [x \in Reader |-> Take(x, chunk[k], stops)]]
           Fold(h) == h = [t \in SUBSET DOMAIN chunk |->
                             IF t = {} THEN r ELSE Take(h[t \ {Max(t)}], chunk[Max(t)], stops)]
           h == CHOOSE g : Fold(g)
<1>0. n \in Nat
  OBVIOUS
<1>1. n \in Nat /\ DOMAIN chunk = 1..n /\ n = Len(chunk) /\ \A k \in 1..n : chunk[k] \in STRING
  OBVIOUS
<1> HIDE DEF n
<1>2. F \in [1..n -> [Reader -> Reader]]
  BY <1>1, TakeType
<1>3. \A x \in Reader, k \in 1..n : F[k][x] = Take(x, chunk[k], stops)
  OBVIOUS
<1> HIDE DEF F
<1>4. PICK g \in [SUBSET (1..n) -> Reader] : IsFold(g, n, r, F)
  BY <1>1, <1>2, FoldExists, Zenon
<1>5. ASSUME NEW t \in SUBSET (1..n)
      PROVE  g[t] = IF t = {} THEN r ELSE Take(g[t \ {Max(t)}], chunk[Max(t)], stops)
  <2>1. g[t] = IF t = {} THEN r ELSE F[Max(t)][g[t \ {Max(t)}]]
    BY <1>4 DEF IsFold
  <2>2. t # {} => Max(t) \in 1..n /\ g[t \ {Max(t)}] \in Reader
    BY <1>1, GreatestIn
  <2> QED
    BY <1>3, <2>1, <2>2
<1>6. Fold(g)
  BY <1>1, <1>5
<1>7. Fold(h)
  <2> HIDE DEF Fold
  <2> QED
    BY <1>6
<1>8. Feed(r, chunk, stops) = h[1..n]
  BY <1>1, Zenon DEF Feed, FoldLeft, MapThenFoldSet
<1> HIDE DEF h
<1>9. h[{}] = r
  BY <1>1, <1>7
<1>10. ASSUME NEW k \in 1..n, h[1..(k - 1)] \in Reader
       PROVE  h[1..k] = F[k][h[1..(k - 1)]]
  <2>1. 1..k # {} /\ Max(1..k) = k /\ (1..k) \ {Max(1..k)} = 1..(k - 1) /\ 1..k \in SUBSET DOMAIN chunk
    BY <1>1, WholeLast
  <2>2. h[1..k] = Take(h[1..(k - 1)], chunk[k], stops)
    BY <1>7, <2>1
  <2> QED
    BY <1>3, <1>10, <2>2
<1>11. PICK a \in [0..n -> Reader] : IsTrace(a, n, r, F) /\ a[n] = h[1..n]
  <2>1. Follows(h, n, Reader, F)
    BY <1>10 DEF Follows
  <2> QED
    BY <1>0, <1>2, <1>9, <2>1, FoldTrace
<1>12. \A k \in 1..n : a[k - 1] \in Reader
  <2>1. \A k \in 1..n : k - 1 \in 0..n
    BY <1>1
  <2> QED
    BY <2>1
<1> QED
  BY <1>1, <1>3, <1>8, <1>11, <1>12 DEF IsTrace, TakesAll

\* So does a read.
LEMMA FeedType ==
    ASSUME NEW r \in Reader, NEW chunk \in Seq(STRING), NEW stops \in BOOLEAN
    PROVE  Feed(r, chunk, stops) \in Reader
<1>1. PICK a \in [0..Len(chunk) -> Reader] : TakesAll(a, r, chunk, stops)
  BY Feeding
<1>2. Len(chunk) \in 0..Len(chunk)
  OBVIOUS
<1> QED
  BY <1>1, <1>2 DEF TakesAll

\* A read of nothing changes nothing.
LEMMA FeedNothing ==
    ASSUME NEW r \in Reader, NEW stops \in BOOLEAN PROVE Feed(r, <<>>, stops) = r
<1> DEFINE c == <<>>
<1>1. c \in Seq(STRING) /\ Len(c) = 0
  OBVIOUS
<1> HIDE DEF c
<1>2. PICK a \in [0..Len(c) -> Reader] : TakesAll(a, r, c, stops)
  BY <1>1, Feeding
<1> QED
  BY <1>1, <1>2 DEF TakesAll, c

\* However a chunk is cut, it is the same in two reads as in one (the buffer of
\* analyzeStream in gemini.provider.ts and ollama.provider.ts).
THEOREM FeedInParts ==
    ASSUME NEW r \in Reader, NEW c \in Seq(STRING), NEW d \in Seq(STRING), NEW stops \in BOOLEAN
    PROVE  Feed(r, c \o d, stops) = Feed(Feed(r, c, stops), d, stops)
<1> DEFINE m == Len(c)
           n == Len(d)
           e == c \o d
           s == Feed(r, c, stops)
<1>0. m \in Nat /\ n \in Nat
  OBVIOUS
<1>1. /\ m \in Nat /\ n \in Nat /\ e \in Seq(STRING) /\ Len(e) = m + n
      /\ m = Len(c) /\ n = Len(d)
      /\ \A k \in 1..m : e[k] = c[k]
      /\ \A k \in 1..n : e[m + k] = d[k]
  OBVIOUS
<1>2. s \in Reader
  BY FeedType
<1> HIDE DEF e, m, n
<1>3. PICK a \in [0..Len(e) -> Reader] : TakesAll(a, r, e, stops)
  BY <1>1, Feeding
<1>4. PICK u \in [0..Len(c) -> Reader] : TakesAll(u, r, c, stops)
  BY Feeding
<1> HIDE DEF s
<1>5. PICK v \in [0..Len(d) -> Reader] : TakesAll(v, s, d, stops)
  BY <1>2, Feeding
<1>6. /\ a[0] = r /\ a[m + n] = Feed(r, e, stops)
      /\ \A k \in 1..(m + n) : a[k] = Take(a[k - 1], e[k], stops)
  BY <1>1, <1>3 DEF TakesAll
<1>7. /\ u[0] = r /\ u[m] = s
      /\ \A k \in 1..m : u[k] = Take(u[k - 1], c[k], stops)
  BY <1>1, <1>4 DEF TakesAll, s
<1>8. /\ v[0] = s /\ v[n] = Feed(s, d, stops)
      /\ \A k \in 1..n : v[k] = Take(v[k - 1], d[k], stops)
  BY <1>1, <1>5 DEF TakesAll
<1> DEFINE T == {k \in 0..m : a[k] = u[k]}
           U == {k \in 0..n : a[m + k] = v[k]}
<1>9. m \in T
  <2>1. 0 \in T
    BY <1>1, <1>6, <1>7
  <2>2. ASSUME NEW k \in 0..(m - 1), k \in T PROVE k + 1 \in T
    <3>1. k + 1 \in 1..m /\ k + 1 \in 1..(m + n) /\ (k + 1) - 1 = k
      BY <1>1
    <3>2. a[k + 1] = Take(a[k], e[k + 1], stops) /\ u[k + 1] = Take(u[k], c[k + 1], stops)
      BY <1>6, <1>7, <3>1
    <3>3. a[k + 1] = u[k + 1]
      BY <1>1, <2>2, <3>1, <3>2
    <3> QED
      BY <1>1, <3>1, <3>3
  <2>3. 0..m \subseteq T
    <3> HIDE DEF T
    <3> QED
      BY <1>1, <2>1, <2>2, InductTo
  <2>4. m \in 0..m
    BY <1>0
  <2> QED
    BY <2>3, <2>4
<1>10. n \in U
  <2>1. 0 \in U
    BY <1>1, <1>7, <1>8, <1>9
  <2>2. ASSUME NEW k \in 0..(n - 1), k \in U PROVE k + 1 \in U
    <3>1. k + 1 \in 1..n /\ m + (k + 1) \in 1..(m + n) /\ (k + 1) - 1 = k /\ (m + (k + 1)) - 1 = m + k
      BY <1>1
    <3>2. a[m + (k + 1)] = Take(a[m + k], d[k + 1], stops)
      BY <1>1, <1>6, <3>1
    <3> QED
      BY <1>8, <2>2, <3>1, <3>2
  <2>3. 0..n \subseteq U
    <3> HIDE DEF U
    <3> QED
      BY <1>1, <2>1, <2>2, InductTo
  <2>4. n \in 0..n
    BY <1>0
  <2> QED
    BY <2>3, <2>4
<1>11. Feed(r, e, stops) = Feed(s, d, stops)
  BY <1>6, <1>8, <1>10
<1> QED
  BY <1>11 DEF e, s

\* After its end a reader takes nothing more.
LEMMA FeedEnded ==
    ASSUME NEW r \in Reader, r.ended, NEW c \in Seq(STRING), NEW stops \in BOOLEAN
    PROVE  Feed(r, c, stops) = r
<1> DEFINE n == Len(c)
<1>1. n \in Nat /\ n = Len(c)
  OBVIOUS
<1> HIDE DEF n
<1>2. PICK a \in [0..Len(c) -> Reader] : TakesAll(a, r, c, stops)
  BY Feeding
<1>3. /\ a[0] = r /\ a[n] = Feed(r, c, stops)
      /\ \A k \in 1..n : a[k] = Take(a[k - 1], c[k], stops)
  BY <1>1, <1>2 DEF TakesAll
<1>4. \A y : Take(r, y, stops) = r
  BY DEF Take
<1> DEFINE T == {k \in 0..n : a[k] = r}
<1>5. 0 \in T
  BY <1>1, <1>3
<1>6. ASSUME NEW k \in 0..(n - 1), k \in T PROVE k + 1 \in T
  <2>1. k + 1 \in 1..n /\ (k + 1) - 1 = k
    BY <1>1
  <2>2. a[k + 1] = r
    BY <1>3, <1>4, <1>6, <2>1
  <2> QED
    BY <2>1, <2>2
<1>7. 0..n \subseteq T
  <2> HIDE DEF T
  <2> QED
    BY <1>1, <1>5, <1>6, InductTo
<1> QED
  BY <1>1, <1>3, <1>7

\* A reader with pieces before its own.
Ahead(x, r) == [buffer |-> r.buffer, ready |-> x \o r.ready, ended |-> r.ended]

LEMMA AheadType ==
    ASSUME NEW x \in Seq(Deltas), NEW r \in Reader
    PROVE  /\ Ahead(x, r) = [buffer |-> r.buffer, ready |-> x \o r.ready, ended |-> r.ended]
           /\ Ahead(x, r) \in Reader
<1>1. Ahead(x, r) = [buffer |-> r.buffer, ready |-> x \o r.ready, ended |-> r.ended]
  BY DEF Ahead
<1>2. x \o r.ready \in Seq(Deltas) /\ r.buffer \in Seq(STRING) /\ r.ended \in BOOLEAN
  BY DEF Reader
<1>3. [buffer |-> r.buffer, ready |-> x \o r.ready, ended |-> r.ended] \in Reader
  BY <1>2 DEF Reader
<1> QED
  BY <1>1, <1>3

\* What was passed on does not matter to what is read.
LEMMA TakeAhead ==
    ASSUME NEW x \in Seq(Deltas), NEW r \in Reader, NEW y \in STRING, NEW stops \in BOOLEAN
    PROVE  Take(Ahead(x, r), y, stops) = Ahead(x, Take(r, y, stops))
<1>1. r.ready \in Seq(Deltas)
  BY DEF Reader
<1>2. ASSUME NEW line PROVE AddPiece(x \o r.ready, line) = x \o AddPiece(r.ready, line)
  <2>1. Parse(line) \in Deltas \union {Nothing}
    BY DEF Parse
  <2>2. ASSUME NEW d \in Deltas PROVE Append(x \o r.ready, d) = x \o Append(r.ready, d)
    BY <1>1
  <2> QED
    BY <2>1, <2>2 DEF AddPiece
<1>3. Ahead(x, r) = [buffer |-> r.buffer, ready |-> x \o r.ready, ended |-> r.ended]
  BY AheadType
<1>4. EndOfLine(Ahead(x, r), stops) = Ahead(x, EndOfLine(r, stops))
  <2>1. Ahead(x, EndOfLine(r, stops)) = [buffer |-> <<>>, ready |-> x \o AddPiece(r.ready, r.buffer),
                                         ended |-> stops /\ r.buffer = EndLine]
    BY DEF Ahead, EndOfLine
  <2>2. EndOfLine(Ahead(x, r), stops) = [buffer |-> <<>>, ready |-> AddPiece(x \o r.ready, r.buffer),
                                         ended |-> stops /\ r.buffer = EndLine]
    BY <1>3 DEF EndOfLine
  <2> QED
    BY <1>2, <2>1, <2>2
<1>5. [Ahead(x, r) EXCEPT !.buffer = Append(@, y)] = Ahead(x, [r EXCEPT !.buffer = Append(@, y)])
  <2> DEFINE s == [r EXCEPT !.buffer = Append(@, y)]
             q == Ahead(x, r)
  <2>2. s.buffer = Append(r.buffer, y) /\ s.ready = r.ready /\ s.ended = r.ended
    BY Buffered
  <2>3. q \in Reader /\ q.buffer = r.buffer /\ q.ready = x \o r.ready /\ q.ended = r.ended
    BY AheadType
  <2> HIDE DEF s, q
  <2>4. [q EXCEPT !.buffer = Append(@, y)] = Ahead(x, s)
    <3>1. [q EXCEPT !.buffer = Append(@, y)]
            = [buffer |-> Append(q.buffer, y), ready |-> q.ready, ended |-> q.ended]
      BY <2>3, Buffered
    <3> QED
      BY <2>2, <2>3, <3>1 DEF Ahead
  <2> QED
    BY <2>4 DEF s, q
<1>6. Ahead(x, r).ended = r.ended
  BY <1>3
<1> QED
  BY <1>4, <1>5, <1>6 DEF Take

LEMMA FeedAhead ==
    ASSUME NEW x \in Seq(Deltas), NEW r \in Reader, NEW c \in Seq(STRING), NEW stops \in BOOLEAN
    PROVE  Feed(Ahead(x, r), c, stops) = Ahead(x, Feed(r, c, stops))
<1> DEFINE n == Len(c)
           q == Ahead(x, r)
<1>1. n \in Nat /\ n = Len(c) /\ \A k \in 1..n : c[k] \in STRING
  OBVIOUS
<1>2. q \in Reader
  BY AheadType
<1> HIDE DEF n, q
<1>3. PICK a \in [0..Len(c) -> Reader] : TakesAll(a, r, c, stops)
  BY Feeding
<1>4. PICK b \in [0..Len(c) -> Reader] : TakesAll(b, q, c, stops)
  BY <1>2, Feeding
<1>5. /\ a[0] = r /\ a[n] = Feed(r, c, stops)
      /\ \A k \in 1..n : a[k] = Take(a[k - 1], c[k], stops)
  BY <1>1, <1>3 DEF TakesAll
<1>6. /\ b[0] = q /\ b[n] = Feed(q, c, stops)
      /\ \A k \in 1..n : b[k] = Take(b[k - 1], c[k], stops)
  BY <1>1, <1>4 DEF TakesAll
<1> DEFINE T == {k \in 0..n : b[k] = Ahead(x, a[k])}
<1>7. 0 \in T
  BY <1>1, <1>5, <1>6 DEF q
<1>8. ASSUME NEW k \in 0..(n - 1), k \in T PROVE k + 1 \in T
  <2>1. k + 1 \in 1..n /\ (k + 1) - 1 = k /\ c[k + 1] \in STRING /\ k \in 0..n
    BY <1>1
  <2>2. b[k + 1] = Take(b[k], c[k + 1], stops) /\ a[k + 1] = Take(a[k], c[k + 1], stops)
    BY <1>5, <1>6, <2>1
  <2>3. a[k] \in Reader /\ b[k] = Ahead(x, a[k])
    BY <1>1, <1>3, <1>8, <2>1
  <2>4. b[k + 1] = Ahead(x, a[k + 1])
    BY <2>1, <2>2, <2>3, TakeAhead
  <2> QED
    BY <2>1, <2>4
<1>9. 0..n \subseteq T
  <2> HIDE DEF T
  <2> QED
    BY <1>1, <1>7, <1>8, InductTo
<1> QED
  BY <1>1, <1>5, <1>6, <1>9 DEF q

\* A line without its newline waits in the buffer.
LEMMA FeedLine ==
    ASSUME NEW r \in Reader, r.buffer = <<>>, ~r.ended,
           NEW c \in Seq(STRING \ {Newline}), NEW stops \in BOOLEAN
    PROVE  /\ Feed(r, c, stops) = [buffer |-> c, ready |-> r.ready, ended |-> FALSE]
           /\ Feed(r, Append(c, Newline), stops)
                = [buffer |-> <<>>, ready |-> AddPiece(r.ready, c), ended |-> stops /\ c = EndLine]
<1> DEFINE n == Len(c)
           d == Append(c, Newline)
           At(k) == [buffer |-> SubSeq(c, 1, k), ready |-> r.ready, ended |-> FALSE]
<1>0. n \in Nat
  OBVIOUS
<1>1. /\ n = Len(c) /\ c \in Seq(STRING)
      /\ \A k \in 1..n : c[k] \in STRING /\ c[k] # Newline
  OBVIOUS
<1>2. d \in Seq(STRING) /\ Len(d) = n + 1 /\ d[n + 1] = Newline /\ \A k \in 1..n : d[k] = c[k]
  BY NewlineAssumption
<1>3. At(0) = r /\ At(n) = [buffer |-> c, ready |-> r.ready, ended |-> FALSE]
  <2>1. SubSeq(c, 1, 0) = <<>> /\ SubSeq(c, 1, n) = c
    OBVIOUS
  <2>2. r = [buffer |-> <<>>, ready |-> r.ready, ended |-> FALSE]
    BY DEF Reader
  <2> QED
    BY <2>1, <2>2
<1>4. ASSUME NEW k \in 0..(n - 1) PROVE Take(At(k), c[k + 1], stops) = At(k + 1)
  <2>1. SubSeq(c, 1, k + 1) = Append(SubSeq(c, 1, k), c[k + 1]) /\ k + 1 \in 1..n
    OBVIOUS
  <2>2. ~At(k).ended /\ c[k + 1] # Newline
    BY <1>1, <2>1
  <2>3. [At(k) EXCEPT !.buffer = Append(@, c[k + 1])]
          = [buffer |-> Append(SubSeq(c, 1, k), c[k + 1]), ready |-> r.ready, ended |-> FALSE]
    <3> DEFINE q == At(k)
    <3>1. q.buffer = SubSeq(c, 1, k) /\ q.ready = r.ready /\ q.ended = FALSE
      OBVIOUS
    <3>2. q \in Reader
      <4>1. SubSeq(c, 1, k) \in Seq(STRING) /\ r.ready \in Seq(Deltas)
        BY <1>1 DEF Reader
      <4> QED
        BY <4>1 DEF Reader
    <3> HIDE DEF q
    <3>3. [q EXCEPT !.buffer = Append(@, c[k + 1])]
            = [buffer |-> Append(SubSeq(c, 1, k), c[k + 1]), ready |-> r.ready, ended |-> FALSE]
      BY <3>1, <3>2, Buffered
    <3> QED
      BY <3>3 DEF q
  <2> QED
    BY <2>1, <2>2, <2>3 DEF Take
<1>5. Take(At(n), Newline, stops)
        = [buffer |-> <<>>, ready |-> AddPiece(r.ready, c), ended |-> stops /\ c = EndLine]
  <2>1. ~At(n).ended /\ At(n).buffer = c /\ At(n).ready = r.ready
    BY <1>3
  <2> HIDE DEF At
  <2> QED
    BY <2>1 DEF Take, EndOfLine
<1> HIDE DEF n, d, At
<1>6. ASSUME NEW e \in Seq(STRING), NEW m \in Nat, m = Len(e), n <= m, \A k \in 1..n : e[k] = c[k],
             NEW a \in [0..Len(e) -> Reader], TakesAll(a, r, e, stops)
      PROVE  a[n] = At(n)
  <2>1. a[0] = r /\ \A k \in 1..m : a[k] = Take(a[k - 1], e[k], stops)
    BY <1>6 DEF TakesAll
  <2> DEFINE T == {k \in 0..n : a[k] = At(k)}
  <2>2. 0 \in T
    BY <1>0, <1>3, <2>1
  <2>3. ASSUME NEW k \in 0..(n - 1), k \in T PROVE k + 1 \in T
    <3>1. k + 1 \in 1..n /\ k + 1 \in 1..m /\ (k + 1) - 1 = k
      BY <1>0, <1>6
    <3>2. a[k + 1] = Take(a[k], c[k + 1], stops)
      BY <1>6, <2>1, <3>1
    <3>3. a[k + 1] = At(k + 1)
      BY <1>4, <2>3, <3>2
    <3> QED
      BY <3>1, <3>3
  <2>4. 0..n \subseteq T
    <3> HIDE DEF T
    <3> QED
      BY <1>0, <2>2, <2>3, InductTo
  <2>5. n \in 0..n
    BY <1>0
  <2> QED
    BY <2>4, <2>5
<1>7. Feed(r, c, stops) = At(n)
  <2>1. PICK a \in [0..Len(c) -> Reader] : TakesAll(a, r, c, stops)
    BY <1>1, Feeding
  <2>2. a[n] = At(n)
    BY <1>0, <1>1, <1>6, <2>1
  <2> QED
    BY <1>1, <2>1, <2>2 DEF TakesAll
<1>8. Feed(r, d, stops) = Take(At(n), Newline, stops)
  <2>1. PICK a \in [0..Len(d) -> Reader] : TakesAll(a, r, d, stops)
    BY <1>2, Feeding
  <2>2. n + 1 \in Nat /\ n <= n + 1 /\ n + 1 \in 1..(n + 1) /\ (n + 1) - 1 = n
    BY <1>0
  <2>3. a[n] = At(n)
    BY <1>2, <1>6, <2>1, <2>2
  <2>4. a[n + 1] = Feed(r, d, stops) /\ a[n + 1] = Take(a[n], Newline, stops)
    BY <1>2, <2>1, <2>2 DEF TakesAll
  <2> QED
    BY <2>3, <2>4
<1> QED
  BY <1>3, <1>5, <1>7, <1>8 DEF d

\* The pieces of lines, taken one after another.
AddsAll(a, lines) ==
    /\ a[0] = <<>> /\ a[Len(lines)] = FoldLeft(AddPiece, <<>>, lines)
    /\ \A k \in 1..Len(lines) : a[k] = AddPiece(a[k - 1], lines[k])

LEMMA Adding ==
    ASSUME NEW S, NEW lines \in Seq(S)
    PROVE  \E a \in [0..Len(lines) -> Seq(Deltas)] : AddsAll(a, lines)
<1> DEFINE n == Len(lines)
           b == <<>>
           X == Seq(Deltas)
           F == [k \in 1..n |-> [x \in X |-> AddPiece(x, lines[k])]]
           Fold(h) == h = [t \in SUBSET DOMAIN lines |->
                             IF t = {} THEN b ELSE AddPiece(h[t \ {Max(t)}], lines[Max(t)])]
           h == CHOOSE g : Fold(g)
<1>0. n \in Nat
  OBVIOUS
<1>1. n \in Nat /\ DOMAIN lines = 1..n /\ n = Len(lines) /\ b = <<>> /\ X = Seq(Deltas)
  OBVIOUS
<1>b. b \in X
  OBVIOUS
<1> HIDE DEF n, b, X
<1>2. F \in [1..n -> [X -> X]]
  BY <1>1, AddPieceType
<1>3. \A x \in X, k \in 1..n : F[k][x] = AddPiece(x, lines[k])
  OBVIOUS
<1> HIDE DEF F
<1>4. PICK g \in [SUBSET (1..n) -> X] : IsFold(g, n, b, F)
  BY <1>0, <1>b, <1>2, FoldExists, Zenon
<1>5. ASSUME NEW t \in SUBSET (1..n)
      PROVE  g[t] = IF t = {} THEN b ELSE AddPiece(g[t \ {Max(t)}], lines[Max(t)])
  <2>1. g[t] = IF t = {} THEN b ELSE F[Max(t)][g[t \ {Max(t)}]]
    BY <1>4 DEF IsFold
  <2>2. t # {} => Max(t) \in 1..n /\ g[t \ {Max(t)}] \in X
    BY <1>1, GreatestIn
  <2> QED
    BY <1>3, <2>1, <2>2
<1>6. Fold(g)
  BY <1>1, <1>5
<1>7. Fold(h)
  <2> HIDE DEF Fold
  <2> QED
    BY <1>6
<1>8. FoldLeft(AddPiece, b, lines) = h[1..n]
  BY <1>1, Zenon DEF FoldLeft, MapThenFoldSet
<1> HIDE DEF h
<1>9. h[{}] = b
  BY <1>1, <1>7
<1>10. ASSUME NEW k \in 1..n, h[1..(k - 1)] \in X
       PROVE  h[1..k] = F[k][h[1..(k - 1)]]
  <2>1. 1..k # {} /\ Max(1..k) = k /\ (1..k) \ {Max(1..k)} = 1..(k - 1) /\ 1..k \in SUBSET DOMAIN lines
    BY <1>1, WholeLast
  <2>2. h[1..k] = AddPiece(h[1..(k - 1)], lines[k])
    BY <1>7, <2>1
  <2> QED
    BY <1>3, <1>10, <2>2
<1>11. PICK a \in [0..n -> X] : IsTrace(a, n, b, F) /\ a[n] = h[1..n]
  <2>1. Follows(h, n, X, F)
    BY <1>10 DEF Follows
  <2> QED
    BY <1>0, <1>b, <1>2, <1>9, <2>1, FoldTrace
<1>12. \A k \in 1..n : a[k - 1] \in X
  <2>1. \A k \in 1..n : k - 1 \in 0..n
    BY <1>1
  <2> QED
    BY <2>1
<1> QED
  <2>1. a \in [0..Len(lines) -> Seq(Deltas)]
    BY <1>1, <1>11
  <2>2. a[0] = <<>> /\ a[Len(lines)] = FoldLeft(AddPiece, <<>>, lines)
    <3>1. a[0] = b /\ a[n] = FoldLeft(AddPiece, b, lines)
      BY <1>8, <1>11 DEF IsTrace
    <3> QED
      BY <3>1 DEF b, n
  <2>3. \A k \in 1..Len(lines) : a[k] = AddPiece(a[k - 1], lines[k])
    BY <1>1, <1>3, <1>11, <1>12 DEF IsTrace
  <2> QED
    BY <2>1, <2>2, <2>3 DEF AddsAll

LEMMA FreshType == Fresh \in Reader /\ Fresh.buffer = <<>> /\ Fresh.ready = <<>> /\ ~Fresh.ended
<1>1. <<>> \in Seq(STRING) /\ <<>> \in Seq(Deltas)
  OBVIOUS
<1> QED
  BY <1>1 DEF Fresh, Reader

\* A body is a sequence of symbols.
LEMMA Lines ==
    ASSUME NEW lines \in Seq(Seq(STRING \ {Newline}))
    PROVE  [i \in DOMAIN lines |-> Append(lines[i], Newline)] \in Seq(Seq(STRING))
<1> DEFINE n == Len(lines)
<1>1. n \in Nat /\ DOMAIN lines = 1..n /\ \A i \in 1..n : lines[i] \in Seq(STRING \ {Newline})
  OBVIOUS
<1> HIDE DEF n
<1>2. ASSUME NEW c \in Seq(STRING \ {Newline}) PROVE Append(c, Newline) \in Seq(STRING)
  <2>1. c \in Seq(STRING)
    OBVIOUS
  <2> QED
    BY <2>1, NewlineAssumption, OneMore
<1>3. \A i \in 1..n : Append(lines[i], Newline) \in Seq(STRING)
  BY <1>1, <1>2
<1> QED
  BY <1>1, <1>3

LEMMA BodyType ==
    ASSUME NEW lines \in Seq(Seq(STRING \ {Newline})), NEW tail \in Seq(STRING \ {Newline})
    PROVE  Body(lines, tail) \in Seq(STRING)
<1> DEFINE s == [i \in DOMAIN lines |-> Append(lines[i], Newline)]
<1>1. s \in Seq(Seq(STRING)) /\ tail \in Seq(STRING)
  <2>1. tail \in Seq(STRING)
    OBVIOUS
  <2> QED
    BY <2>1, Lines
<1> HIDE DEF s
<1>2. PICK f \in [0..Len(s) -> Seq(STRING)] : IsFlat(f, s)
  BY <1>1, Flattening
<1>3. FlattenSeq(s) \in Seq(STRING)
  <2>1. Len(s) \in 0..Len(s)
    BY <1>1
  <2> QED
    BY <1>2, <2>1 DEF IsFlat
<1>4. FlattenSeq(s) \o tail \in Seq(STRING)
  BY <1>1, <1>3
<1> QED
  BY <1>4 DEF Body, s

\* Where the meaning of a body ends.
UpTo(lines, stops) ==
    LET ends == {n \in DOMAIN lines : stops /\ lines[n] = EndLine}
    IN IF ends = {} THEN Len(lines) ELSE Min(ends)

LEMMA EndsAt ==
    ASSUME NEW S, NEW lines \in Seq(S), NEW stops \in BOOLEAN
    PROVE  /\ UpTo(lines, stops) \in 0..Len(lines)
           /\ \A i \in 1..(UpTo(lines, stops) - 1) : ~(stops /\ lines[i] = EndLine)
           /\ UpTo(lines, stops) < Len(lines) =>
                 UpTo(lines, stops) # 0 /\ stops /\ lines[UpTo(lines, stops)] = EndLine
<1> DEFINE ends == {n \in DOMAIN lines : stops /\ lines[n] = EndLine}
           u == UpTo(lines, stops)
<1>1. DOMAIN lines = 1..Len(lines) /\ Len(lines) \in Nat
  OBVIOUS
<1>2. CASE ends = {}
  <2>1. u = Len(lines)
    BY <1>2 DEF UpTo
  <2>2. \A i \in 1..(u - 1) : i \in DOMAIN lines
    BY <1>1, <2>1
  <2> HIDE DEF u
  <2>3. u \in 0..Len(lines) /\ ~(u < Len(lines)) /\ \A i \in 1..(u - 1) : ~(stops /\ lines[i] = EndLine)
    BY <1>1, <1>2, <2>1, <2>2
  <2> QED
    BY <2>3 DEF u
<1>3. CASE ends # {}
  <2>1. u = Min(ends)
    BY <1>3 DEF UpTo
  <2>2. ends \in SUBSET Nat
    BY <1>1
  <2>3. Min(ends) = CHOOSE x \in ends : \A y \in ends : x <= y
    BY DEF Min
  <2>4. \E x \in ends : \A y \in ends : x <= y
    <3> HIDE DEF ends
    <3> QED
      BY <1>3, <2>2, Least
  <2>5. u \in ends /\ \A y \in ends : u <= y
    BY <2>1, <2>3, <2>4
  <2> HIDE DEF u
  <2>6. u \in 1..Len(lines) /\ stops /\ lines[u] = EndLine
    BY <1>1, <2>5
  <2>7. ASSUME NEW i \in 1..(u - 1) PROVE ~(stops /\ lines[i] = EndLine)
    <3>1. i \in DOMAIN lines /\ ~(u <= i)
      BY <1>1, <2>6
    <3> QED
      BY <2>5, <3>1
  <2>8. u \in 0..Len(lines) /\ u # 0
    BY <2>6
  <2> QED
    BY <2>6, <2>7, <2>8 DEF u
<1> QED
  BY <1>2, <1>3

\* A reader given a body, however long, yields the pieces of its complete
\* lines in order, up to the line that ends it, and nothing of its tail.
THEOREM BodyMeans ==
    ASSUME NEW lines \in Seq(Seq(STRING \ {Newline})), NEW tail \in Seq(STRING \ {Newline}),
           NEW stops \in BOOLEAN
    PROVE  Feed(Fresh, Body(lines, tail), stops).ready = Meaning(lines, stops)
<1> DEFINE n == Len(lines)
           m == UpTo(lines, stops)
           s == [i \in DOMAIN lines |-> Append(lines[i], Newline)]
           head == SubSeq(lines, 1, m)
<1>0. n \in Nat
  OBVIOUS
<1>1. /\ n = Len(lines) /\ tail \in Seq(STRING) /\ DOMAIN lines = 1..n
      /\ \A i \in 1..n : lines[i] \in Seq(STRING \ {Newline})
  OBVIOUS
<1>2. s \in Seq(Seq(STRING)) /\ Len(s) = n /\ \A i \in 1..n : s[i] = Append(lines[i], Newline) /\ s[i] \in Seq(STRING)
  <2>1. s \in Seq(Seq(STRING))
    BY Lines
  <2>2. DOMAIN s = 1..n
    BY <1>1
  <2>3. \A i \in 1..n : s[i] = Append(lines[i], Newline)
    BY <1>1
  <2> HIDE DEF s
  <2>4. Len(s) = n
    BY <1>0, <2>1, <2>2
  <2>5. \A i \in 1..n : s[i] \in Seq(STRING)
    BY <2>1, <2>4
  <2> QED
    BY <2>1, <2>3, <2>4, <2>5
<1>3. m \in 0..n /\ (\A i \in 1..(m - 1) : ~(stops /\ lines[i] = EndLine))
      /\ (m < n => m # 0 /\ stops /\ lines[m] = EndLine)
  BY EndsAt
<1>4. m \in Nat /\ n - m \in Nat
  <2> HIDE DEF m, n
  <2> QED
    BY <1>0, <1>3
<1>5. head \in Seq(Seq(STRING)) /\ Len(head) = m /\ \A i \in 1..m : head[i] = lines[i]
  <2> HIDE DEF m
  <2> QED
    BY <1>3
<1>6. Meaning(lines, stops) = FoldLeft(AddPiece, <<>>, head)
  BY DEF Meaning, UpTo
<1>7. Body(lines, tail) = FlattenSeq(s) \o tail
  BY DEF Body
<1> HIDE DEF n, m, s, head
<1>8. PICK f \in [0..Len(s) -> Seq(STRING)] : IsFlat(f, s)
  BY <1>2, Flattening
<1>9. /\ f \in [0..n -> Seq(STRING)] /\ f[0] = <<>> /\ f[n] = FlattenSeq(s)
      /\ \A i \in 1..n : f[i] = f[i - 1] \o s[i]
  BY <1>2, <1>8 DEF IsFlat
<1>10. PICK w \in [0..Len(head) -> Seq(Deltas)] : AddsAll(w, head)
  BY <1>5, Adding
<1>11. /\ w \in [0..m -> Seq(Deltas)] /\ w[0] = <<>> /\ w[m] = Meaning(lines, stops)
       /\ \A i \in 1..m : w[i] = AddPiece(w[i - 1], lines[i])
  BY <1>5, <1>6, <1>10 DEF AddsAll
<1>12. Fresh \in Reader /\ Fresh.buffer = <<>> /\ Fresh.ready = <<>> /\ ~Fresh.ended
  BY FreshType
<1> DEFINE G(i) == Feed(Fresh, f[i], stops)
<1>13. \A i \in 0..n : G(i) \in Reader
  BY <1>9, <1>12, FeedType
<1>14. ASSUME NEW i \in 0..(n - 1) PROVE G(i + 1) = Feed(G(i), s[i + 1], stops)
  <2>1. i + 1 \in 1..n /\ (i + 1) - 1 = i /\ i \in 0..n
    BY <1>0
  <2>2. f[i] \in Seq(STRING) /\ s[i + 1] \in Seq(STRING) /\ f[i + 1] = f[i] \o s[i + 1]
    BY <1>2, <1>9, <2>1
  <2> QED
    BY <1>12, <2>2, FeedInParts
<1> DEFINE At(i) == /\ G(i).buffer = <<>> /\ G(i).ready = w[i]
                    /\ G(i).ended <=> (i # 0 /\ stops /\ lines[i] = EndLine)
           T == {i \in 0..m : At(i)}
<1>15. At(0)
  BY <1>9, <1>11, <1>12, FeedNothing
<1>16. ASSUME NEW i \in 0..(m - 1), At(i) PROVE At(i + 1)
  <2>1. i + 1 \in 1..m /\ i + 1 \in 1..n /\ (i + 1) - 1 = i /\ i \in 0..n /\ i \in 0..(n - 1)
        /\ (i # 0 => i \in 1..(m - 1))
    BY <1>0, <1>3, <1>4
  <2>2. ~G(i).ended
    BY <1>3, <1>16, <2>1
  <2> DEFINE q == G(i)
             c == lines[i + 1]
  <2>3. q \in Reader /\ q.buffer = <<>> /\ ~q.ended /\ q.ready = w[i] /\ c \in Seq(STRING \ {Newline})
    BY <1>1, <1>13, <1>16, <2>1, <2>2
  <2>4. G(i + 1) = Feed(q, Append(c, Newline), stops)
    BY <1>2, <1>14, <2>1
  <2>5. w[i + 1] = AddPiece(w[i], c)
    BY <1>11, <2>1
  <2> HIDE DEF q, c, G
  <2>6. Feed(q, Append(c, Newline), stops)
          = [buffer |-> <<>>, ready |-> AddPiece(q.ready, c), ended |-> stops /\ c = EndLine]
    BY <2>3, FeedLine
  <2>7. G(i + 1).buffer = <<>> /\ G(i + 1).ready = w[i + 1] /\ (G(i + 1).ended <=> (stops /\ c = EndLine))
    <3> DEFINE p == [buffer |-> <<>>, ready |-> AddPiece(q.ready, c), ended |-> stops /\ c = EndLine]
    <3>1. p.buffer = <<>> /\ p.ready = AddPiece(q.ready, c) /\ p.ended = (stops /\ c = EndLine)
      OBVIOUS
    <3>2. G(i + 1) = p
      BY <2>4, <2>6
    <3> HIDE DEF p
    <3> QED
      BY <2>3, <2>5, <3>1, <3>2
  <2>8. i + 1 # 0
    BY <2>1
  <2> QED
    BY <2>7, <2>8 DEF c
<1>17. At(m)
  <2>1. 0 \in T
    <3> HIDE DEF At
    <3> QED
      BY <1>4, <1>15
  <2>2. ASSUME NEW i \in 0..(m - 1), i \in T PROVE i + 1 \in T
    <3>1. i + 1 \in 0..m
      BY <1>4
    <3> HIDE DEF At
    <3> QED
      BY <1>16, <2>2, <3>1
  <2>3. 0..m \subseteq T
    <3> HIDE DEF T
    <3> QED
      BY <1>4, <2>1, <2>2, InductTo
  <2>4. m \in 0..m
    BY <1>4
  <2> HIDE DEF At
  <2> QED
    BY <2>3, <2>4
<1>18. G(n) = G(m)
  <2> DEFINE k == n - m
             U == {i \in 0..k : G(m + i) = G(m)}
  <2>1. CASE m = n
    BY <2>1
  <2>2. CASE m # n
    <3>1. G(m).ended
      BY <1>0, <1>3, <1>4, <1>17, <2>2
    <3>2. k \in Nat /\ m + k = n /\ m \in 0..n
      BY <1>0, <1>3, <1>4
    <3>3. 0 \in U
      BY <1>4, <3>2
    <3>4. ASSUME NEW i \in 0..(k - 1), i \in U PROVE i + 1 \in U
      <4>1. m + i \in 0..(n - 1) /\ (m + i) + 1 = m + (i + 1) /\ i + 1 \in 0..k /\ (m + i) + 1 \in 1..n
        BY <1>0, <1>4, <3>2
      <4>2. G((m + i) + 1) = Feed(G(m), s[(m + i) + 1], stops)
        BY <1>14, <3>4, <4>1
      <4>3. s[(m + i) + 1] \in Seq(STRING)
        BY <1>2, <4>1
      <4>4. G(m) \in Reader
        BY <1>13, <3>2
      <4> HIDE DEF G
      <4>5. G((m + i) + 1) = G(m)
        BY <3>1, <4>2, <4>3, <4>4, FeedEnded
      <4> QED
        BY <4>1, <4>5
    <3>5. 0..k \subseteq U
      <4> HIDE DEF U, k
      <4> QED
        BY <3>2, <3>3, <3>4, InductTo
    <3>6. k \in 0..k
      BY <3>2
    <3> HIDE DEF G, k
    <3> QED
      BY <3>2, <3>5, <3>6
  <2> QED
    BY <2>1, <2>2
<1>19. Feed(Fresh, Body(lines, tail), stops) = Feed(G(n), tail, stops)
  <2>1. n \in 0..n
    BY <1>0
  <2> QED
    BY <1>1, <1>7, <1>9, <1>12, <2>1, FeedInParts
<1>20. G(n) \in Reader
  <2>1. n \in 0..n
    BY <1>0
  <2> QED
    BY <1>13, <2>1
<1> DEFINE q == G(n)
<1>21. q \in Reader /\ q.buffer = <<>> /\ q.ready = Meaning(lines, stops)
  BY <1>11, <1>17, <1>18, <1>20
<1> HIDE DEF q
<1>22. Feed(q, tail, stops).ready = q.ready
  <2>1. CASE q.ended
    BY <1>1, <1>21, <2>1, FeedEnded
  <2>2. CASE ~q.ended
    <3>1. Feed(q, tail, stops) = [buffer |-> tail, ready |-> q.ready, ended |-> FALSE]
      BY <1>21, <2>2, FeedLine
    <3> QED
      BY <3>1
  <2> QED
    BY <2>1, <2>2
<1> QED
  BY <1>19, <1>21, <1>22 DEF q

(***************************************************************************)
(* The first inductive invariant: what is heard was asked by one who may   *)
(* use the session, and reached one who may join its room.                 *)
(***************************************************************************)

Fields(r) ==
    [pc |-> r.pc, socket |-> r.socket, client |-> r.client, user |-> r.user,
     session |-> r.session, wire |-> r.wire, pos |-> r.pos, reader |-> r.reader,
     full |-> r.full, task |-> r.task]

Connection ==
    [pc : {"out", "verify", "audit", "in", "refused", "gone"}, token : Tokens \union {None},
     user : User \union {None}, rooms : SUBSET Sessions]

\* The shapes of the state; what a body holds does not matter here.
Shapes ==
    /\ setting \in Settings
    /\ socket \in [Sockets -> Connection]
    /\ job = [j \in Jobs |-> job[j]]
    /\ \A j \in Jobs : job[j] = Fields(job[j])
    /\ heard = [k \in Sockets |-> heard[k]]
    /\ \A k \in Sockets : heard[k] = [j \in Jobs |-> heard[k][j]]

\* A socket that is in has a user, one that was never in has none; the rooms are its own.
RoomsOwn ==
    \A k \in Sockets :
        /\ socket[k].pc = "in" => socket[k].user \in User
        /\ socket[k].pc \in {"out", "verify"} => socket[k].user = None /\ socket[k].rooms = {}
        /\ socket[k].pc = "verify" => socket[k].token \in Tokens
        /\ \A s \in socket[k].rooms : CanJoinRoom(socket[k].user, s)

Allowed(r) == r.user \in User /\ r.session \in Sessions /\ CanJoinRoom(r.user, r.session)

\* What is published is of a user that may use the session.
AskedOwn ==
    \A j \in Jobs :
        /\ job[j].pc \in {"auth", "limit"} => job[j].client \in Clients /\ job[j].session \in Sessions
        /\ job[j].pc = "limit" => job[j].user \in User
        /\ job[j].pc \in {"idle", "auth", "limit"} => ~job[j].task
        /\ job[j].pc \in {"reads", "ask", "stream", "ending"} \/ job[j].task => Allowed(job[j])

\* What was heard, was asked and heard by such users, and neither changes any more.
HeardOwn ==
    \A k \in Sockets, j \in Jobs :
        heard[k][j] # <<>> =>
            /\ job[j].pc \notin {"idle", "auth", "limit"} /\ Allowed(job[j])
            /\ socket[k].user \in User /\ CanJoinRoom(socket[k].user, job[j].session)

IInv == Shapes /\ RoomsOwn /\ AskedOwn /\ HeardOwn

(***************************************************************************)
(* Users                                                                   *)
(***************************************************************************)

LEMMA Users ==
    /\ Nobody \in User
    /\ \A t \in Tokens : Soft(t) \in User /\ Decoded(t) \in User
BY UidAssumption, IdentityAssumption DEF Nobody, Soft, Decoded, ResolveRole, User, Role, Privileged

LEMMA BearerIsUser ==
    ASSUME NEW c \in Clients PROVE Bearer(c) \in User \union {None}
<1>1. c.token \in Tokens \union {None}
  BY ClientsAssumption
<1> QED
  BY <1>1, Users DEF Bearer

\* requireOwnership asks no less than canJoinRoom.
LEMMA OwnsJoins ==
    ASSUME NEW u \in User, NEW s \in Sessions, Owns(u, s) PROVE CanJoinRoom(u, s)
BY UidAssumption, WithinAssumption DEF Owns, CanJoinRoom, User

(***************************************************************************)
(* What a publication changes                                              *)
(***************************************************************************)

LEMMA Heard ==
    ASSUME Shapes, NEW j \in Jobs, NEW event, NEW L, Publish(j, event, L)
    PROVE  /\ heard' = [k \in Sockets |-> heard'[k]]
           /\ \A k \in Sockets : heard'[k] = [i \in Jobs |-> heard'[k][i]]
           /\ \A k \in Sockets, i \in Jobs :
                 heard'[k][i] # <<>> => heard[k][i] # <<>> \/ (i = j /\ k \in L)
BY DEF Shapes, Publish

LEMMA ListenersOwn ==
    ASSUME IInv, NEW s \in Sessions, NEW k \in Listeners(s)
    PROVE  k \in Sockets /\ socket[k].user \in User /\ CanJoinRoom(socket[k].user, s)
BY DEF IInv, RoomsOwn, Listeners

\* A step that publishes nothing and leaves sockets, questions and users alone.
LEMMA Quiet ==
    ASSUME IInv, NEW j \in Jobs, setting' = setting, socket' = socket, heard' = heard,
           NEW r, r = Fields(r), job' = [job EXCEPT ![j] = r],
           r.user = job[j].user, r.session = job[j].session, r.client = job[j].client,
           job[j].pc \in {"reads", "ask", "stream", "ending"} \/ job[j].task,
           r.pc \notin {"idle", "auth", "limit"}
    PROVE  IInv'
<1>1. Allowed(job[j]) /\ Allowed(r)
  BY DEF IInv, AskedOwn, Allowed
<1>2. Shapes'
  BY DEF IInv, Shapes
<1>3. /\ job'[j] = r
      /\ \A i \in Jobs : i # j => job'[i] = job[i]
  BY DEF IInv, Shapes
<1>4. RoomsOwn'
  BY DEF IInv, RoomsOwn
<1>5. AskedOwn'
  BY <1>1, <1>3 DEF IInv, AskedOwn
<1>6. HeardOwn'
  BY <1>1, <1>3 DEF IInv, HeardOwn
<1> QED
  BY <1>2, <1>4, <1>5, <1>6 DEF IInv


\* A step of an analysis under way that publishes an event of it in its room.
LEMMA Loud ==
    ASSUME IInv, NEW j \in Jobs, setting' = setting, socket' = socket,
           NEW event, Tell(j, event),
           NEW r, r = Fields(r), job' = [job EXCEPT ![j] = r],
           r.user = job[j].user, r.session = job[j].session, r.client = job[j].client,
           Allowed(job[j]), r.pc \notin {"idle", "auth", "limit"}
    PROVE  IInv'
<1>1. Allowed(r)
  BY DEF Allowed
<1>2. Shapes'
  BY Heard DEF IInv, Shapes, Tell
<1>3. /\ job'[j] = r
      /\ \A i \in Jobs : i # j => job'[i] = job[i]
  BY DEF IInv, Shapes
<1>4. RoomsOwn'
  BY DEF IInv, RoomsOwn
<1>5. AskedOwn'
  BY <1>1, <1>3 DEF IInv, AskedOwn
<1>6. HeardOwn'
  <2> SUFFICES ASSUME NEW k \in Sockets, NEW i \in Jobs, heard'[k][i] # <<>>
               PROVE  /\ job'[i].pc \notin {"idle", "auth", "limit"} /\ Allowed(job'[i])
                      /\ socket[k].user \in User /\ CanJoinRoom(socket[k].user, job'[i].session)
    BY DEF HeardOwn, Allowed, CanJoinRoom
  <2>1. heard[k][i] # <<>> \/ (i = j /\ k \in Listeners(job[j].session))
    BY Heard DEF IInv, Tell
  <2>2. CASE i = j /\ k \in Listeners(job[j].session)
    BY <1>1, <1>3, <2>2, ListenersOwn DEF Allowed
  <2>3. CASE heard[k][i] # <<>>
    BY <1>1, <1>3, <2>3 DEF IInv, HeardOwn
  <2> QED
    BY <2>1, <2>2, <2>3
<1> QED
  BY <1>2, <1>4, <1>5, <1>6 DEF IInv

\* A step of a socket alone: of one that joins a room of its own, goes, or comes in.
LEMMA OneSocket ==
    ASSUME IInv, NEW k \in Sockets, setting' = setting, job' = job, heard' = heard,
           NEW c \in Connection,
           socket' = [socket EXCEPT ![k] = c],
           c.user = socket[k].user \/ (socket[k].user = None /\ c.rooms = {}),
           c.pc = "in" => c.user \in User, c.pc \in {"out", "verify"} => c.user = None /\ c.rooms = {},
           c.pc = "verify" => c.token \in Tokens,
           \A s \in c.rooms : CanJoinRoom(c.user, s)
    PROVE  IInv'
<1>1. /\ socket'[k] = c
      /\ \A i \in Sockets : i # k => socket'[i] = socket[i]
  BY DEF IInv, Shapes
<1>2. Shapes'
  BY DEF IInv, Shapes
<1>3. RoomsOwn'
  BY <1>1 DEF IInv, RoomsOwn
<1>4. AskedOwn'
  BY DEF IInv, AskedOwn
<1>5. HeardOwn'
  BY <1>1, AbsenceAssumption DEF IInv, HeardOwn
<1> QED
  BY <1>2, <1>3, <1>4, <1>5 DEF IInv

(***************************************************************************)
(* The steps                                                               *)
(***************************************************************************)

LEMMA Begins == Init => IInv
<1> SUFFICES ASSUME Init PROVE IInv
  OBVIOUS
<1>1. Shapes
  <2>1. setting \in Settings
    BY DEF Init
  <2>2. socket \in [Sockets -> Connection]
    BY DEF Init, Connection
  <2>3. job = [j \in Jobs |-> job[j]] /\ \A j \in Jobs : job[j] = Fields(job[j])
    BY DEF Init, Idle, Fields
  <2>4. /\ heard = [k \in Sockets |-> heard[k]]
        /\ \A k \in Sockets : heard[k] = [j \in Jobs |-> heard[k][j]]
    BY DEF Init
  <2> QED
    BY <2>1, <2>2, <2>3, <2>4 DEF Shapes
<1>2. RoomsOwn /\ AskedOwn /\ HeardOwn
  BY DEF Init, Idle, RoomsOwn, AskedOwn, HeardOwn
<1> QED
  BY <1>1, <1>2 DEF IInv

LEMMA SocketShape ==
    ASSUME IInv, NEW k \in Sockets
    PROVE  socket[k] \in Connection
BY DEF IInv, Shapes

\* The settings name sessions, tokens and analyses.
LEMMA SettingShape ==
    ASSUME IInv
    PROVE  /\ setting.tokens \subseteq Tokens \union {None} /\ setting.asked \subseteq Sessions
           /\ setting.streams \subseteq Jobs /\ setting.requests \subseteq Jobs
BY SettingsAssumption DEF IInv, Shapes

LEMMA ConnectKeeps ==
    ASSUME IInv, NEW k \in Sockets, NEW t \in setting.tokens, Connect(k, t) PROVE IInv'
<1>1. t \in Tokens \union {None} /\ socket[k].pc = "out"
  BY SettingShape DEF Connect
<1>2. socket[k].user = None /\ socket[k].rooms = {}
  BY <1>1 DEF IInv, RoomsOwn
<1>3. setting' = setting /\ job' = job /\ heard' = heard
  BY DEF Connect
<1>4. ASSUME NEW u \in User, Enter(k, t, u) PROVE IInv'
  <2> DEFINE c == [socket[k] EXCEPT !.pc = "in", !.token = t, !.user = u]
  <2>1. c \in Connection
    BY <1>1, SocketShape DEF Connection
  <2>2. c.pc = "in" /\ c.user = u /\ c.rooms = {}
    BY <1>2, SocketShape DEF Connection
  <2>3. socket' = [socket EXCEPT ![k] = c]
    BY <1>4 DEF Enter
  <2> HIDE DEF c
  <2> QED
    BY <1>2, <1>3, <2>1, <2>2, <2>3, OneSocket
<1>5. ASSUME socket' = [socket EXCEPT ![k].pc = "audit"] PROVE IInv'
  <2> DEFINE c == [socket[k] EXCEPT !.pc = "audit"]
  <2>1. c \in Connection
    BY SocketShape DEF Connection
  <2>2. c.pc = "audit" /\ c.user = socket[k].user /\ c.rooms = {}
    BY <1>2, SocketShape DEF Connection
  <2>3. socket' = [socket EXCEPT ![k] = c]
    BY <1>5
  <2> HIDE DEF c
  <2> QED
    BY <1>3, <2>1, <2>2, <2>3, OneSocket
<1>6. ASSUME t # None, socket' = [socket EXCEPT ![k] = [@ EXCEPT !.pc = "verify", !.token = t]] PROVE IInv'
  <2> DEFINE c == [socket[k] EXCEPT !.pc = "verify", !.token = t]
  <2>1. c \in Connection
    BY <1>1, SocketShape DEF Connection
  <2>2. c.pc = "verify" /\ c.token \in Tokens /\ c.user = None /\ c.rooms = {}
    BY <1>1, <1>2, <1>6, SocketShape DEF Connection
  <2>3. socket' = [socket EXCEPT ![k] = c]
    BY <1>6
  <2> HIDE DEF c
  <2> QED
    BY <1>2, <1>3, <2>1, <2>2, <2>3, OneSocket
<1> QED
  BY <1>1, <1>4, <1>5, <1>6, Users DEF Connect

LEMMA VerifiedKeeps ==
    ASSUME IInv, NEW k \in Sockets, Verified(k) PROVE IInv'
<1>1. /\ socket[k].user = None /\ socket[k].rooms = {}
      /\ setting' = setting /\ job' = job /\ heard' = heard
  BY DEF Verified, IInv, RoomsOwn
<1>2. CASE ~Identity[socket[k].token].genuine
  <2> DEFINE c == [socket[k] EXCEPT !.pc = "audit"]
  <2>1. c \in Connection
    BY SocketShape DEF Connection
  <2>2. c.pc = "audit" /\ c.user = socket[k].user /\ c.rooms = {}
    BY <1>1, SocketShape DEF Connection
  <2>3. socket' = [socket EXCEPT ![k] = c]
    BY <1>2 DEF Verified
  <2> HIDE DEF c
  <2> QED
    BY <1>1, <2>1, <2>2, <2>3, OneSocket
<1>3. CASE Identity[socket[k].token].genuine
  <2> DEFINE u == Decoded(socket[k].token)
             c == [socket[k] EXCEPT !.pc = "in", !.token = socket[k].token, !.user = u]
  <2>1. u \in User
    BY Users DEF Verified, IInv, RoomsOwn
  <2>2. c \in Connection
    BY <2>1, SocketShape DEF Connection
  <2>3. c.pc = "in" /\ c.user = u /\ c.rooms = {}
    BY <1>1, SocketShape DEF Connection
  <2>4. socket' = [socket EXCEPT ![k] = c]
    BY <1>3 DEF Verified, Enter
  <2> HIDE DEF u, c
  <2> QED
    BY <1>1, <2>1, <2>2, <2>3, <2>4, OneSocket
<1> QED
  BY <1>2, <1>3

LEMMA AuditedKeeps ==
    ASSUME IInv, NEW k \in Sockets, Audited(k) PROVE IInv'
<1> DEFINE c == [socket[k] EXCEPT !.pc = "refused"]
<1>1. c \in Connection
  BY SocketShape DEF Connection
<1>2. c.pc = "refused" /\ c.user = socket[k].user /\ c.rooms = socket[k].rooms
  BY SocketShape DEF Connection
<1>3. \A s \in c.rooms : CanJoinRoom(c.user, s)
  BY <1>2 DEF IInv, RoomsOwn
<1>4. socket' = [socket EXCEPT ![k] = c] /\ setting' = setting /\ job' = job /\ heard' = heard
  BY DEF Audited
<1> HIDE DEF c
<1> QED
  BY <1>1, <1>2, <1>3, <1>4, OneSocket

LEMMA LeaveKeeps ==
    ASSUME IInv, NEW k \in Sockets, Leave(k) PROVE IInv'
<1> DEFINE c == [socket[k] EXCEPT !.pc = "gone", !.rooms = {}]
<1>1. c \in Connection
  BY SocketShape DEF Connection
<1>2. c.pc = "gone" /\ c.user = socket[k].user /\ c.rooms = {}
  BY SocketShape DEF Connection
<1>3. socket' = [socket EXCEPT ![k] = c] /\ setting' = setting /\ job' = job /\ heard' = heard
  BY DEF Leave
<1> HIDE DEF c
<1> QED
  BY <1>1, <1>2, <1>3, OneSocket

\* A socket that joins a room of its own.
LEMMA Joins ==
    ASSUME IInv, NEW k \in Sockets, NEW s \in Sessions, socket[k].pc = "in",
           CanJoinRoom(socket[k].user, s), setting' = setting, job' = job, heard' = heard,
           socket' = [socket EXCEPT ![k].rooms = @ \union {s}]
    PROVE  IInv'
<1> DEFINE c == [socket[k] EXCEPT !.rooms = @ \union {s}]
<1>1. c \in Connection
  BY SocketShape DEF Connection
<1>2. /\ c.pc = "in" /\ c.user = socket[k].user /\ c.rooms = socket[k].rooms \union {s}
      /\ c.user \in User
  BY SocketShape DEF Connection, IInv, RoomsOwn
<1>3. \A r \in c.rooms : CanJoinRoom(c.user, r)
  BY <1>2 DEF IInv, RoomsOwn
<1>4. socket' = [socket EXCEPT ![k] = c]
  OBVIOUS
<1> HIDE DEF c
<1> QED
  BY <1>1, <1>2, <1>3, <1>4, OneSocket

LEMMA SubscribeKeeps ==
    ASSUME IInv, NEW k \in Sockets, NEW s \in setting.asked, Subscribe(k, s) PROVE IInv'
<1>1. s \in Sessions
  BY SettingShape
<1>2. setting' = setting /\ job' = job /\ heard' = heard
  BY DEF Subscribe
<1> QED
  BY <1>1, <1>2, Joins DEF Subscribe

\* A step of an analysis nobody has heard of, and that publishes nothing.
LEMMA Waits ==
    ASSUME IInv, NEW j \in Jobs, job[j].pc \in {"idle", "auth", "limit"},
           setting' = setting, socket' = socket, heard' = heard,
           NEW r, r = Fields(r), job' = [job EXCEPT ![j] = r],
           r.pc \in {"auth", "limit", "refused", "limited", "failed"}, ~r.task,
           r.pc \in {"auth", "limit"} => r.client \in Clients /\ r.session \in Sessions,
           r.pc = "limit" => r.user \in User
    PROVE  IInv'
<1>1. \A k \in Sockets : heard[k][j] = <<>>
  BY DEF IInv, HeardOwn
<1>2. Shapes'
  BY DEF IInv, Shapes
<1>3. /\ job'[j] = r
      /\ \A i \in Jobs : i # j => job'[i] = job[i]
  BY DEF IInv, Shapes
<1>4. RoomsOwn'
  BY DEF IInv, RoomsOwn
<1>5. AskedOwn'
  BY <1>3 DEF IInv, AskedOwn
<1>6. HeardOwn'
  BY <1>1, <1>3 DEF IInv, HeardOwn
<1> QED
  BY <1>2, <1>4, <1>5, <1>6 DEF IInv

LEMMA JobShape ==
    ASSUME IInv, NEW j \in Jobs
    PROVE  job[j] = Fields(job[j]) /\ j \in DOMAIN job
BY DEF IInv, Shapes

\* What an assignment to a field leaves of the others.
LEMMA NewPc ==
    ASSUME NEW a, a = Fields(a), NEW pc, NEW r, r = [a EXCEPT !.pc = pc]
    PROVE  /\ r = Fields(r) /\ r.pc = pc /\ r.task = a.task
           /\ r.user = a.user /\ r.client = a.client /\ r.session = a.session
BY DEF Fields

LEMMA StreamKeeps ==
    ASSUME IInv, NEW k \in Sockets, NEW j \in Jobs, NEW s \in setting.asked, Stream(k, j, s)
    PROVE  IInv'
<1> DEFINE u == socket[k].user
<1>1. s \in Sessions /\ socket[k].pc = "in" /\ u \in User /\ job[j].pc = "idle"
  BY SettingShape DEF Stream, IInv, RoomsOwn, NextOf
<1>2. PICK r : \E pc \in {"reads", "refused"} :
          r = [Idle EXCEPT !.pc = pc, !.socket = k, !.session = s, !.user = u]
            /\ pc = (IF CanJoinRoom(u, s) THEN "reads" ELSE "refused")
  OBVIOUS
<1>3. /\ r = Fields(r) /\ ~r.task /\ r.user = u /\ r.session = s
      /\ r.pc = IF CanJoinRoom(u, s) THEN "reads" ELSE "refused"
  BY <1>2 DEF Idle, Fields
<1>4. CASE ~CanJoinRoom(u, s)
  <2>1. job' = [job EXCEPT ![j] = r] /\ setting' = setting /\ socket' = socket /\ heard' = heard
    BY <1>2, <1>4 DEF Stream, Asked
  <2> QED
    BY <1>1, <1>3, <1>4, <2>1, Waits
<1>5. CASE CanJoinRoom(u, s)
  <2>1. /\ job' = [job EXCEPT ![j] = r] /\ setting' = setting
        /\ socket' = [socket EXCEPT ![k].rooms = @ \union {s}]
        /\ Publish(j, "started", Listeners(s) \union {k})
    BY <1>2, <1>5 DEF Stream, Asked
  <2>2. /\ job'[j] = r
        /\ \A i \in Jobs : i # j => job'[i] = job[i]
    BY <2>1 DEF IInv, Shapes
  <2>3. /\ socket'[k] = [socket[k] EXCEPT !.rooms = @ \union {s}]
        /\ \A i \in Sockets : i # k => socket'[i] = socket[i]
    BY <2>1 DEF IInv, Shapes
  <2>4. /\ socket'[k].pc = "in" /\ socket'[k].user = u
        /\ socket'[k].rooms = socket[k].rooms \union {s} /\ socket'[k] \in Connection
    BY <1>1, <2>3, SocketShape DEF Connection
  <2>5. Allowed(r)
    BY <1>1, <1>3, <1>5 DEF Allowed
  <2>6. Shapes'
    <3>1. socket' \in [Sockets -> Connection]
      BY <2>1, <2>4, <2>3 DEF IInv, Shapes
    <3>2. job' = [i \in Jobs |-> job'[i]] /\ \A i \in Jobs : job'[i] = Fields(job'[i])
      BY <1>3, <2>1, <2>2 DEF IInv, Shapes
    <3> QED
      BY <2>1, <3>1, <3>2, Heard DEF IInv, Shapes
  <2>7. RoomsOwn'
    BY <1>1, <1>5, <2>3, <2>4 DEF IInv, RoomsOwn
  <2>8. AskedOwn'
    BY <1>3, <1>5, <2>2, <2>5 DEF IInv, AskedOwn
  <2>9. HeardOwn'
    <3> SUFFICES ASSUME NEW l \in Sockets, NEW i \in Jobs, heard'[l][i] # <<>>
                 PROVE  /\ job'[i].pc \notin {"idle", "auth", "limit"} /\ Allowed(job'[i])
                        /\ socket'[l].user \in User /\ CanJoinRoom(socket'[l].user, job'[i].session)
      BY DEF HeardOwn, Allowed, CanJoinRoom
    <3>1. socket'[l].user = socket[l].user
      BY <2>3, <2>4
    <3>2. heard[l][i] # <<>> \/ (i = j /\ l \in Listeners(s) \union {k})
      BY <2>1, Heard DEF IInv
    <3>3. CASE i = j /\ l \in Listeners(s) \union {k}
      <4>1. socket[l].user \in User /\ CanJoinRoom(socket[l].user, s)
        BY <1>1, <1>5, <3>3, ListenersOwn
      <4> QED
        BY <1>3, <1>5, <2>2, <2>5, <3>1, <3>3, <4>1
    <3>4. CASE heard[l][i] # <<>>
      <4>1. i # j
        BY <1>1, <3>4 DEF IInv, HeardOwn
      <4> QED
        BY <2>2, <3>1, <3>4, <4>1 DEF IInv, HeardOwn
    <3> QED
      BY <3>2, <3>3, <3>4
  <2> QED
    BY <2>6, <2>7, <2>8, <2>9 DEF IInv
<1> QED
  BY <1>4, <1>5

Requested(c, s, pc) == [Idle EXCEPT !.pc = pc, !.client = c, !.session = s]

\* What becomes of a request at the global limiter.
LEMMA RequestForm ==
    ASSUME NEW j, NEW c, NEW s, Request(j, c, s)
    PROVE  \E pc \in {"auth", "refused", "failed"} :
               job' = [job EXCEPT ![j] = Requested(c, s, pc)]
<1> DEFINE key == LimitKey(None, c.ip)
           pass == IF Passes("global", key) THEN "auth" ELSE "refused"
<1>1. \/ job' = [job EXCEPT ![j] = Requested(c, s, pass)]
      \/ job' = [job EXCEPT ![j] = Requested(c, s, "failed")]
  BY DEF Request, Requested
<1>2. pass \in {"auth", "refused", "failed"}
  OBVIOUS
<1> HIDE DEF pass
<1> QED
  BY <1>1, <1>2

LEMMA RequestKeeps ==
    ASSUME IInv, NEW j \in Jobs, NEW c \in Clients, NEW s \in setting.asked, Request(j, c, s)
    PROVE  IInv'
<1>0. PICK pc \in {"auth", "refused", "failed"} :
          job' = [job EXCEPT ![j] = Requested(c, s, pc)]
  BY RequestForm
<1> DEFINE r == Requested(c, s, pc)
<1>1. s \in Sessions /\ job[j].pc = "idle" /\ setting' = setting
      /\ socket' = socket /\ heard' = heard /\ job' = [job EXCEPT ![j] = r]
  BY <1>0, SettingShape DEF Request, NextOf
<1>2. r = [Idle EXCEPT !.pc = pc, !.client = c, !.session = s]
  BY DEF Requested
<1> HIDE DEF r
<1>3. r = Fields(r) /\ ~r.task /\ r.pc = pc /\ r.client = c /\ r.session = s
  BY <1>2 DEF Idle, Fields
<1> QED
  BY <1>1, <1>2, <1>3, Waits

LEMMA AuthenticateKeeps ==
    ASSUME IInv, NEW j \in Jobs, Authenticate(j) PROVE IInv'
<1> DEFINE u == Bearer(job[j].client)
           pc == IF u = None THEN "refused" ELSE "limit"
           r == [job[j] EXCEPT !.pc = pc, !.user = u]
<1>1. /\ job[j].pc = "auth" /\ setting' = setting
      /\ socket' = socket /\ heard' = heard /\ job' = [job EXCEPT ![j] = r]
  BY DEF Authenticate
<1>2. job[j].client \in Clients /\ job[j].session \in Sessions /\ ~job[j].task
  BY <1>1 DEF IInv, AskedOwn
<1>3. pc \in {"limit", "refused"} /\ (pc = "limit" => u \in User)
  BY <1>2, BearerIsUser
<1>4. r = [job[j] EXCEPT !.pc = pc, !.user = u] /\ job[j] = Fields(job[j])
  BY JobShape
<1> HIDE DEF u, pc, r
<1>5. /\ r = Fields(r) /\ r.task = job[j].task /\ r.pc = pc
      /\ r.user = u /\ r.client = job[j].client /\ r.session = job[j].session
  BY <1>4 DEF Fields
<1> QED
  BY <1>1, <1>2, <1>3, <1>5, Waits

LEMMA AdmitKeeps ==
    ASSUME IInv, NEW j \in Jobs, Admit(j) PROVE IInv'
<1> DEFINE u == job[j].user
           passes == Passes("ai", LimitKey(u, job[j].client.ip))
<1>1. job[j].pc = "limit" /\ setting' = setting /\ socket' = socket
  BY DEF Admit
<1>2. u \in User /\ job[j].session \in Sessions /\ ~job[j].task
  BY <1>1 DEF IInv, AskedOwn
<1>3. CASE passes /\ Owns(u, job[j].session)
  <2> DEFINE r == [job[j] EXCEPT !.pc = "reads"]
  <2>1. job' = [job EXCEPT ![j] = r] /\ Tell(j, "started")
    BY <1>3 DEF Admit
  <2>2. Allowed(job[j])
    BY <1>2, <1>3, OwnsJoins DEF Allowed
  <2>3. r = [job[j] EXCEPT !.pc = "reads"] /\ job[j] = Fields(job[j])
    BY JobShape
  <2> HIDE DEF r
  <2>4. /\ r = Fields(r) /\ r.task = job[j].task /\ r.pc = "reads"
        /\ r.user = u /\ r.client = job[j].client /\ r.session = job[j].session
    BY <2>3, NewPc
  <2> QED
    BY <1>1, <2>1, <2>2, <2>4, Loud
<1>4. CASE ~(passes /\ Owns(u, job[j].session))
  <2>1. PICK pc \in {"refused", "limited"} : job' = [job EXCEPT ![j] = [@ EXCEPT !.pc = pc]]
    BY <1>4 DEF Admit
  <2> DEFINE r == [job[j] EXCEPT !.pc = pc]
  <2>2. heard' = heard /\ job' = [job EXCEPT ![j] = r]
    BY <1>4, <2>1 DEF Admit
  <2>3. r = [job[j] EXCEPT !.pc = pc] /\ job[j] = Fields(job[j])
    BY JobShape
  <2> HIDE DEF r
  <2>4. /\ r = Fields(r) /\ r.task = job[j].task /\ r.pc = pc
        /\ r.user = u /\ r.client = job[j].client /\ r.session = job[j].session
    BY <2>3, NewPc
  <2> QED
    BY <1>1, <1>2, <2>2, <2>4, Waits
<1> QED
  BY <1>3, <1>4

LEMMA AdmitFailsKeeps ==
    ASSUME IInv, NEW j \in Jobs, AdmitFails(j) PROVE IInv'
<1> DEFINE r == [job[j] EXCEPT !.pc = "failed"]
<1>1. /\ job[j].pc = "limit" /\ setting' = setting /\ socket' = socket /\ heard' = heard
      /\ job' = [job EXCEPT ![j] = r]
  BY DEF AdmitFails
<1>2. ~job[j].task
  BY <1>1 DEF IInv, AskedOwn
<1>3. r = [job[j] EXCEPT !.pc = "failed"] /\ job[j] = Fields(job[j])
  BY JobShape
<1> HIDE DEF r
<1>4. r = Fields(r) /\ r.task = job[j].task /\ r.pc = "failed"
  BY <1>3, NewPc
<1> QED
  BY <1>1, <1>2, <1>4, Waits

\* Under way, an analysis is of a user that may use its session.
LEMMA UnderWay ==
    ASSUME IInv, NEW j \in Jobs,
           job[j].pc \in {"reads", "ask", "stream", "ending"} \/ job[j].task
    PROVE  Allowed(job[j]) /\ job[j].pc \notin {"idle", "auth", "limit"}
BY DEF IInv, AskedOwn

LEMMA QuietStepsKeep ==
    ASSUME IInv, NEW j \in Jobs,
           ReadsBack(j) \/ (\E w \in Wires : Accepted(j, w)) \/ Fails(j) \/ Read(j)
    PROVE  IInv'
<1>1. setting' = setting /\ socket' = socket /\ heard' = heard
  BY DEF ReadsBack, Accepted, Fails, Read
<1>2. job[j].pc \in {"reads", "ask", "stream", "ending"} /\ job[j] = Fields(job[j])
  BY JobShape DEF ReadsBack, Accepted, Fails, Read
<1>3. ASSUME NEW pc \in {"ask", "failed"}, job' = [job EXCEPT ![j].pc = pc] PROVE IInv'
  <2> DEFINE r == [job[j] EXCEPT !.pc = pc]
  <2>1. r = [job[j] EXCEPT !.pc = pc] /\ job' = [job EXCEPT ![j] = r]
    BY <1>3
  <2> HIDE DEF r
  <2>2. /\ r = Fields(r) /\ r.pc = pc
        /\ r.user = job[j].user /\ r.client = job[j].client /\ r.session = job[j].session
    BY <1>2, <2>1 DEF Fields
  <2> QED
    BY <1>1, <1>2, <2>1, <2>2, Quiet
<1>4. ASSUME NEW w, job' = [job EXCEPT ![j] = [@ EXCEPT !.pc = "stream", !.wire = w]] PROVE IInv'
  <2> DEFINE r == [job[j] EXCEPT !.pc = "stream", !.wire = w]
  <2>1. r = [job[j] EXCEPT !.pc = "stream", !.wire = w] /\ job' = [job EXCEPT ![j] = r]
    BY <1>4
  <2> HIDE DEF r
  <2>2. /\ r = Fields(r) /\ r.pc = "stream"
        /\ r.user = job[j].user /\ r.client = job[j].client /\ r.session = job[j].session
    BY <1>2, <2>1 DEF Fields
  <2> QED
    BY <1>1, <1>2, <2>1, <2>2, Quiet
<1>5. ASSUME NEW to, NEW rest, job' = [job EXCEPT ![j] = [@ EXCEPT !.pos = to, !.reader = rest]]
      PROVE  IInv'
  <2> DEFINE r == [job[j] EXCEPT !.pos = to, !.reader = rest]
  <2>1. r = [job[j] EXCEPT !.pos = to, !.reader = rest] /\ job' = [job EXCEPT ![j] = r]
    BY <1>5
  <2> HIDE DEF r
  <2>2. /\ r = Fields(r) /\ r.pc = job[j].pc
        /\ r.user = job[j].user /\ r.client = job[j].client /\ r.session = job[j].session
    BY <1>2, <2>1 DEF Fields
  <2>3. r.pc \notin {"idle", "auth", "limit"}
    BY <1>2, <2>2
  <2> QED
    BY <1>1, <1>2, <2>1, <2>2, <2>3, Quiet
<1>6. CASE Read(j)
  <2>1. \E to, rest : job' = [job EXCEPT ![j] = [@ EXCEPT !.pos = to, !.reader = rest]]
    BY <1>6 DEF Read
  <2> QED
    BY <2>1, <1>5
<1> QED
  BY <1>3, <1>4, <1>6 DEF ReadsBack, Accepted, Fails

LEMMA PieceKeeps ==
    ASSUME IInv, NEW j \in Jobs, Piece(j) PROVE IInv'
<1>1. /\ setting' = setting /\ socket' = socket /\ job[j].pc = "stream"
      /\ Tell(j, Head(job[j].reader.ready))
  BY DEF Piece
<1>2. \E rest, text : job' = [job EXCEPT ![j] = [@ EXCEPT !.reader = rest, !.full = text]]
  BY DEF Piece
<1>3. PICK r : /\ job' = [job EXCEPT ![j] = r]
               /\ \E rest, text : r = [job[j] EXCEPT !.reader = rest, !.full = text]
  BY <1>2
<1>4. Allowed(job[j]) /\ job[j] = Fields(job[j])
  BY <1>1, UnderWay, JobShape
<1>5. /\ r = Fields(r) /\ r.pc = "stream"
      /\ r.user = job[j].user /\ r.client = job[j].client /\ r.session = job[j].session
  BY <1>1, <1>3, <1>4 DEF Fields
<1> QED
  BY <1>1, <1>3, <1>4, <1>5, Loud

LEMMA LastPieceKeeps ==
    ASSUME IInv, NEW j \in Jobs, LastPiece(j) PROVE IInv'
<1> DEFINE r == [job[j] EXCEPT !.pc = "ending"]
<1>1. /\ setting' = setting /\ socket' = socket /\ job[j].pc = "stream"
      /\ Tell(j, "done") /\ job' = [job EXCEPT ![j] = r]
  BY DEF LastPiece
<1>2. r = [job[j] EXCEPT !.pc = "ending"]
  OBVIOUS
<1>3. Allowed(job[j]) /\ job[j] = Fields(job[j])
  BY <1>1, UnderWay, JobShape
<1> HIDE DEF r
<1>4. /\ r = Fields(r) /\ r.pc = "ending"
      /\ r.user = job[j].user /\ r.client = job[j].client /\ r.session = job[j].session
  BY <1>2, <1>3 DEF Fields
<1> QED
  BY <1>1, <1>3, <1>4, Loud

LEMMA CompletionKeeps ==
    ASSUME IInv, NEW j \in Jobs, Answered(j) \/ Finish(j) PROVE IInv'
<1>1. /\ setting' = setting /\ socket' = socket /\ job[j].pc \in {"ask", "ending"}
      /\ \E text : Complete(j, text)
  BY DEF Answered, Finish
<1>2. PICK text : Complete(j, text)
  BY <1>1
<1> DEFINE more == Correlates(job[j].user)
           r == [job[j] EXCEPT !.pc = "ok", !.full = text, !.task = more]
<1>3. Tell(j, "completed") /\ job' = [job EXCEPT ![j] = r]
  BY <1>2 DEF Complete
<1>4. r = [job[j] EXCEPT !.pc = "ok", !.full = text, !.task = more]
  OBVIOUS
<1>5. Allowed(job[j]) /\ job[j] = Fields(job[j])
  BY <1>1, UnderWay, JobShape
<1> HIDE DEF more, r
<1>6. /\ r = Fields(r) /\ r.pc = "ok"
      /\ r.user = job[j].user /\ r.client = job[j].client /\ r.session = job[j].session
  BY <1>4, <1>5 DEF Fields
<1> QED
  BY <1>1, <1>3, <1>5, <1>6, Loud

LEMMA CorrelatedKeeps ==
    ASSUME IInv, NEW j \in Jobs, Correlated(j) PROVE IInv'
<1> DEFINE r == [job[j] EXCEPT !.task = FALSE]
<1>1. /\ setting' = setting /\ socket' = socket /\ job[j].task /\ job' = [job EXCEPT ![j] = r]
      /\ Tell(j, "correlated") \/ heard' = heard
  BY DEF Correlated
<1>2. r = [job[j] EXCEPT !.task = FALSE]
  OBVIOUS
<1>3. Allowed(job[j]) /\ job[j].pc \notin {"idle", "auth", "limit"} /\ job[j] = Fields(job[j])
  BY <1>1, UnderWay, JobShape
<1> HIDE DEF r
<1>4. /\ r = Fields(r) /\ r.pc = job[j].pc
      /\ r.user = job[j].user /\ r.client = job[j].client /\ r.session = job[j].session
  BY <1>2, <1>3 DEF Fields
<1>5. r.pc \notin {"idle", "auth", "limit"}
  BY <1>3, <1>4
<1>6. CASE Tell(j, "correlated")
  BY <1>1, <1>3, <1>4, <1>5, <1>6, Loud
<1>7. CASE heard' = heard
  BY <1>1, <1>4, <1>5, <1>7, Quiet
<1> QED
  BY <1>1, <1>6, <1>7

LEMMA CutKeeps ==
    ASSUME IInv, Cut, setting' = setting, heard' = heard PROVE IInv'
<1>1. \A k \in Sockets :
          /\ socket'[k] \in Connection /\ socket'[k].user = socket[k].user
          /\ socket'[k] = socket[k] \/ (socket'[k].pc = "gone" /\ socket'[k].rooms = {})
  BY SocketShape DEF Cut, Connection
<1>2. ASSUME NEW j \in Jobs
      PROVE  /\ job'[j] = Fields(job'[j]) /\ ~job'[j].task
             /\ job'[j].user = job[j].user /\ job'[j].session = job[j].session
             /\ job'[j].pc \notin Under
             /\ job'[j].pc = job[j].pc \/ job'[j].pc = "lost"
  <2> DEFINE pc == IF job[j].pc \in Under THEN "lost" ELSE job[j].pc
             r == [job[j] EXCEPT !.pc = pc, !.task = FALSE]
  <2>1. job'[j] = r
    BY DEF Cut
  <2>2. /\ r = [job[j] EXCEPT !.pc = pc, !.task = FALSE] /\ job[j] = Fields(job[j])
        /\ pc \notin Under /\ (pc = job[j].pc \/ pc = "lost")
    BY JobShape DEF Under
  <2> HIDE DEF pc, r
  <2>3. /\ r = Fields(r) /\ ~r.task /\ r.pc = pc
        /\ r.user = job[j].user /\ r.session = job[j].session
    BY <2>2 DEF Fields
  <2> QED
    BY <2>1, <2>2, <2>3
<1>3. Shapes'
  <2>1. socket' \in [Sockets -> Connection]
    BY <1>1 DEF Cut
  <2>2. job' = [j \in Jobs |-> job'[j]]
    BY DEF Cut
  <2> QED
    BY <1>2, <2>1, <2>2 DEF IInv, Shapes
<1>4. RoomsOwn'
  BY <1>1 DEF IInv, RoomsOwn
<1>5. AskedOwn'
  BY <1>2 DEF IInv, AskedOwn, Under
<1>6. HeardOwn'
  BY <1>1, <1>2 DEF IInv, HeardOwn, Allowed
<1> QED
  BY <1>3, <1>4, <1>5, <1>6 DEF IInv

LEMMA StillKeeps ==
    ASSUME IInv, setting' = setting, socket' = socket, job' = job, heard' = heard PROVE IInv'
BY DEF IInv, Shapes, RoomsOwn, AskedOwn, HeardOwn

LEMMA NextKeeps == IInv /\ [Next]_vars => IInv'
<1> SUFFICES ASSUME IInv, [Next]_vars PROVE IInv'
  OBVIOUS
<1>1. ASSUME NEW k \in Sockets, Arrive(k) PROVE IInv'
  BY <1>1, ConnectKeeps, VerifiedKeeps, AuditedKeeps DEF Arrive
<1>2. ASSUME NEW k \in Sockets, Leave(k) PROVE IInv'
  BY <1>2, LeaveKeeps
<1>3. ASSUME NEW k \in Sockets, NEW s \in setting.asked, Subscribe(k, s) PROVE IInv'
  BY <1>3, SubscribeKeeps
<1>4. ASSUME NEW j \in Jobs, Question(j) PROVE IInv'
  BY <1>4, StreamKeeps, RequestKeeps DEF Question
<1>5. ASSUME NEW j \in Jobs, Step(j) PROVE IInv'
  <2>1. CASE Authenticate(j)
    BY <2>1, AuthenticateKeeps
  <2>2. CASE Admit(j) \/ AdmitFails(j)
    BY <2>2, AdmitKeeps, AdmitFailsKeeps
  <2>3. CASE ReadsBack(j) \/ (\E w \in Wires : Accepted(j, w)) \/ Fails(j) \/ Read(j)
    BY <2>3, QuietStepsKeep
  <2>4. CASE Piece(j) \/ LastPiece(j)
    BY <2>4, PieceKeeps, LastPieceKeeps
  <2>5. CASE Answered(j) \/ Finish(j)
    BY <2>5, CompletionKeeps
  <2>6. CASE Correlated(j)
    BY <2>6, CorrelatedKeeps
  <2> QED
    BY <1>5, <2>1, <2>2, <2>3, <2>4, <2>5, <2>6 DEF Step
<1>6. ASSUME NEW l \in Limiters, NEW key \in LimitKeys, Expire(l, key) PROVE IInv'
  BY <1>6, StillKeeps DEF Expire
<1>7. CASE Restart \/ Exit0 \/ Exit1
  BY <1>7, CutKeeps DEF Restart, Exit0, Exit1
<1>8. CASE Shutdown
  BY <1>8, StillKeeps DEF Shutdown
<1>9. CASE UNCHANGED vars
  BY <1>9, StillKeeps DEF vars
<1> QED
  BY <1>1, <1>2, <1>3, <1>4, <1>5, <1>6, <1>7, <1>8, <1>9 DEF Next

(***************************************************************************)
(* Who hears of what                                                       *)
(***************************************************************************)

\* One who may join the room of a session, and may not do all, has a uid that
\* the session begins with, and so has the one who asked in it.
LEMMA OwnIsHeard == IInv => HearsOwn
<1> SUFFICES ASSUME IInv, NEW k \in Sockets, NEW j \in Jobs, heard[k][j] # <<>>,
                    socket[k].user.role \notin Privileged
             PROVE  /\ socket[k].user.uid \in Within[job[j].session]
                    /\ \/ Kin(job[j].user.uid, socket[k].user.uid)
                       \/ job[j].user.role \in Privileged
  BY DEF HearsOwn
<1>1. /\ Allowed(job[j])
      /\ socket[k].user \in User /\ CanJoinRoom(socket[k].user, job[j].session)
  BY DEF IInv, HeardOwn
<1>2. socket[k].user.uid \in Within[job[j].session]
  BY <1>1 DEF CanJoinRoom
<1>3. job[j].user.role \in Privileged \/ job[j].user.uid \in Within[job[j].session]
  BY <1>1 DEF Allowed, CanJoinRoom
<1>4. \A u, v \in Within[job[j].session] : Kin(u, v)
  BY <1>1, WithinAssumption DEF Allowed, Kin
<1> QED
  BY <1>2, <1>3, <1>4

\* For any clients, sessions and settings, with any restarts, whoever joins
\* which room when, and uids with colons or without: an unprivileged client
\* hears only in its sessions, and only of analyses of its own uid or its kin,
\* or of privileged ones (socket.gateway.ts).
THEOREM HearsOnlyOwn == Spec => []HearsOwn
<1> QED
  BY Begins, NextKeeps, OwnIsHeard, PTL DEF Spec

(***************************************************************************)
(* What a step does to an analysis: r becomes q, and what was told of it,  *)
(* t, becomes u.                                                           *)
(***************************************************************************)

SameText(r, q) ==
    q.wire = r.wire /\ q.full = r.full /\ q.pos = r.pos /\ q.reader = r.reader

SentOf(r) == Body(r.wire.lines, r.wire.tail)

Asks(r, q, t, u) ==
    /\ r.pc = "idle" /\ q.pc \in {"reads", "refused", "auth", "failed"}
    /\ q.wire = None /\ q.full = <<>> /\ q.pos = 0 /\ q.reader = Fresh /\ ~q.task
    /\ u = IF q.pc = "reads" THEN Append(t, "started") ELSE t

Enters(r, q, t, u) ==
    /\ \/ r.pc = "auth" /\ q.pc \in {"limit", "refused"}
       \/ r.pc = "limit" /\ q.pc \in {"reads", "refused", "limited", "failed"}
    /\ SameText(r, q) /\ q.task = r.task
    /\ u = IF q.pc = "reads" THEN Append(t, "started") ELSE t

GoesOn(r, q, t, u) ==
    /\ \/ r.pc = "reads" /\ q.pc = "ask"
       \/ r.pc \in {"ask", "stream"} /\ q.pc = "failed"
    /\ SameText(r, q) /\ q.task = r.task /\ u = t

Opens(r, q, t, u) ==
    /\ r.pc = "ask" /\ q.pc = "stream" /\ q.wire \in Wires
    /\ q.full = r.full /\ q.pos = r.pos /\ q.reader = r.reader /\ q.task = r.task /\ u = t

Reads(r, q, t, u) ==
    /\ r.pc = "stream" /\ q.pc = "stream" /\ q.wire = r.wire /\ q.full = r.full
    /\ q.task = r.task /\ u = t
    /\ q.pos \in (r.pos + 1)..Len(SentOf(r))
    /\ q.reader = Feed(r.reader, SubSeq(SentOf(r), r.pos + 1, q.pos), On("ollama"))

Speaks(r, q, t, u) ==
    /\ r.pc = "stream" /\ q.pc = "stream" /\ q.wire = r.wire /\ q.pos = r.pos /\ q.task = r.task
    /\ r.reader.ready # <<>>
    /\ q.reader = [r.reader EXCEPT !.ready = Tail(@)]
    /\ q.full = Append(r.full, Head(r.reader.ready)) /\ u = Append(t, Head(r.reader.ready))

Closes(r, q, t, u) ==
    /\ r.pc = "stream" /\ q.pc = "ending" /\ SameText(r, q) /\ q.task = r.task
    /\ r.reader.ready = <<>> /\ (r.reader.ended \/ r.pos = Len(SentOf(r)))
    /\ u = Append(t, "done")

Completes(r, q, t, u) ==
    /\ q.pc = "ok" /\ q.wire = r.wire /\ u = Append(t, "completed")
    /\ r.pc = "ask" \/ (r.pc = "ending" /\ q.full = r.full)

Correlation(r, q, t, u) ==
    /\ r.task /\ ~q.task /\ q.pc = r.pc /\ SameText(r, q)
    /\ u = t \/ u = Append(t, "correlated")

IsCut(r, q, t, u) ==
    /\ q.pc = (IF r.pc \in Under THEN "lost" ELSE r.pc) /\ ~q.task /\ SameText(r, q) /\ u = t

Moves(r, q, t, u) ==
    \/ q = r /\ u = t
    \/ Asks(r, q, t, u) \/ Enters(r, q, t, u) \/ GoesOn(r, q, t, u) \/ Opens(r, q, t, u)
    \/ Reads(r, q, t, u) \/ Speaks(r, q, t, u) \/ Closes(r, q, t, u) \/ Completes(r, q, t, u)
    \/ Correlation(r, q, t, u) \/ IsCut(r, q, t, u)

(***************************************************************************)
(* The course of an analysis                                               *)
(***************************************************************************)

SaysOf(r) == Meaning(r.wire.lines, On("ollama"))

\* What is published before the end.
OpenOf(r) == <<"started">> \o (IF r.wire = None THEN <<>> ELSE SaysOf(r) \o <<"done">>)

Calm == {"started", "done"} \union Deltas

\* The reader holds, behind what was passed on, what the body says up to pos.
Reading(r) ==
    /\ r.reader \in Reader /\ r.pos \in 0..Len(SentOf(r)) /\ r.full \in Seq(Deltas)
    /\ Ahead(r.full, r.reader) = Feed(Fresh, SubSeq(SentOf(r), 1, r.pos), On("ollama"))

Course(r, t) ==
    /\ r.pc \in Under \union {"idle", "ok", "failed", "refused", "limited", "lost"}
    /\ r.wire \in Wires \union {None} /\ (r.pc # "ok" => ~r.task)
    /\ r.pc \in {"idle", "auth", "limit", "refused", "limited"} => t = <<>>
    /\ r.pc \in {"idle", "auth", "limit", "reads", "ask"} =>
          r.wire = None /\ r.full = <<>> /\ r.pos = 0 /\ r.reader = Fresh
    /\ r.pc \in {"reads", "ask"} => t = <<"started">>
    /\ r.pc = "stream" => r.wire \in Wires /\ Reading(r) /\ t = <<"started">> \o r.full
    /\ r.pc = "ending" => r.wire \in Wires /\ r.full = SaysOf(r) /\ t = OpenOf(r)
    /\ r.pc = "ok" =>
          /\ r.wire = None \/ r.full = SaysOf(r)
          /\ t = OpenOf(r) \o <<"completed">>
             \/ (~r.task /\ t = OpenOf(r) \o <<"completed", "correlated">>)
    /\ r.pc \in {"failed", "lost"} =>
          t \in Seq(Calm) /\ \E y \in Seq(Calm) : t \o y = OpenOf(r)

\* Two reads that follow each other.
LEMMA Joined ==
    ASSUME NEW S, NEW b \in Seq(S), NEW i \in 0..Len(b), NEW k \in i..Len(b)
    PROVE  SubSeq(b, 1, i) \o SubSeq(b, i + 1, k) = SubSeq(b, 1, k)
OBVIOUS

\* The body of a stream and what it says.
LEMMA WireShape ==
    ASSUME NEW r, r.wire \in Wires
    PROVE  /\ r.wire # None /\ SentOf(r) \in Seq(STRING)
           /\ SaysOf(r) = Feed(Fresh, SentOf(r), On("ollama")).ready
           /\ SaysOf(r) \in Seq(Deltas)
<1> DEFINE lines == r.wire.lines
           tail == r.wire.tail
<1>1. /\ r.wire # None /\ lines \in Seq(Seq(STRING \ {Newline})) /\ tail \in Seq(STRING \ {Newline})
      /\ On("ollama") \in BOOLEAN
  BY WiresAssumption DEF On
<1> HIDE DEF lines, tail
<1>2. Feed(Fresh, Body(lines, tail), On("ollama")).ready = Meaning(lines, On("ollama"))
  BY <1>1, BodyMeans
<1>3. Body(lines, tail) \in Seq(STRING)
  BY <1>1, BodyType
<1>4. Feed(Fresh, Body(lines, tail), On("ollama")) \in Reader
  BY <1>1, <1>3, FeedType, FreshType
<1> QED
  BY <1>1, <1>2, <1>3, <1>4 DEF lines, tail, SentOf, SaysOf, Reader

\* A read keeps the reader true to the body.
LEMMA ReadsMore ==
    ASSUME NEW r, NEW q, NEW t, NEW u, r.wire \in Wires, Reading(r), Reads(r, q, t, u)
    PROVE  Reading(q)
<1> DEFINE b == SentOf(r)
           c == SubSeq(b, r.pos + 1, q.pos)
           stops == On("ollama")
<1>1. b \in Seq(STRING) /\ stops \in BOOLEAN
  BY WireShape DEF On
<1>2. /\ r.reader \in Reader /\ r.pos \in 0..Len(b) /\ r.full \in Seq(Deltas)
      /\ Ahead(r.full, r.reader) = Feed(Fresh, SubSeq(b, 1, r.pos), stops)
  BY DEF Reading
<1>3. /\ q.wire = r.wire /\ q.full = r.full /\ q.pos \in (r.pos + 1)..Len(b)
      /\ q.reader = Feed(r.reader, c, stops)
  BY DEF Reads
<1>4. SentOf(q) = b
  BY <1>3 DEF SentOf
<1> HIDE DEF b, stops
<1>5. c \in Seq(STRING) /\ SubSeq(b, 1, r.pos) \in Seq(STRING)
  BY <1>1, <1>2, <1>3
<1>6. SubSeq(b, 1, r.pos) \o c = SubSeq(b, 1, q.pos)
  <2>1. q.pos \in r.pos..Len(b)
    BY <1>1, <1>2, <1>3
  <2> QED
    BY <1>1, <1>2, <2>1, Joined
<1>7. q.pos \in 0..Len(b)
  BY <1>1, <1>2, <1>3
<1> HIDE DEF c
<1>8. q.reader \in Reader
  BY <1>1, <1>2, <1>3, <1>5, FeedType
<1>9. Ahead(q.full, q.reader) = Feed(Ahead(r.full, r.reader), c, stops)
  BY <1>1, <1>2, <1>3, <1>5, FeedAhead
<1>10. Feed(Ahead(r.full, r.reader), c, stops) = Feed(Fresh, SubSeq(b, 1, q.pos), stops)
  <2> DEFINE p == SubSeq(b, 1, r.pos)
  <2>1. p \in Seq(STRING) /\ p \o c = SubSeq(b, 1, q.pos) /\ Ahead(r.full, r.reader) = Feed(Fresh, p, stops)
    BY <1>2, <1>5, <1>6
  <2> HIDE DEF p
  <2>2. Feed(Fresh, p \o c, stops) = Feed(Feed(Fresh, p, stops), c, stops)
    BY <1>1, <1>5, <2>1, FeedInParts, FreshType
  <2> QED
    BY <2>1, <2>2
<1> QED
  BY <1>2, <1>3, <1>4, <1>7, <1>8, <1>9, <1>10 DEF Reading, b, stops

\* A piece passed on is no longer the reader's, and still counted.
LEMMA SpeaksMore ==
    ASSUME NEW r, NEW q, NEW t, NEW u, r.wire \in Wires, Reading(r), Speaks(r, q, t, u)
    PROVE  Reading(q) /\ Head(r.reader.ready) \in Deltas
<1> DEFINE x == r.reader.ready
           d == Head(x)
<1>1. /\ r.reader \in Reader /\ r.full \in Seq(Deltas) /\ x \in Seq(Deltas) /\ x # <<>>
      /\ r.reader.buffer \in Seq(STRING) /\ r.reader.ended \in BOOLEAN
  BY DEF Reading, Reader, Speaks
<1>2. q.wire = r.wire /\ q.pos = r.pos /\ q.full = Append(r.full, d)
      /\ q.reader = [r.reader EXCEPT !.ready = Tail(@)]
  BY DEF Speaks
<1>3. q.reader = [buffer |-> r.reader.buffer, ready |-> Tail(x), ended |-> r.reader.ended]
  BY <1>1, <1>2 DEF Reader
<1> HIDE DEF x
<1>4. d \in Deltas /\ Tail(x) \in Seq(Deltas) /\ Append(r.full, d) \in Seq(Deltas)
  BY <1>1
<1>5. Append(r.full, d) \o Tail(x) = r.full \o x
  BY <1>1
<1>6. q.reader \in Reader
  BY <1>1, <1>3, <1>4 DEF Reader
<1>7. Ahead(q.full, q.reader) = Ahead(r.full, r.reader)
  BY <1>2, <1>3, <1>5 DEF Ahead, x
<1>8. SentOf(q) = SentOf(r)
  BY <1>2 DEF SentOf
<1> QED
  BY <1>2, <1>4, <1>6, <1>7, <1>8 DEF Reading, x

\* What is passed on is the beginning of what the body says, and after the last piece all of it.
LEMMA Remains ==
    ASSUME NEW r, r.wire \in Wires, Reading(r)
    PROVE  /\ \E y \in Seq(Deltas) : SaysOf(r) = r.full \o y
           /\ r.reader.ready = <<>> /\ (r.reader.ended \/ r.pos = Len(SentOf(r))) => SaysOf(r) = r.full
<1> DEFINE b == SentOf(r)
           n == Len(b)
           c == SubSeq(b, r.pos + 1, n)
           stops == On("ollama")
           y == Feed(r.reader, c, stops).ready
<1>1. b \in Seq(STRING) /\ stops \in BOOLEAN /\ SaysOf(r) = Feed(Fresh, b, stops).ready
  BY WireShape DEF On
<1>2. /\ r.reader \in Reader /\ r.pos \in 0..n /\ r.full \in Seq(Deltas)
      /\ Ahead(r.full, r.reader) = Feed(Fresh, SubSeq(b, 1, r.pos), stops)
  BY DEF Reading
<1> HIDE DEF b, stops
<1>3. /\ c \in Seq(STRING) /\ SubSeq(b, 1, r.pos) \in Seq(STRING)
      /\ r.pos = n => c = <<>>
  BY <1>1, <1>2
<1>4. SubSeq(b, 1, r.pos) \o c = b
  <2>1. n \in r.pos..n /\ SubSeq(b, 1, n) = b
    BY <1>1, <1>2
  <2> QED
    BY <1>1, <1>2, <2>1, Joined
<1> HIDE DEF c, n
<1>5. Feed(Ahead(r.full, r.reader), c, stops) = Ahead(r.full, Feed(r.reader, c, stops))
  BY <1>1, <1>2, <1>3, FeedAhead
<1>6. Feed(Ahead(r.full, r.reader), c, stops) = Feed(Fresh, b, stops)
  <2> DEFINE p == SubSeq(b, 1, r.pos)
  <2>1. p \in Seq(STRING) /\ p \o c = b /\ Ahead(r.full, r.reader) = Feed(Fresh, p, stops)
    BY <1>2, <1>3, <1>4
  <2> HIDE DEF p
  <2>2. Feed(Fresh, p \o c, stops) = Feed(Feed(Fresh, p, stops), c, stops)
    BY <1>1, <1>3, <2>1, FeedInParts, FreshType
  <2> QED
    BY <2>1, <2>2
<1>7. SaysOf(r) = r.full \o y
  <2>1. Ahead(r.full, Feed(r.reader, c, stops)).ready = r.full \o y
    BY DEF Ahead
  <2> HIDE DEF y
  <2> QED
    BY <1>1, <1>5, <1>6, <2>1
<1>8. y \in Seq(Deltas)
  BY <1>1, <1>2, <1>3, FeedType DEF Reader
<1>9. ASSUME r.reader.ready = <<>>, r.reader.ended \/ r.pos = n PROVE SaysOf(r) = r.full
  <2>1. Feed(r.reader, c, stops) = r.reader
    <3>1. CASE r.reader.ended
      BY <1>1, <1>2, <1>3, <3>1, FeedEnded
    <3>2. CASE r.pos = n
      BY <1>1, <1>2, <1>3, <3>2, FeedNothing
    <3> QED
      BY <1>9, <3>1, <3>2
  <2>2. r.full \o <<>> = r.full
    BY <1>2
  <2> QED
    BY <1>7, <1>9, <2>1, <2>2
<1> HIDE DEF y
<1> QED
  BY <1>7, <1>8, <1>9 DEF n, b

LEMMA OpenShape ==
    ASSUME NEW r, r.wire \in Wires \union {None}
    PROVE  /\ OpenOf(r) \in Seq(Calm)
           /\ r.wire = None => OpenOf(r) = <<"started">>
           /\ r.wire \in Wires => OpenOf(r) = <<"started">> \o (SaysOf(r) \o <<"done">>)
<1>1. <<"started">> \in Seq(Calm) /\ <<"done">> \in Seq(Calm) /\ <<>> \in Seq(Calm)
  BY DEF Calm
<1>2. CASE r.wire = None
  <2>1. r.wire \notin Wires
    BY <1>2, WiresAssumption
  <2>2. <<"started">> \o <<>> = <<"started">>
    OBVIOUS
  <2> QED
    BY <1>1, <1>2, <2>1, <2>2 DEF OpenOf
<1>3. CASE r.wire \in Wires
  <2>1. r.wire # None /\ SaysOf(r) \in Seq(Deltas)
    BY <1>3, WireShape
  <2>2. \A s \in Seq(Deltas) : s \in Seq(Calm)
    BY DEF Calm
  <2>3. \A s \in Seq(Calm) : <<"started">> \o (s \o <<"done">>) \in Seq(Calm)
    BY <1>1
  <2> QED
    BY <1>3, <2>1, <2>2, <2>3 DEF OpenOf
<1> QED
  BY <1>2, <1>3

LEMMA SameOpen ==
    ASSUME NEW r, NEW q, q.wire = r.wire
    PROVE  OpenOf(q) = OpenOf(r) /\ SaysOf(q) = SaysOf(r) /\ SentOf(q) = SentOf(r)
BY DEF OpenOf, SaysOf, SentOf

\* What is told of an analysis under way is a beginning of what will be.
LEMMA Partly ==
    ASSUME NEW r, NEW t, Course(r, t), r.pc \in Under
    PROVE  t \in Seq(Calm) /\ \E y \in Seq(Calm) : t \o y = OpenOf(r)
<1>0. /\ <<>> \in Seq(Calm) /\ <<"started">> \in Seq(Calm) /\ <<"done">> \in Seq(Calm)
      /\ \A s \in Seq(Deltas) : s \in Seq(Calm)
  BY DEF Calm
<1>1. r.wire \in Wires \union {None} /\ OpenOf(r) \in Seq(Calm)
  BY OpenShape DEF Course
<1>2. CASE r.pc \in {"auth", "limit"}
  <2>1. t = <<>> /\ <<>> \o OpenOf(r) = OpenOf(r)
    BY <1>1, <1>2 DEF Course
  <2> QED
    BY <1>0, <1>1, <2>1
<1>3. CASE r.pc \in {"reads", "ask"}
  <2>1. t = <<"started">> /\ OpenOf(r) = <<"started">>
    BY <1>1, <1>3, OpenShape DEF Course
  <2>2. <<"started">> \o <<>> = <<"started">>
    OBVIOUS
  <2> QED
    BY <1>0, <2>1, <2>2
<1>4. CASE r.pc = "stream"
  <2>1. r.wire \in Wires /\ Reading(r) /\ t = <<"started">> \o r.full
    BY <1>4 DEF Course
  <2>2. PICK y \in Seq(Deltas) : SaysOf(r) = r.full \o y
    BY <2>1, Remains
  <2>3. r.full \in Seq(Calm) /\ y \in Seq(Calm)
    BY <1>0, <2>1 DEF Reading
  <2> DEFINE z == y \o <<"done">>
  <2>4. z \in Seq(Calm) /\ t \in Seq(Calm)
    BY <1>0, <2>1, <2>3
  <2>5. ASSUME NEW x \in Seq(Calm) PROVE (<<"started">> \o x) \o z = <<"started">> \o ((x \o y) \o <<"done">>)
    BY <1>0, <2>3
  <2>6. t \o z = OpenOf(r)
    BY <1>1, <2>1, <2>2, <2>3, <2>5, OpenShape
  <2> QED
    BY <2>4, <2>6
<1>5. CASE r.pc = "ending"
  <2>1. t = OpenOf(r) /\ OpenOf(r) \o <<>> = OpenOf(r)
    BY <1>1, <1>5 DEF Course
  <2> QED
    BY <1>0, <1>1, <2>1
<1> QED
  BY <1>2, <1>3, <1>4, <1>5 DEF Under

LEMMA AsksKeeps ==
    ASSUME NEW r, NEW q, NEW t, NEW u, Course(r, t), Asks(r, q, t, u) PROVE Course(q, u)
<1>1. t = <<>> /\ Append(<<>>, "started") = <<"started">>
  BY DEF Course, Asks
<1>2. CASE q.pc = "failed"
  <2>1. q.wire = None /\ u = <<>> /\ ~q.task
    BY <1>1, <1>2 DEF Course, Asks, SameText
  <2>2. <<>> \in Seq(Calm) /\ <<"started">> \in Seq(Calm) /\ <<>> \o <<"started">> = OpenOf(q)
    BY <2>1 DEF Calm, OpenOf
  <2> QED
    BY <1>2, <2>1, <2>2 DEF Course, Under
<1>3. CASE q.pc # "failed"
  BY <1>1, <1>3 DEF Course, Asks, SameText, Under
<1> QED
  BY <1>2, <1>3

LEMMA EntersKeeps ==
    ASSUME NEW r, NEW q, NEW t, NEW u, Course(r, t), Enters(r, q, t, u) PROVE Course(q, u)
<1>1. t = <<>> /\ Append(<<>>, "started") = <<"started">>
  BY DEF Course, Enters
<1>2. CASE q.pc = "failed"
  <2>1. q.wire = None /\ u = <<>> /\ ~q.task
    BY <1>1, <1>2 DEF Course, Enters, SameText
  <2>2. <<>> \in Seq(Calm) /\ <<"started">> \in Seq(Calm) /\ <<>> \o <<"started">> = OpenOf(q)
    BY <2>1 DEF Calm, OpenOf
  <2> QED
    BY <1>2, <2>1, <2>2 DEF Course, Under
<1>3. CASE q.pc # "failed"
  BY <1>1, <1>3 DEF Course, Enters, SameText, Under
<1> QED
  BY <1>2, <1>3

LEMMA GoesOnKeeps ==
    ASSUME NEW r, NEW q, NEW t, NEW u, Course(r, t), GoesOn(r, q, t, u) PROVE Course(q, u)
<1>1. /\ \/ r.pc = "reads" /\ q.pc = "ask"
         \/ r.pc \in {"ask", "stream"} /\ q.pc = "failed"
      /\ q.wire = r.wire /\ q.full = r.full /\ q.pos = r.pos /\ q.reader = r.reader
      /\ q.task = r.task /\ u = t
  BY DEF GoesOn, SameText
<1>2. r.pc \in Under /\ OpenOf(q) = OpenOf(r)
  BY <1>1, SameOpen DEF Under
<1>3. t \in Seq(Calm) /\ \E y \in Seq(Calm) : t \o y = OpenOf(q)
  BY <1>2, Partly
<1>4. CASE q.pc = "ask"
  BY <1>1, <1>4 DEF Course, Under
<1>5. CASE q.pc = "failed"
  <2>1. r.wire \in Wires \union {None} /\ ~q.task
    BY <1>1, <1>5 DEF Course
  <2> QED
    BY <1>1, <1>3, <1>5, <2>1 DEF Course
<1> QED
  BY <1>1, <1>4, <1>5

LEMMA OpensKeeps ==
    ASSUME NEW r, NEW q, NEW t, NEW u, Course(r, t), Opens(r, q, t, u) PROVE Course(q, u)
<1>1. /\ q.pc = "stream" /\ q.wire \in Wires /\ q.full = <<>> /\ q.pos = 0 /\ q.reader = Fresh
      /\ ~q.task /\ u = <<"started">>
  BY DEF Course, Opens
<1>2. u = <<"started">> \o q.full
  BY <1>1
<1>3. Reading(q)
  <2>1. SentOf(q) \in Seq(STRING) /\ On("ollama") \in BOOLEAN
    BY <1>1, WireShape DEF On
  <2>2. SubSeq(SentOf(q), 1, 0) = <<>> /\ 0 \in 0..Len(SentOf(q)) /\ <<>> \in Seq(Deltas)
    BY <2>1
  <2>3. Feed(Fresh, <<>>, On("ollama")) = Fresh
    BY <2>1, FreshType, FeedNothing
  <2>4. Ahead(<<>>, Fresh) = Fresh
    BY DEF Ahead, Fresh
  <2> QED
    BY <1>1, <2>2, <2>3, <2>4, FreshType DEF Reading
<1> QED
  BY <1>1, <1>2, <1>3 DEF Course, Under

LEMMA ReadsSpeaksKeep ==
    ASSUME NEW r, NEW q, NEW t, NEW u, Course(r, t), Reads(r, q, t, u) \/ Speaks(r, q, t, u)
    PROVE  Course(q, u)
<1>1. /\ r.pc = "stream" /\ q.pc = "stream" /\ q.wire = r.wire /\ r.wire \in Wires /\ ~q.task
      /\ Reading(r) /\ t = <<"started">> \o r.full /\ r.full \in Seq(Deltas)
  BY DEF Course, Reads, Speaks, Reading
<1>2. Reading(q) /\ u = <<"started">> \o q.full
  <2>1. CASE Reads(r, q, t, u)
    BY <1>1, <2>1, ReadsMore DEF Reads
  <2>2. CASE Speaks(r, q, t, u)
    <3> DEFINE d == Head(r.reader.ready)
    <3>1. Reading(q) /\ d \in Deltas /\ u = Append(t, d) /\ q.full = Append(r.full, d)
      BY <1>1, <2>2, SpeaksMore DEF Speaks
    <3> HIDE DEF d
    <3>2. Append(<<"started">> \o r.full, d) = <<"started">> \o Append(r.full, d)
      BY <1>1, <3>1
    <3> QED
      BY <1>1, <3>1, <3>2
  <2> QED
    BY <2>1, <2>2
<1> QED
  BY <1>1, <1>2 DEF Course, Under

LEMMA ClosesKeeps ==
    ASSUME NEW r, NEW q, NEW t, NEW u, Course(r, t), Closes(r, q, t, u) PROVE Course(q, u)
<1>1. /\ q.pc = "ending" /\ q.wire = r.wire /\ r.wire \in Wires /\ ~q.task /\ q.full = r.full
      /\ Reading(r) /\ t = <<"started">> \o r.full /\ r.full \in Seq(Deltas)
      /\ r.reader.ready = <<>> /\ (r.reader.ended \/ r.pos = Len(SentOf(r)))
      /\ u = Append(t, "done")
  BY DEF Course, Closes, Reading, SameText
<1>2. SaysOf(q) = r.full
  BY <1>1, Remains, SameOpen
<1>3. Append(<<"started">> \o r.full, "done") = <<"started">> \o (r.full \o <<"done">>)
  <2>1. \A x \in Seq(Deltas) : Append(<<"started">> \o x, "done") = <<"started">> \o (x \o <<"done">>)
    OBVIOUS
  <2> QED
    BY <1>1, <2>1, Zenon
<1>4. u = OpenOf(q)
  BY <1>1, <1>2, <1>3, OpenShape
<1> QED
  BY <1>1, <1>2, <1>4 DEF Course, Under

LEMMA CompletesKeeps ==
    ASSUME NEW r, NEW q, NEW t, NEW u, Course(r, t), Completes(r, q, t, u) PROVE Course(q, u)
<1>1. /\ q.pc = "ok" /\ q.wire = r.wire /\ r.wire \in Wires \union {None} /\ u = Append(t, "completed")
      /\ OpenOf(q) = OpenOf(r) /\ SaysOf(q) = SaysOf(r) /\ OpenOf(r) \in Seq(Calm)
  BY SameOpen, OpenShape DEF Course, Completes
<1>2. t = OpenOf(q) /\ (q.wire = None \/ q.full = SaysOf(q))
  BY <1>1, OpenShape DEF Course, Completes
<1>3. Append(OpenOf(q), "completed") = OpenOf(q) \o <<"completed">>
  BY <1>1
<1> QED
  BY <1>1, <1>2, <1>3 DEF Course

LEMMA CorrelationKeeps ==
    ASSUME NEW r, NEW q, NEW t, NEW u, Course(r, t), Correlation(r, q, t, u) PROVE Course(q, u)
<1>1. /\ r.pc = "ok" /\ r.task /\ q.pc = "ok" /\ ~q.task /\ q.wire = r.wire /\ q.full = r.full
      /\ OpenOf(q) = OpenOf(r) /\ SaysOf(q) = SaysOf(r) /\ OpenOf(r) \in Seq(Calm)
      /\ r.wire \in Wires \union {None}
      /\ u = t \/ u = Append(t, "correlated")
  BY SameOpen, OpenShape DEF Course, Correlation, SameText
<1>2. t = OpenOf(q) \o <<"completed">> /\ (q.wire = None \/ q.full = SaysOf(q))
  BY <1>1 DEF Course
<1>3. Append(OpenOf(q) \o <<"completed">>, "correlated") = OpenOf(q) \o <<"completed", "correlated">>
  BY <1>1
<1> QED
  BY <1>1, <1>2, <1>3 DEF Course

LEMMA IsCutKeeps ==
    ASSUME NEW r, NEW q, NEW t, NEW u, Course(r, t), IsCut(r, q, t, u) PROVE Course(q, u)
<1>1. /\ q.wire = r.wire /\ q.full = r.full /\ q.pos = r.pos /\ q.reader = r.reader
      /\ ~q.task /\ u = t /\ OpenOf(q) = OpenOf(r) /\ SaysOf(q) = SaysOf(r)
      /\ q.pc = (IF r.pc \in Under THEN "lost" ELSE r.pc)
  BY SameOpen DEF IsCut, SameText
<1>2. CASE r.pc \in Under
  <2>1. q.pc = "lost" /\ t \in Seq(Calm) /\ \E y \in Seq(Calm) : t \o y = OpenOf(q)
    BY <1>1, <1>2, Partly
  <2> QED
    BY <1>1, <2>1 DEF Course
<1>3. CASE r.pc \notin Under
  <2>1. q.pc = r.pc /\ q.pc \notin {"auth", "limit", "reads", "ask", "stream", "ending"}
    BY <1>1, <1>3 DEF Under
  <2> QED
    BY <1>1, <2>1 DEF Course
<1> QED
  BY <1>2, <1>3

\* Whatever a step does to an analysis keeps its course.
LEMMA CourseKept ==
    ASSUME NEW r, NEW q, NEW t, NEW u, Course(r, t), Moves(r, q, t, u) PROVE Course(q, u)
BY AsksKeeps, EntersKeeps, GoesOnKeeps, OpensKeeps, ReadsSpeaksKeep, ClosesKeeps, CompletesKeeps,
   CorrelationKeeps, IsCutKeeps DEF Moves

\* The course of an analysis depends on nothing else that changes.
LEMMA CourseStays ==
    ASSUME setting' = setting, NEW r, NEW t, Course(r, t) PROVE Course(r, t)'
BY DEF Course, OpenOf, SaysOf, SentOf, Reading, On

(***************************************************************************)
(* The steps                                                               *)
(***************************************************************************)

ToldShape == told = [j \in Jobs |-> told[j]]
Coursed == \A j \in Jobs : Course(job[j], told[j])

CInv == IInv /\ ToldShape /\ Coursed

Others(j) ==
    \A i \in Jobs \ {j} :
        job'[i] = job[i] /\ told'[i] = told[i] /\ \A k \in Sockets : heard'[k][i] = heard[k][i]

Silent(j) == told'[j] = told[j] /\ \A k \in Sockets : heard'[k][j] = heard[k][j]

Spoke(j, L) ==
    \E e : /\ told'[j] = Append(told[j], e)
           /\ \A k \in Sockets :
                 heard'[k][j] = IF k \in L THEN Append(heard[k][j], e) ELSE heard[k][j]

\* A step of j: the room hears what is told, unless j was refused.
Stepped(j) ==
    /\ setting' = setting /\ socket' = socket /\ ToldShape' /\ Others(j)
    /\ Moves(job[j], job'[j], told[j], told'[j])
    /\ job[j].pc # "idle" /\ job'[j].pc # "idle"
    /\ job'[j].socket = job[j].socket /\ job'[j].session = job[j].session
    /\ \/ Silent(j) /\ (job[j].pc = "refused" => job'[j].pc = "refused")
       \/ Spoke(j, Listeners(job[j].session)) /\ job[j].pc # "refused"

LEMMA Told ==
    ASSUME CInv, NEW j \in Jobs, NEW e, NEW L, Publish(j, e, L)
    PROVE  /\ ToldShape' /\ told'[j] = Append(told[j], e) /\ Spoke(j, L)
           /\ \A i \in Jobs \ {j} : told'[i] = told[i] /\ \A k \in Sockets : heard'[k][i] = heard[k][i]
<1>1. /\ told' = [told EXCEPT ![j] = Append(@, e)] /\ told = [i \in Jobs |-> told[i]]
      /\ heard' = [k \in Sockets |-> IF k \in L THEN [heard[k] EXCEPT ![j] = Append(@, e)] ELSE heard[k]]
      /\ \A k \in Sockets : heard[k] = [i \in Jobs |-> heard[k][i]]
  BY DEF Publish, CInv, ToldShape, IInv, Shapes
<1>2. ToldShape' /\ told'[j] = Append(told[j], e) /\ \A i \in Jobs \ {j} : told'[i] = told[i]
  BY <1>1 DEF ToldShape
<1>3. \A k \in Sockets : heard'[k][j] = IF k \in L THEN Append(heard[k][j], e) ELSE heard[k][j]
  BY <1>1
<1>4. \A i \in Jobs \ {j} : \A k \in Sockets : heard'[k][i] = heard[k][i]
  BY <1>1
<1> QED
  BY <1>2, <1>3, <1>4 DEF Spoke

\* A step of j, by what becomes of its record.
LEMMA StepForm ==
    ASSUME CInv, NEW j \in Jobs, setting' = setting, socket' = socket,
           NEW r, job' = [job EXCEPT ![j] = r],
           job[j].pc # "idle", r.pc # "idle",
           r.socket = job[j].socket, r.session = job[j].session,
           NEW e,
           \/ told' = told /\ heard' = heard /\ Moves(job[j], r, told[j], told[j])
              /\ (job[j].pc = "refused" => r.pc = "refused")
           \/ Tell(j, e) /\ Moves(job[j], r, told[j], Append(told[j], e)) /\ job[j].pc # "refused"
    PROVE  Stepped(j)
<1>1. job'[j] = r /\ \A i \in Jobs \ {j} : job'[i] = job[i]
  BY DEF CInv, IInv, Shapes
<1>2. CASE told' = told /\ heard' = heard /\ Moves(job[j], r, told[j], told[j])
           /\ (job[j].pc = "refused" => r.pc = "refused")
  <2>1. ToldShape' /\ Others(j) /\ Silent(j)
    BY <1>1, <1>2 DEF CInv, ToldShape, Others, Silent
  <2> QED
    BY <1>1, <1>2, <2>1 DEF Stepped
<1>3. CASE Tell(j, e) /\ Moves(job[j], r, told[j], Append(told[j], e)) /\ job[j].pc # "refused"
  <2>1. Publish(j, e, Listeners(job[j].session))
    BY <1>3 DEF Tell
  <2>2. ToldShape' /\ Others(j) /\ Spoke(j, Listeners(job[j].session)) /\ told'[j] = Append(told[j], e)
    BY <1>1, <2>1, Told DEF Others
  <2> QED
    BY <1>1, <1>3, <2>2 DEF Stepped
<1> QED
  BY <1>2, <1>3

\* What an assignment to pc leaves of a record.
LEMMA OnlyPc ==
    ASSUME NEW a, a = Fields(a), NEW pc, NEW r, r = [a EXCEPT !.pc = pc]
    PROVE  r.pc = pc /\ r.task = a.task /\ SameText(a, r) /\ r.socket = a.socket /\ r.session = a.session
BY DEF Fields, SameText

LEMMA AuthenticateForm == ASSUME CInv, NEW j \in Jobs, Authenticate(j) PROVE Stepped(j)
<1> DEFINE u == Bearer(job[j].client)
           pc == IF u = None THEN "refused" ELSE "limit"
           r == [job[j] EXCEPT !.pc = pc, !.user = u]
<1>1. /\ job[j].pc = "auth" /\ setting' = setting /\ told' = told
      /\ socket' = socket /\ heard' = heard /\ job' = [job EXCEPT ![j] = r]
  BY DEF Authenticate
<1>2. pc \in {"limit", "refused"} /\ job[j] = Fields(job[j]) /\ r = [job[j] EXCEPT !.pc = pc, !.user = u]
  BY JobShape DEF CInv
<1> HIDE DEF u, pc, r
<1>3. r.pc = pc /\ r.task = job[j].task /\ SameText(job[j], r) /\ r.socket = job[j].socket /\ r.session = job[j].session
  BY <1>2 DEF Fields, SameText
<1>4. Moves(job[j], r, told[j], told[j])
  BY <1>1, <1>2, <1>3 DEF Moves, Enters
<1> QED
  BY <1>1, <1>2, <1>3, <1>4, StepForm

LEMMA AdmitForm ==
    ASSUME CInv, NEW j \in Jobs, Admit(j) \/ AdmitFails(j) PROVE Stepped(j)
<1>1. job[j].pc = "limit" /\ setting' = setting /\ socket' = socket /\ job[j] = Fields(job[j])
  BY JobShape DEF Admit, AdmitFails, CInv
<1>2. CASE job' = [job EXCEPT ![j].pc = "reads"] /\ Tell(j, "started")
  <2> DEFINE r == [job[j] EXCEPT !.pc = "reads"]
  <2>1. r = [job[j] EXCEPT !.pc = "reads"] /\ job' = [job EXCEPT ![j] = r]
    BY <1>2
  <2> HIDE DEF r
  <2>2. r.pc = "reads" /\ r.task = job[j].task /\ SameText(job[j], r) /\ r.socket = job[j].socket /\ r.session = job[j].session
    BY <1>1, <2>1, OnlyPc
  <2>3. Moves(job[j], r, told[j], Append(told[j], "started"))
    BY <1>1, <2>2 DEF Moves, Enters
  <2> QED
    BY <1>1, <1>2, <2>1, <2>2, <2>3, StepForm
<1>3. ASSUME NEW pc \in {"refused", "limited", "failed"}, job' = [job EXCEPT ![j].pc = pc],
             told' = told, heard' = heard
      PROVE  Stepped(j)
  <2> DEFINE r == [job[j] EXCEPT !.pc = pc]
  <2>1. r = [job[j] EXCEPT !.pc = pc] /\ job' = [job EXCEPT ![j] = r]
    BY <1>3
  <2> HIDE DEF r
  <2>2. r.pc = pc /\ r.task = job[j].task /\ SameText(job[j], r) /\ r.socket = job[j].socket /\ r.session = job[j].session
    BY <1>1, <2>1, OnlyPc
  <2>3. Moves(job[j], r, told[j], told[j])
    BY <1>1, <2>2 DEF Moves, Enters
  <2> QED
    BY <1>1, <1>3, <2>1, <2>2, <2>3, StepForm
<1> QED
  BY <1>2, <1>3 DEF Admit, AdmitFails

LEMMA QuietForm ==
    ASSUME CInv, NEW j \in Jobs, ReadsBack(j) \/ Fails(j) \/ (\E w \in Wires : Accepted(j, w)) \/ Read(j)
    PROVE  Stepped(j)
<1>1. /\ setting' = setting /\ socket' = socket /\ told' = told /\ heard' = heard
      /\ job[j].pc \in {"reads", "ask", "stream"} /\ job[j] = Fields(job[j])
  BY JobShape DEF ReadsBack, Accepted, Fails, Read, CInv
<1>2. ASSUME NEW pc, job' = [job EXCEPT ![j].pc = pc],
             (job[j].pc = "reads" /\ pc = "ask") \/ (job[j].pc \in {"ask", "stream"} /\ pc = "failed")
      PROVE  Stepped(j)
  <2> DEFINE r == [job[j] EXCEPT !.pc = pc]
  <2>1. r = [job[j] EXCEPT !.pc = pc] /\ job' = [job EXCEPT ![j] = r]
    BY <1>2
  <2> HIDE DEF r
  <2>2. r.pc = pc /\ r.task = job[j].task /\ SameText(job[j], r) /\ r.socket = job[j].socket /\ r.session = job[j].session
    BY <1>1, <2>1, OnlyPc
  <2>3. GoesOn(job[j], r, told[j], told[j])
    BY <1>2, <2>2 DEF GoesOn
  <2>4. Moves(job[j], r, told[j], told[j]) /\ r.pc # "idle" /\ job[j].pc # "refused" /\ job[j].pc # "idle"
    BY <1>1, <1>2, <2>2, <2>3 DEF Moves
  <2> QED
    BY <1>1, <2>1, <2>2, <2>4, StepForm
<1>3. ASSUME NEW w \in Wires, Accepted(j, w) PROVE Stepped(j)
  <2> DEFINE r == [job[j] EXCEPT !.pc = "stream", !.wire = w]
  <2>1. r = [job[j] EXCEPT !.pc = "stream", !.wire = w] /\ job' = [job EXCEPT ![j] = r] /\ job[j].pc = "ask"
    BY <1>3 DEF Accepted
  <2> HIDE DEF r
  <2>2. /\ r.pc = "stream" /\ r.wire = w /\ r.full = job[j].full /\ r.pos = job[j].pos
        /\ r.reader = job[j].reader /\ r.task = job[j].task /\ r.socket = job[j].socket /\ r.session = job[j].session
    BY <1>1, <2>1 DEF Fields
  <2>3. Moves(job[j], r, told[j], told[j])
    BY <2>1, <2>2 DEF Moves, Opens
  <2> QED
    BY <1>1, <2>1, <2>2, <2>3, StepForm
<1>4. ASSUME Read(j) PROVE Stepped(j)
  <2>1. PICK to \in (job[j].pos + 1)..Len(Sent(j)) :
           job' = [job EXCEPT ![j] =
               [job[j] EXCEPT !.pos = to,
                              !.reader = Feed(@, SubSeq(Sent(j), job[j].pos + 1, to), On("ollama"))]]
    BY <1>4 DEF Read
  <2> DEFINE more == Feed(job[j].reader, SubSeq(Sent(j), job[j].pos + 1, to), On("ollama"))
             r == [job[j] EXCEPT !.pos = to, !.reader = more]
  <2>2. r = [job[j] EXCEPT !.pos = to, !.reader = more] /\ job' = [job EXCEPT ![j] = r] /\ job[j].pc = "stream"
    BY <1>4, <2>1 DEF Read
  <2> HIDE DEF r
  <2>3. /\ r.pc = "stream" /\ r.wire = job[j].wire /\ r.full = job[j].full /\ r.pos = to
        /\ r.reader = more /\ r.task = job[j].task /\ r.socket = job[j].socket /\ r.session = job[j].session
    BY <1>1, <2>2 DEF Fields
  <2>4. Sent(j) = SentOf(job[j])
    BY DEF Sent, SentOf
  <2>5. Moves(job[j], r, told[j], told[j])
    BY <2>1, <2>2, <2>3, <2>4 DEF Moves, Reads
  <2> QED
    BY <1>1, <2>2, <2>3, <2>5, StepForm
<1> QED
  BY <1>2, <1>3, <1>4 DEF ReadsBack, Fails

LEMMA PieceForm == ASSUME CInv, NEW j \in Jobs, Piece(j) PROVE Stepped(j)
<1> DEFINE d == Head(job[j].reader.ready)
           rest == [job[j].reader EXCEPT !.ready = Tail(@)]
           text == Append(job[j].full, d)
           r == [job[j] EXCEPT !.reader = rest, !.full = text]
<1>1. /\ setting' = setting /\ socket' = socket /\ job[j].pc = "stream" /\ Tell(j, d)
      /\ job[j].reader.ready # <<>> /\ job[j] = Fields(job[j]) /\ job[j].task \in {job[j].task}
  BY JobShape DEF Piece, CInv
<1>2. r = [job[j] EXCEPT !.reader = rest, !.full = text] /\ job' = [job EXCEPT ![j] = r]
  BY DEF Piece
<1> HIDE DEF r
<1>3. /\ r.pc = "stream" /\ r.wire = job[j].wire /\ r.full = text /\ r.pos = job[j].pos
      /\ r.reader = rest /\ r.task = job[j].task /\ r.socket = job[j].socket /\ r.session = job[j].session
  BY <1>1, <1>2 DEF Fields
<1>4. Moves(job[j], r, told[j], Append(told[j], d))
  BY <1>1, <1>3 DEF Moves, Speaks
<1> HIDE DEF d, rest, text
<1> QED
  BY <1>1, <1>2, <1>3, <1>4, StepForm

LEMMA LastPieceForm == ASSUME CInv, NEW j \in Jobs, LastPiece(j) PROVE Stepped(j)
<1> DEFINE r == [job[j] EXCEPT !.pc = "ending"]
<1>1. /\ setting' = setting /\ socket' = socket /\ job[j].pc = "stream" /\ Tell(j, "done")
      /\ job[j].reader.ready = <<>> /\ job[j] = Fields(job[j]) /\ job' = [job EXCEPT ![j] = r]
      /\ job[j].reader.ended \/ job[j].pos = Len(Sent(j))
  BY JobShape DEF LastPiece, CInv
<1>2. Sent(j) = SentOf(job[j])
  BY DEF Sent, SentOf
<1>r. r = [job[j] EXCEPT !.pc = "ending"] /\ job[j] = Fields(job[j])
  BY JobShape DEF CInv
<1> HIDE DEF r
<1>3. r.pc = "ending" /\ r.task = job[j].task /\ SameText(job[j], r) /\ r.socket = job[j].socket /\ r.session = job[j].session
  BY <1>r, OnlyPc
<1>4. Moves(job[j], r, told[j], Append(told[j], "done"))
  BY <1>1, <1>2, <1>3 DEF Moves, Closes
<1> QED
  BY <1>1, <1>3, <1>4, StepForm

LEMMA CompletionForm == ASSUME CInv, NEW j \in Jobs, Answered(j) \/ Finish(j) PROVE Stepped(j)
<1>1. /\ setting' = setting /\ socket' = socket /\ job[j] = Fields(job[j])
      /\ \E text : /\ Complete(j, text)
                   /\ job[j].pc = "ask" \/ (job[j].pc = "ending" /\ text = job[j].full)
  BY JobShape DEF Answered, Finish, CInv
<1>2. PICK text : /\ Complete(j, text)
                  /\ job[j].pc = "ask" \/ (job[j].pc = "ending" /\ text = job[j].full)
  BY <1>1
<1> DEFINE more == Correlates(job[j].user)
           r == [job[j] EXCEPT !.pc = "ok", !.full = text, !.task = more]
<1>3. /\ Tell(j, "completed") /\ job' = [job EXCEPT ![j] = r]
      /\ r = [job[j] EXCEPT !.pc = "ok", !.full = text, !.task = more]
  BY <1>2 DEF Complete
<1> HIDE DEF more, r
<1>4. /\ r.pc = "ok" /\ r.wire = job[j].wire /\ r.full = text
      /\ r.socket = job[j].socket /\ r.session = job[j].session
  BY <1>1, <1>3 DEF Fields
<1>5. Moves(job[j], r, told[j], Append(told[j], "completed"))
  BY <1>2, <1>4 DEF Moves, Completes
<1> QED
  BY <1>1, <1>2, <1>3, <1>4, <1>5, StepForm

LEMMA CorrelatedForm == ASSUME CInv, NEW j \in Jobs, Correlated(j) PROVE Stepped(j)
<1> DEFINE r == [job[j] EXCEPT !.task = FALSE]
<1>1. /\ setting' = setting /\ socket' = socket /\ job[j] = Fields(job[j]) /\ job[j].task
      /\ job' = [job EXCEPT ![j] = r] /\ (Tell(j, "correlated") \/ (told' = told /\ heard' = heard))
  BY JobShape DEF Correlated, CInv
<1>2. job[j].pc = "ok"
  BY <1>1 DEF CInv, Coursed, Course
<1>3. r = [job[j] EXCEPT !.task = FALSE]
  OBVIOUS
<1> HIDE DEF r
<1>4. /\ r.pc = "ok" /\ ~r.task /\ SameText(job[j], r) /\ r.socket = job[j].socket /\ r.session = job[j].session
  BY <1>1, <1>2, <1>3 DEF Fields, SameText
<1>5. /\ Moves(job[j], r, told[j], Append(told[j], "correlated"))
      /\ Moves(job[j], r, told[j], told[j])
  BY <1>1, <1>2, <1>4 DEF Moves, Correlation
<1> QED
  BY <1>1, <1>2, <1>4, <1>5, StepForm

LEMMA StepIsForm == ASSUME CInv, NEW j \in Jobs, Step(j) PROVE Stepped(j)
<1>1. CASE Authenticate(j) \/ Admit(j) \/ AdmitFails(j)
  BY <1>1, AuthenticateForm, AdmitForm
<1>2. CASE ReadsBack(j) \/ Fails(j) \/ (\E w \in Wires : Accepted(j, w)) \/ Read(j)
  BY <1>2, QuietForm
<1>3. CASE Piece(j) \/ LastPiece(j)
  BY <1>3, PieceForm, LastPieceForm
<1>4. CASE Answered(j) \/ Finish(j) \/ Correlated(j)
  BY <1>4, CompletionForm, CorrelatedForm
<1> QED
  BY <1>1, <1>2, <1>3, <1>4 DEF Step

(***************************************************************************)
(* Who asks and who hears                                                  *)
(***************************************************************************)

\* The socket that asked is in the room of its stream, and has heard it all.
Asking ==
    \A j \in Jobs :
        /\ job[j].pc = "idle" => job[j].socket = None
        /\ \A k \in Sockets :
              job[j].socket = k =>
                  /\ socket[k].pc \in {"in", "gone"}
                  /\ socket[k].pc = "in" =>
                        /\ heard[k][j] = told[j]
                        /\ job[j].pc = "refused" \/ job[j].session \in socket[k].rooms

RInv == CInv /\ Asking

\* Sockets come in once, and keep their rooms while they are in.
SocketsStay ==
    \A k \in Sockets : socket[k].pc \in {"in", "gone"} =>
        /\ socket'[k].pc \in {"in", "gone"}
        /\ socket'[k].pc = "in" => socket[k].pc = "in" /\ socket[k].rooms \subseteq socket'[k].rooms

\* A step that tells nothing.
LEMMA TellsNothing ==
    ASSUME RInv, setting' = setting, told' = told, heard' = heard, IInv', SocketsStay,
           \A j \in Jobs :
               /\ Moves(job[j], job'[j], told[j], told[j])
               /\ job'[j].socket = job[j].socket /\ job'[j].session = job[j].session
               /\ job'[j].pc = "idle" => job[j].pc = "idle"
               /\ job[j].pc = "refused" => job'[j].pc = "refused"
    PROVE  RInv'
<1>1. ToldShape'
  BY DEF RInv, CInv, ToldShape
<1>2. Coursed'
  <2> SUFFICES ASSUME NEW j \in Jobs PROVE Course(job[j], told[j])'
    BY DEF Coursed
  <2>1. Course(job[j], told[j])
    BY DEF RInv, CInv, Coursed
  <2>2. Course(job'[j], told[j])
    BY <2>1, CourseKept
  <2> QED
    BY <2>2, CourseStays
<1>3. Asking'
  <2> SUFFICES ASSUME NEW j \in Jobs
               PROVE  /\ job'[j].pc = "idle" => job'[j].socket = None
                      /\ \A k \in Sockets :
                            job'[j].socket = k =>
                                /\ socket'[k].pc \in {"in", "gone"}
                                /\ socket'[k].pc = "in" =>
                                      /\ heard'[k][j] = told'[j]
                                      /\ job'[j].pc = "refused" \/ job'[j].session \in socket'[k].rooms
    BY DEF Asking
  <2> QED
    BY DEF RInv, Asking, SocketsStay
<1> QED
  BY <1>1, <1>2, <1>3 DEF RInv, CInv

LEMMA SteppedKeeps ==
    ASSUME RInv, IInv', NEW j \in Jobs, Stepped(j) PROVE RInv'
<1>1. setting' = setting /\ socket' = socket /\ ToldShape' /\ Others(j)
  BY DEF Stepped
<1>2. Coursed'
  <2> SUFFICES ASSUME NEW i \in Jobs PROVE Course(job[i], told[i])'
    BY DEF Coursed
  <2>1. Course(job[i], told[i])
    BY DEF RInv, CInv, Coursed
  <2>2. Moves(job[i], job'[i], told[i], told'[i])
    BY DEF Stepped, Others, Moves
  <2>3. Course(job'[i], told'[i])
    BY <2>1, <2>2, CourseKept
  <2> QED
    BY <1>1, <2>3, CourseStays
<1>3. Asking'
  <2> SUFFICES ASSUME NEW i \in Jobs
               PROVE  /\ job'[i].pc = "idle" => job'[i].socket = None
                      /\ \A k \in Sockets :
                            job'[i].socket = k =>
                                /\ socket[k].pc \in {"in", "gone"}
                                /\ socket[k].pc = "in" =>
                                      /\ heard'[k][i] = told'[i]
                                      /\ job'[i].pc = "refused" \/ job'[i].session \in socket[k].rooms
    BY <1>1 DEF Asking
  <2>1. CASE i # j
    BY <2>1 DEF Stepped, Others, RInv, Asking
  <2>2. CASE i = j
    <3> SUFFICES ASSUME NEW k \in Sockets, job[j].socket = k
                 PROVE  /\ socket[k].pc \in {"in", "gone"}
                        /\ socket[k].pc = "in" =>
                              /\ heard'[k][j] = told'[j]
                              /\ job'[j].pc = "refused" \/ job[j].session \in socket[k].rooms
      BY <2>2 DEF Stepped
    <3>1. /\ socket[k].pc \in {"in", "gone"}
          /\ socket[k].pc = "in" =>
                /\ heard[k][j] = told[j]
                /\ job[j].pc = "refused" \/ job[j].session \in socket[k].rooms
      BY DEF RInv, Asking
    <3>2. CASE Silent(j) /\ (job[j].pc = "refused" => job'[j].pc = "refused")
      BY <3>1, <3>2 DEF Silent
    <3>3. CASE Spoke(j, Listeners(job[j].session)) /\ job[j].pc # "refused"
      <4>1. socket[k].pc = "in" => k \in Listeners(job[j].session)
        BY <3>1, <3>3 DEF Listeners
      <4> QED
        BY <3>1, <3>3, <4>1 DEF Spoke
    <3> QED
      BY <3>2, <3>3 DEF Stepped
  <2> QED
    BY <2>1, <2>2
<1> QED
  BY <1>1, <1>2, <1>3 DEF RInv, CInv

LEMMA SocketForms ==
    ASSUME IInv, NEW k \in Sockets,
           Arrive(k) \/ Leave(k) \/ (\E s \in setting.asked : Subscribe(k, s))
    PROVE  SocketsStay /\ setting' = setting /\ job' = job /\ told' = told /\ heard' = heard
<1>1. setting' = setting /\ job' = job /\ told' = told /\ heard' = heard
  BY DEF Arrive, Connect, Verified, Audited, Leave, Subscribe
<1>2. socket[k] \in Connection /\ socket \in [Sockets -> Connection]
  BY SocketShape DEF IInv, Shapes
<1>3. ASSUME NEW c, socket' = [socket EXCEPT ![k] = c],
             \/ socket[k].pc \notin {"in", "gone"}
             \/ c.pc = "gone"
             \/ c.pc = "in" /\ socket[k].pc = "in" /\ socket[k].rooms \subseteq c.rooms
      PROVE  SocketsStay
  BY <1>2, <1>3 DEF SocketsStay
<1>4. CASE Arrive(k)
  <2>1. socket[k].pc \notin {"in", "gone"}
    BY <1>4 DEF Arrive, Connect, Verified, Audited
  <2>2. \E c : socket' = [socket EXCEPT ![k] = c]
    BY <1>4 DEF Arrive, Connect, Verified, Audited, Enter
  <2>3. PICK c : socket' = [socket EXCEPT ![k] = c]
    BY <2>2
  <2> QED
    BY <1>1, <1>3, <2>1, <2>3
<1>5. CASE Leave(k)
  <2> DEFINE c == [socket[k] EXCEPT !.pc = "gone", !.rooms = {}]
  <2>1. socket' = [socket EXCEPT ![k] = c]
    BY <1>5 DEF Leave
  <2>2. c.pc = "gone"
    BY <1>2 DEF Connection
  <2> HIDE DEF c
  <2> QED
    BY <1>1, <1>3, <2>1, <2>2
<1>6. ASSUME NEW s, Subscribe(k, s) PROVE SocketsStay
  <2> DEFINE c == [socket[k] EXCEPT !.rooms = @ \union {s}]
  <2>1. socket[k].pc = "in" /\ c.pc = "in" /\ c.rooms = socket[k].rooms \union {s}
    BY <1>2, <1>6 DEF Subscribe, Connection
  <2>2. socket' = [socket EXCEPT ![k] = c]
    BY <1>6 DEF Subscribe
  <2> HIDE DEF c
  <2> QED
    BY <1>3, <2>1, <2>2
<1> QED
  BY <1>1, <1>4, <1>5, <1>6

LEMMA SocketsKeep ==
    ASSUME RInv, IInv', NEW k \in Sockets,
           Arrive(k) \/ Leave(k) \/ (\E s \in setting.asked : Subscribe(k, s))
    PROVE  RInv'
<1>1. SocketsStay /\ setting' = setting /\ job' = job /\ told' = told /\ heard' = heard
  BY SocketForms DEF RInv, CInv
<1>2. \A j \in Jobs : Moves(job[j], job'[j], told[j], told[j])
  BY <1>1 DEF Moves
<1> QED
  BY <1>1, <1>2, TellsNothing

LEMMA CutsKeep ==
    ASSUME RInv, IInv', Cut, setting' = setting, told' = told, heard' = heard PROVE RInv'
<1>1. ASSUME NEW j \in Jobs
      PROVE  /\ Moves(job[j], job'[j], told[j], told[j])
             /\ job'[j].socket = job[j].socket /\ job'[j].session = job[j].session
             /\ job'[j].pc = "idle" => job[j].pc = "idle"
             /\ job[j].pc = "refused" => job'[j].pc = "refused"
  <2> DEFINE pc == IF job[j].pc \in Under THEN "lost" ELSE job[j].pc
             r == [job[j] EXCEPT !.pc = pc, !.task = FALSE]
  <2>1. job'[j] = r
    BY DEF Cut
  <2>2. r = [job[j] EXCEPT !.pc = pc, !.task = FALSE] /\ job[j] = Fields(job[j])
    BY JobShape DEF RInv, CInv
  <2> HIDE DEF r
  <2>3. r.pc = pc /\ ~r.task /\ SameText(job[j], r) /\ r.socket = job[j].socket /\ r.session = job[j].session
    BY <2>2 DEF Fields, SameText
  <2>4. IsCut(job[j], r, told[j], told[j])
    BY <2>3 DEF IsCut
  <2>5. (pc = "idle" => job[j].pc = "idle") /\ (job[j].pc = "refused" => pc = "refused")
    BY DEF Under
  <2> HIDE DEF pc
  <2> QED
    BY <2>1, <2>3, <2>4, <2>5 DEF Moves
<1>2. SocketsStay
  <2> SUFFICES ASSUME NEW k \in Sockets, socket[k].pc \in {"in", "gone"} PROVE socket'[k].pc = "gone"
    BY DEF SocketsStay
  <2>1. socket[k] \in Connection
    BY SocketShape DEF RInv, CInv
  <2>2. CASE socket[k].pc = "in"
    <3>1. socket'[k] = [socket[k] EXCEPT !.pc = "gone", !.rooms = {}]
      BY <2>2 DEF Cut
    <3> QED
      BY <2>1, <3>1 DEF Connection
  <2>3. CASE socket[k].pc = "gone"
    <3>1. socket'[k] = socket[k]
      BY <2>3 DEF Cut
    <3> QED
      BY <2>3, <3>1
  <2> QED
    BY <2>2, <2>3
<1> QED
  BY <1>1, <1>2, TellsNothing

LEMMA RequestKeepsCourse ==
    ASSUME RInv, IInv', NEW j \in Jobs, NEW c \in Clients, NEW s, Request(j, c, s) PROVE RInv'
<1>0. PICK pc \in {"auth", "refused", "failed"} :
          job' = [job EXCEPT ![j] = Requested(c, s, pc)]
  BY RequestForm
<1> DEFINE r == Requested(c, s, pc)
<1>1. /\ job[j].pc = "idle" /\ setting' = setting /\ told' = told
      /\ socket' = socket /\ heard' = heard /\ job' = [job EXCEPT ![j] = r]
  BY <1>0 DEF Request, NextOf
<1>2. r = [Idle EXCEPT !.pc = pc, !.client = c, !.session = s]
  BY DEF Requested
<1> HIDE DEF r
<1>3. /\ r.pc = pc /\ ~r.task /\ r.socket = None
      /\ r.wire = None /\ r.full = <<>> /\ r.pos = 0 /\ r.reader = Fresh
  BY <1>2 DEF Idle
<1>4. /\ job'[j] = r
      /\ \A i \in Jobs : i # j => job'[i] = job[i]
  BY <1>1 DEF RInv, CInv, IInv, Shapes
<1>5. Asks(job[j], r, told[j], told[j])
  BY <1>1, <1>2, <1>3 DEF Asks
<1>6. ToldShape'
  BY <1>1 DEF RInv, CInv, ToldShape
<1>7. Coursed'
  <2> SUFFICES ASSUME NEW i \in Jobs PROVE Course(job[i], told[i])'
    BY DEF Coursed
  <2>1. Course(job[i], told[i])
    BY DEF RInv, CInv, Coursed
  <2>2. Course(job'[i], told[i])
    BY <1>4, <1>5, <2>1, AsksKeeps
  <2> QED
    BY <1>1, <2>2, CourseStays
<1>8. Asking'
  <2>1. \A i \in Jobs : job'[i].pc = "idle" => job'[i].socket = None
    BY <1>3, <1>4 DEF RInv, Asking
  <2>2. ASSUME NEW i \in Jobs, NEW k \in Sockets, job'[i].socket = k
        PROVE  /\ socket'[k].pc \in {"in", "gone"}
               /\ socket'[k].pc = "in" =>
                     /\ heard'[k][i] = told'[i]
                     /\ job'[i].pc = "refused" \/ job'[i].session \in socket'[k].rooms
    <3>1. i # j
      BY <1>3, <1>4, <2>2, SocketsAssumption
    <3> QED
      BY <1>1, <1>4, <2>2, <3>1 DEF RInv, Asking
  <2> QED
    BY <2>1, <2>2 DEF Asking
<1> QED
  BY <1>6, <1>7, <1>8 DEF RInv, CInv

\* The socket is in the room before the first word.
LEMMA StreamKeepsCourse ==
    ASSUME RInv, IInv', NEW k \in Sockets, NEW j \in Jobs, NEW s, Stream(k, j, s) PROVE RInv'
<1> DEFINE u == socket[k].user
           pc == IF CanJoinRoom(u, s) THEN "reads" ELSE "refused"
           r == [Idle EXCEPT !.pc = pc, !.socket = k, !.session = s, !.user = u]
<1>1. /\ job[j].pc = "idle" /\ setting' = setting /\ socket[k].pc = "in" /\ socket[k] \in Connection
      /\ socket \in [Sockets -> Connection]
  BY SocketShape DEF Stream, NextOf, RInv, CInv, IInv, Shapes
<1>2. job' = [job EXCEPT ![j] = r]
  BY DEF Stream, Asked
<1>3. pc \in {"reads", "refused"} /\ r = [Idle EXCEPT !.pc = pc, !.socket = k, !.session = s, !.user = u]
  OBVIOUS
<1> HIDE DEF r
<1>4. /\ r.pc = pc /\ ~r.task /\ r.socket = k /\ r.session = s
      /\ r.wire = None /\ r.full = <<>> /\ r.pos = 0 /\ r.reader = Fresh
  BY <1>3 DEF Idle
<1>5. /\ job'[j] = r
      /\ \A i \in Jobs : i # j => job'[i] = job[i]
  BY <1>2 DEF RInv, CInv, IInv, Shapes
<1>6. told[j] = <<>> /\ \A l \in Sockets : heard[l][j] = <<>>
  BY <1>1 DEF RInv, CInv, Coursed, Course, IInv, HeardOwn
<1>7. /\ told'[j] = IF pc = "reads" THEN Append(told[j], "started") ELSE told[j]
      /\ ToldShape' /\ heard'[k][j] = told'[j]
      /\ \A i \in Jobs \ {j} : told'[i] = told[i] /\ \A l \in Sockets : heard'[l][i] = heard[l][i]
      /\ pc = "reads" => s \in socket'[k].rooms
      /\ socket'[k].pc = "in" /\ socket[k].rooms \subseteq socket'[k].rooms
      /\ \A l \in Sockets \ {k} : socket'[l] = socket[l]
  <2>1. CASE CanJoinRoom(u, s)
    <3> DEFINE L == Listeners(s) \union {k}
    <3>1. socket' = [socket EXCEPT ![k].rooms = @ \union {s}] /\ Publish(j, "started", L) /\ k \in L
      BY <2>1 DEF Stream
    <3> HIDE DEF L
    <3>2. /\ ToldShape' /\ told'[j] = Append(told[j], "started") /\ Spoke(j, L)
          /\ \A i \in Jobs \ {j} : told'[i] = told[i] /\ \A l \in Sockets : heard'[l][i] = heard[l][i]
      BY <3>1, Told DEF RInv
    <3>3. heard'[k][j] = told'[j]
      BY <1>6, <3>1, <3>2 DEF Spoke
    <3>4. /\ socket'[k] = [socket[k] EXCEPT !.rooms = @ \union {s}]
          /\ \A l \in Sockets \ {k} : socket'[l] = socket[l]
      BY <1>1, <3>1
    <3>5. socket'[k].pc = "in" /\ socket'[k].rooms = socket[k].rooms \union {s}
      BY <1>1, <3>4 DEF Connection
    <3> QED
      BY <2>1, <3>2, <3>3, <3>4, <3>5
  <2>2. CASE ~CanJoinRoom(u, s)
    <3>1. socket' = socket /\ told' = told /\ heard' = heard
      BY <2>2 DEF Stream
    <3> QED
      BY <1>1, <1>6, <2>2, <3>1 DEF RInv, CInv, ToldShape
  <2> QED
    BY <2>1, <2>2
<1> HIDE DEF pc, u
<1>8. Coursed'
  <2> SUFFICES ASSUME NEW i \in Jobs PROVE Course(job[i], told[i])'
    BY DEF Coursed
  <2>1. Course(job[i], told[i])
    BY DEF RInv, CInv, Coursed
  <2>2. Asks(job[j], r, told[j], told'[j])
    BY <1>1, <1>3, <1>4, <1>7 DEF Asks
  <2>3. Course(job'[i], told'[i])
    BY <1>5, <1>7, <2>1, <2>2, AsksKeeps
  <2> QED
    BY <1>1, <2>3, CourseStays
<1>9. Asking'
  <2>1. \A i \in Jobs : job'[i].pc = "idle" => job'[i].socket = None
    BY <1>3, <1>4, <1>5 DEF RInv, Asking
  <2>2. ASSUME NEW i \in Jobs, NEW l \in Sockets, job'[i].socket = l
        PROVE  /\ socket'[l].pc \in {"in", "gone"}
               /\ socket'[l].pc = "in" =>
                     /\ heard'[l][i] = told'[i]
                     /\ job'[i].pc = "refused" \/ job'[i].session \in socket'[l].rooms
    <3>1. CASE i = j
      <4>1. l = k
        BY <1>4, <1>5, <2>2, <3>1
      <4> QED
        BY <1>3, <1>4, <1>5, <1>7, <3>1, <4>1
    <3>2. CASE i # j
      <4>1. /\ socket[l].pc \in {"in", "gone"}
            /\ socket[l].pc = "in" =>
                  /\ heard[l][i] = told[i]
                  /\ job[i].pc = "refused" \/ job[i].session \in socket[l].rooms
        BY <1>5, <2>2, <3>2 DEF RInv, Asking
      <4>2. heard'[l][i] = heard[l][i] /\ told'[i] = told[i] /\ job'[i] = job[i]
        BY <1>5, <1>7, <3>2
      <4>3. l = k \/ socket'[l] = socket[l]
        BY <1>7
      <4> QED
        BY <1>1, <1>7, <4>1, <4>2, <4>3
    <3> QED
      BY <3>1, <3>2
  <2> QED
    BY <2>1, <2>2 DEF Asking
<1> QED
  BY <1>7, <1>8, <1>9 DEF RInv, CInv

LEMMA StillKeepsCourse ==
    ASSUME RInv, IInv', setting' = setting, socket' = socket, job' = job, told' = told, heard' = heard
    PROVE  RInv'
<1>1. SocketsStay /\ \A j \in Jobs : Moves(job[j], job'[j], told[j], told[j])
  BY DEF SocketsStay, Moves
<1> QED
  BY <1>1, TellsNothing

LEMMA BeginsIdle == Init => RInv
<1> SUFFICES ASSUME Init PROVE RInv
  OBVIOUS
<1>1. IInv
  BY Begins
<1>2. ToldShape
  BY DEF Init, ToldShape
<1>3. \A j \in Jobs : job[j] = Idle /\ told[j] = <<>>
  BY DEF Init
<1>4. Coursed
  BY <1>3 DEF Coursed, Course, Idle
<1>5. Asking
  BY <1>3, SocketsAssumption DEF Asking, Idle
<1> QED
  BY <1>1, <1>2, <1>4, <1>5 DEF RInv, CInv

LEMMA CourseIsKept == RInv /\ [Next]_vars => RInv'
<1> SUFFICES ASSUME RInv, [Next]_vars PROVE RInv'
  OBVIOUS
<1>1. IInv'
  BY NextKeeps DEF RInv, CInv
<1>2. ASSUME NEW k \in Sockets, Arrive(k) \/ Leave(k) \/ (\E s \in setting.asked : Subscribe(k, s))
      PROVE  RInv'
  BY <1>1, <1>2, SocketsKeep
<1>3. ASSUME NEW j \in Jobs, Question(j) PROVE RInv'
  BY <1>1, <1>3, StreamKeepsCourse, RequestKeepsCourse DEF Question
<1>4. ASSUME NEW j \in Jobs, Step(j) PROVE RInv'
  BY <1>1, <1>4, StepIsForm, SteppedKeeps DEF RInv
<1>5. ASSUME NEW l, NEW key, Expire(l, key) PROVE RInv'
  BY <1>1, <1>5, StillKeepsCourse DEF Expire
<1>6. CASE Restart \/ Exit0 \/ Exit1
  BY <1>1, <1>6, CutsKeep DEF Restart, Exit0, Exit1
<1>7. CASE Shutdown \/ UNCHANGED vars
  BY <1>1, <1>7, StillKeepsCourse DEF Shutdown, vars
<1> QED
  BY <1>2, <1>3, <1>4, <1>5, <1>6, <1>7 DEF Next

(***************************************************************************)
(* What the course says                                                    *)
(***************************************************************************)

LEMMA PrefixOf ==
    ASSUME NEW S, NEW x \in Seq(S), NEW y \in Seq(S) PROVE IsPrefix(x, x \o y)
<1>1. Len(x) <= Len(x \o y) /\ SubSeq(x, 1, Len(x)) = x /\ SubSeq(x \o y, 1, Len(x)) = x
  OBVIOUS
<1> QED
  BY <1>1 DEF IsPrefix

LEMMA PrefixOfMore ==
    ASSUME NEW S, NEW x \in Seq(S), NEW y \in Seq(S), NEW z \in Seq(S) PROVE IsPrefix(x, (x \o y) \o z)
<1>1. y \o z \in Seq(S) /\ (x \o y) \o z = x \o (y \o z)
  OBVIOUS
<1> QED
  BY <1>1, PrefixOf

LEMMA SetOf ==
    ASSUME NEW S, NEW x \in Seq(S), NEW a
    PROVE  (a \in ToSet(x) => a \in S) /\ a \in ToSet(x \o <<a>>) /\ \A b : a \in ToSet(x \o <<a, b>>)
<1>1. a \in ToSet(x) => a \in S
  BY DEF ToSet
<1>2. a \in ToSet(x \o <<a>>)
  <2>1. Len(x) + 1 \in 1..Len(x \o <<a>>) /\ (x \o <<a>>)[Len(x) + 1] = a
    OBVIOUS
  <2> QED
    BY <2>1 DEF ToSet
<1>3. ASSUME NEW b PROVE a \in ToSet(x \o <<a, b>>)
  <2>1. Len(x) + 1 \in 1..Len(x \o <<a, b>>) /\ (x \o <<a, b>>)[Len(x) + 1] = a
    OBVIOUS
  <2> QED
    BY <2>1 DEF ToSet
<1> QED
  BY <1>1, <1>2, <1>3

\* The story is what is published before the end, and the end.
LEMMA StoryOf ==
    ASSUME NEW j \in Jobs, job[j].wire \in Wires \union {None}
    PROVE  Story(j) = OpenOf(job[j]) \o <<"completed", "correlated">>
<1> DEFINE open == IF job[j].wire = None THEN <<>> ELSE SaysOf(job[j]) \o <<"done">>
           S == Calm \union {"completed", "correlated"}
<1>1. open \in Seq(S)
  <2>1. <<>> \in Seq(S)
    OBVIOUS
  <2>2. CASE job[j].wire \in Wires
    <3>1. SaysOf(job[j]) \in Seq(Deltas)
      BY <2>2, WireShape
    <3>2. \A x \in Seq(Deltas) : x \o <<"done">> \in Seq(S)
      BY DEF Calm
    <3> QED
      BY <2>1, <3>1, <3>2
  <2> QED
    BY <2>1, <2>2
<1>2. Story(j) = <<"started">> \o open \o <<"completed", "correlated">>
  BY DEF Story, SaysOf
<1>3. OpenOf(job[j]) = <<"started">> \o open
  BY DEF OpenOf
<1> HIDE DEF open
<1> QED
  BY <1>2, <1>3

\* What the course says of the events.
LEMMA CourseTells ==
    ASSUME RInv, NEW j \in Jobs
    PROVE  /\ IsPrefix(told[j], Story(j))
           /\ "completed" \in ToSet(told[j]) <=> job[j].pc = "ok"
           /\ job[j].pc \in {"refused", "limited"} => told[j] = <<>>
<1> DEFINE r == job[j]
           t == told[j]
           last == <<"completed", "correlated">>
           S == Calm \union {"completed", "correlated"}
<1>1. Course(r, t) /\ r.wire \in Wires \union {None}
  BY DEF RInv, CInv, Coursed, Course
<1>2. Story(j) = OpenOf(r) \o last
  BY <1>1, StoryOf
<1>3. OpenOf(r) \in Seq(Calm)
  BY <1>1, OpenShape
<1>4. "completed" \notin Calm
  BY DeltasAssumption DEF Calm
<1>5. ASSUME t \in Seq(Calm), NEW y \in Seq(Calm), t \o y = OpenOf(r)
      PROVE  IsPrefix(t, OpenOf(r) \o last) /\ "completed" \notin ToSet(t)
  <2>0. t \in Seq(S) /\ y \in Seq(S) /\ last \in Seq(S)
    BY <1>5
  <2> HIDE DEF S, t, last
  <2>2. IsPrefix(t, (t \o y) \o last)
    BY <2>0, PrefixOfMore
  <2>3. "completed" \notin ToSet(t)
    BY <1>4, <1>5, SetOf
  <2> QED
    BY <1>5, <2>2, <2>3
<1>6. \A c \in {"idle", "refused", "limited"} : c \notin Under
  BY DEF Under
<1>7. CASE r.pc \in {"idle", "refused", "limited"}
  <2>1. t = <<>> /\ <<>> \in Seq(Calm) /\ <<>> \o OpenOf(r) = OpenOf(r)
    BY <1>1, <1>3, <1>7 DEF Course
  <2> QED
    BY <1>2, <1>3, <1>5, <1>7, <2>1
<1>8. CASE r.pc \in Under \union {"failed", "lost"}
  <2>1. t \in Seq(Calm) /\ \E y \in Seq(Calm) : t \o y = OpenOf(r)
    BY <1>1, <1>8, Partly DEF Course
  <2>2. r.pc \notin {"ok", "refused", "limited"}
    BY <1>8 DEF Under
  <2> QED
    BY <1>2, <1>5, <2>1, <2>2
<1>9. CASE r.pc = "ok"
  <2>1. t = OpenOf(r) \o <<"completed">> \/ t = OpenOf(r) \o last
    BY <1>1, <1>9 DEF Course
  <2>2. CASE t = OpenOf(r) \o <<"completed">>
    <3> DEFINE end == <<"correlated">>
    <3>1. t \in Seq(S) /\ end \in Seq(S) /\ t \o end = OpenOf(r) \o last
      BY <1>3, <2>2
    <3> HIDE DEF end
    <3>2. IsPrefix(t, t \o end)
      BY <3>1, PrefixOf
    <3>3. "completed" \in ToSet(t)
      BY <1>3, <2>2, SetOf
    <3> QED
      BY <1>2, <1>9, <3>1, <3>2, <3>3
  <2>3. CASE t = OpenOf(r) \o last
    <3>1. t \in Seq(S) /\ <<>> \in Seq(S) /\ t \o <<>> = t
      BY <1>3, <2>3
    <3>2. IsPrefix(t, t \o <<>>)
      BY <3>1, PrefixOf
    <3>3. "completed" \in ToSet(t)
      BY <1>3, <2>3, SetOf
    <3> QED
      BY <1>2, <1>9, <2>3, <3>1, <3>2, <3>3
  <2> QED
    BY <2>1, <2>2, <2>3
<1> QED
  BY <1>1, <1>7, <1>8, <1>9 DEF Course

LEMMA CourseMeans == RInv => AskerHearsAll /\ ToldInOrder /\ RemembersWhole
<1> SUFFICES ASSUME RInv PROVE AskerHearsAll /\ ToldInOrder /\ RemembersWhole
  OBVIOUS
<1>1. AskerHearsAll
  BY DEF RInv, Asking, AskerHearsAll
<1>2. ToldInOrder
  BY CourseTells DEF ToldInOrder
<1>3. RemembersWhole
  BY DEF RInv, CInv, Coursed, Course, SaysOf, RemembersWhole
<1> QED
  BY <1>1, <1>2, <1>3

(***************************************************************************)
(* The budget of a user                                                    *)
(***************************************************************************)

\* The counter of a user stands at what it has spent, or past its limit.
Counted ==
    /\ hits \in [Limiters -> [LimitKeys -> Nat]] /\ spent \in [Uids -> Nat]
    /\ \A u \in Uids \ {Anonymous} :
          LET n == hits["ai"][<<"uid", u>>]
          IN  spent[u] = IF n < Limit["ai"] THEN n ELSE Limit["ai"]

BInv == RInv /\ Counted

LEMMA BeginsUnspent == Init => Counted
<1> SUFFICES ASSUME Init PROVE Counted
  OBVIOUS
<1>1. hits = [l \in Limiters |-> [key \in LimitKeys |-> 0]] /\ spent = [u \in Uids |-> 0]
  BY DEF Init, NoHits
<1>2. /\ "ai" \in Limiters /\ Limit["ai"] \in Nat
      /\ \A u \in Uids : <<"uid", u>> \in LimitKeys
  BY LimitAssumption DEF Limiters, LimitKeys
<1> QED
  BY <1>1, <1>2 DEF Counted

LEMMA LimitShape ==
    /\ "ai" \in Limiters /\ "global" \in Limiters /\ Limit["ai"] \in Nat /\ Limit["global"] \in Nat
    /\ \A u \in Uids : <<"uid", u>> \in LimitKeys
    /\ \A ip \in Ips : <<"ip", ip>> \in LimitKeys
BY LimitAssumption DEF Limiters, LimitKeys

\* A hit of one counter.
LEMMA OneHit ==
    ASSUME Counted, NEW l \in Limiters, NEW key \in LimitKeys, Hit(l, key)
    PROVE  /\ hits' \in [Limiters -> [LimitKeys -> Nat]]
           /\ hits'[l][key] = IF hits[l][key] > Limit[l] THEN hits[l][key] ELSE hits[l][key] + 1
           /\ \A m \in Limiters, k \in LimitKeys : m # l \/ k # key => hits'[m][k] = hits[m][k]
<1>1. hits[l] \in [LimitKeys -> Nat] /\ hits[l][key] \in Nat /\ hits \in [Limiters -> [LimitKeys -> Nat]]
  BY DEF Counted
<1> DEFINE n == IF hits[l][key] > Limit[l] THEN hits[l][key] ELSE hits[l][key] + 1
           row == [hits[l] EXCEPT ![key] = n]
<1>2. hits' = [hits EXCEPT ![l] = row] /\ n \in Nat /\ row \in [LimitKeys -> Nat]
      /\ row[key] = n /\ \A k \in LimitKeys : k # key => row[k] = hits[l][k]
  BY <1>1 DEF Hit
<1> HIDE DEF row
<1>3. hits' \in [Limiters -> [LimitKeys -> Nat]] /\ hits'[l] = row
      /\ \A m \in Limiters : m # l => hits'[m] = hits[m]
  BY <1>1, <1>2
<1> QED
  BY <1>2, <1>3

\* The key of the AI limiter is the uid of one who is logged in, and of nobody else.
LEMMA AskerKey ==
    ASSUME IInv, NEW j \in Jobs, job[j].pc = "limit"
    PROVE  LET user == job[j].user
               key  == LimitKey(user, job[j].client.ip)
           IN  /\ user \in User /\ user.uid \in Uids /\ key \in LimitKeys
               /\ user.uid # Anonymous => key = <<"uid", user.uid>>
               /\ user.uid = Anonymous => \A u : key # <<"uid", u>>
               /\ \A u : u # user.uid => key # <<"uid", u>>
<1>1. job[j].user \in User /\ job[j].client \in Clients
  BY DEF IInv, AskedOwn
<1>2. job[j].user # None /\ job[j].user.uid \in Uids /\ job[j].client.ip \in Ips
  BY <1>1, AbsenceAssumption, ClientsAssumption DEF User
<1> QED
  BY <1>1, <1>2, LimitShape DEF LimitKey

\* A request the limiter counts and lets past is one more spent; one it
\* refuses is none.
LEMMA HitCounts ==
    ASSUME BInv, NEW j \in Jobs, job[j].pc = "limit",
           Hit("ai", LimitKey(job[j].user, job[j].client.ip)),
           spent' = IF Passes("ai", LimitKey(job[j].user, job[j].client.ip))
                      THEN [spent EXCEPT ![job[j].user.uid] = @ + 1] ELSE spent
    PROVE  /\ Counted'
           /\ job[j].user.uid # Anonymous =>
                 (Passes("ai", LimitKey(job[j].user, job[j].client.ip))
                      <=> ~ (spent[job[j].user.uid] >= Limit["ai"]))
<1> DEFINE user == job[j].user
           uid == user.uid
           key == LimitKey(user, job[j].client.ip)
           n == hits["ai"][key]
           passes == n < Limit["ai"]
<1>1. /\ user \in User /\ uid \in Uids /\ key \in LimitKeys
      /\ uid # Anonymous => key = <<"uid", uid>>
      /\ uid = Anonymous => \A u : key # <<"uid", u>>
      /\ \A u : u # uid => key # <<"uid", u>>
  BY AskerKey DEF BInv, RInv, CInv
<1>2. /\ Hit("ai", key) /\ Counted
      /\ spent' = IF passes THEN [spent EXCEPT ![uid] = @ + 1] ELSE spent
  BY DEF BInv, Passes
<1>4. /\ hits' \in [Limiters -> [LimitKeys -> Nat]] /\ n \in Nat
      /\ hits'["ai"][key] = IF n > Limit["ai"] THEN n ELSE n + 1
      /\ \A k \in LimitKeys : k # key => hits'["ai"][k] = hits["ai"][k]
  BY <1>1, <1>2, LimitShape, OneHit DEF Counted
<1>5. spent \in [Uids -> Nat] /\ spent' \in [Uids -> Nat]
  BY <1>1, <1>2 DEF Counted
<1>6. uid # Anonymous => spent[uid] = IF passes THEN n ELSE Limit["ai"]
  BY <1>1, <1>2 DEF Counted
<1>7. ASSUME NEW u \in Uids \ {Anonymous}
      PROVE  LET m == hits'["ai"][<<"uid", u>>]
             IN  spent'[u] = IF m < Limit["ai"] THEN m ELSE Limit["ai"]
  <2>1. CASE u = uid
    <3>1. /\ spent'[u] = IF passes THEN spent[u] + 1 ELSE spent[u]
          /\ hits'["ai"][<<"uid", u>>] = IF n > Limit["ai"] THEN n ELSE n + 1
      BY <1>1, <1>2, <1>4, <1>5, <2>1
    <3>2. u # Anonymous
      BY <1>7
    <3>3. n \in Nat /\ Limit["ai"] \in Nat /\ spent[u] = IF n < Limit["ai"] THEN n ELSE Limit["ai"]
      BY <1>4, <1>6, <2>1, <3>2, LimitShape
    <3> HIDE DEF n
    <3> QED
      BY <3>1, <3>3
  <2>2. CASE u # uid
    <3>1. spent'[u] = spent[u] /\ hits'["ai"][<<"uid", u>>] = hits["ai"][<<"uid", u>>]
      BY <1>1, <1>2, <1>4, <1>5, <2>2, LimitShape
    <3> QED
      BY <1>2, <3>1 DEF Counted
  <2> QED
    BY <2>1, <2>2
<1>8. Counted'
  BY <1>4, <1>5, <1>7 DEF Counted
<1>9. Passes("ai", key) <=> passes
  BY DEF Passes
<1> HIDE DEF n
<1>10. uid # Anonymous => (passes <=> ~ (spent[uid] >= Limit["ai"]))
  BY <1>4, <1>6, LimitShape
<1> QED
  BY <1>8, <1>9, <1>10

LEMMA AdmitCounts ==
    ASSUME BInv, NEW j \in Jobs, Admit(j)
    PROVE  /\ Counted'
           /\ job[j].user.uid # Anonymous =>
                 (job'[j].pc = "limited" <=> spent[job[j].user.uid] >= Limit["ai"])
<1> DEFINE key == LimitKey(job[j].user, job[j].client.ip)
           passes == Passes("ai", key)
<1>1. /\ job[j].pc = "limit" /\ Hit("ai", key)
      /\ spent' = IF passes THEN [spent EXCEPT ![job[j].user.uid] = @ + 1] ELSE spent
  BY DEF Admit
<1>2. Counted' /\ (job[j].user.uid # Anonymous => (passes <=> ~ (spent[job[j].user.uid] >= Limit["ai"])))
  BY <1>1, HitCounts
<1>3. job'[j].pc = "limited" <=> ~passes
  <2>1. \/ passes /\ job' = [job EXCEPT ![j].pc = "reads"]
        \/ job' = [job EXCEPT ![j].pc = IF passes THEN "refused" ELSE "limited"]
    BY DEF Admit
  <2>2. job[j] = Fields(job[j]) /\ job = [i \in Jobs |-> job[i]]
    BY JobShape DEF BInv, RInv, CInv, IInv, Shapes
  <2> HIDE DEF passes
  <2>3. ASSUME NEW pc, job' = [job EXCEPT ![j].pc = pc] PROVE job'[j].pc = pc
    <3> DEFINE r == [job[j] EXCEPT !.pc = pc]
    <3>1. job'[j] = r
      BY <2>2, <2>3
    <3>2. r.pc = pc
      BY <2>2 DEF Fields
    <3> QED
      BY <3>1, <3>2
  <2>4. CASE passes /\ job' = [job EXCEPT ![j].pc = "reads"]
    BY <2>3, <2>4
  <2>5. CASE job' = [job EXCEPT ![j].pc = IF passes THEN "refused" ELSE "limited"]
    BY <2>3, <2>5
  <2> QED
    BY <2>1, <2>4, <2>5
<1> HIDE DEF passes
<1> QED
  BY <1>2, <1>3

\* A store that fails has counted, or has not.
LEMMA AdmitFailsCounts ==
    ASSUME BInv, NEW j \in Jobs, AdmitFails(j) PROVE Counted'
<1> DEFINE key == LimitKey(job[j].user, job[j].client.ip)
           passes == Passes("ai", key)
<1>1. /\ job[j].pc = "limit"
      /\ Hit("ai", key) \/ hits' = hits
      /\ spent' = IF passes /\ hits' # hits THEN [spent EXCEPT ![job[j].user.uid] = @ + 1] ELSE spent
  BY DEF AdmitFails, StoreFails
<1> HIDE DEF key, passes
<1>2. CASE hits' = hits
  BY <1>1, <1>2 DEF BInv, Counted
<1>3. CASE hits' # hits
  <2>1. Hit("ai", key) /\ spent' = IF passes THEN [spent EXCEPT ![job[j].user.uid] = @ + 1] ELSE spent
    BY <1>1, <1>3
  <2> QED
    BY <1>1, <2>1, HitCounts DEF key, passes
<1> QED
  BY <1>2, <1>3

\* At the end of its window a user starts anew, and nobody else does.
LEMMA ExpireCounts ==
    ASSUME Counted, NEW l \in Limiters, NEW key \in LimitKeys, Expire(l, key) PROVE Counted'
<1>1. /\ hits[l] \in [LimitKeys -> Nat] /\ hits \in [Limiters -> [LimitKeys -> Nat]]
      /\ spent \in [Uids -> Nat]
      /\ hits' = [hits EXCEPT ![l] = [hits[l] EXCEPT ![key] = 0]]
      /\ spent' = IF l = "ai" /\ key[1] = "uid" THEN [spent EXCEPT ![key[2]] = 0] ELSE spent
  BY DEF Counted, Expire, WindowEnds
<1>2. /\ key[1] = "uid" => key[2] \in Uids /\ key = <<"uid", key[2]>>
      /\ \A u : key = <<"uid", u>> => key[1] = "uid" /\ key[2] = u
  BY DEF LimitKeys
<1>3. hits' \in [Limiters -> [LimitKeys -> Nat]] /\ spent' \in [Uids -> Nat]
  BY <1>1, <1>2
<1>4. ASSUME NEW u \in Uids \ {Anonymous}
      PROVE  LET n == hits'["ai"][<<"uid", u>>]
             IN  spent'[u] = IF n < Limit["ai"] THEN n ELSE Limit["ai"]
  <2>1. spent[u] = IF hits["ai"][<<"uid", u>>] < Limit["ai"] THEN hits["ai"][<<"uid", u>>] ELSE Limit["ai"]
    BY DEF Counted
  <2>2. CASE l = "ai" /\ key = <<"uid", u>>
    <3>1. spent'[u] = 0 /\ hits'["ai"][<<"uid", u>>] = 0
      BY <1>1, <1>2, <2>2, LimitShape
    <3> QED
      BY <3>1, LimitShape
  <2>3. CASE ~(l = "ai" /\ key = <<"uid", u>>)
    <3>1. spent'[u] = spent[u]
      BY <1>1, <1>2, <2>3
    <3>2. hits'["ai"][<<"uid", u>>] = hits["ai"][<<"uid", u>>]
      BY <1>1, <2>3, LimitShape
    <3> QED
      BY <2>1, <3>1, <3>2
  <2> QED
    BY <2>2, <2>3
<1> QED
  BY <1>3, <1>4 DEF Counted

\* The global limiter leaves the counters of the other alone.
LEMMA RequestCounts ==
    ASSUME Counted, NEW j, NEW c \in Clients, NEW s, Request(j, c, s) PROVE Counted'
<1> DEFINE key == LimitKey(None, c.ip)
<1>1. key \in LimitKeys
  BY ClientsAssumption, LimitShape DEF LimitKey
<1>2. Hit("global", key) \/ hits' = hits
  BY DEF Request, StoreFails
<1> HIDE DEF key
<1>3. /\ hits' \in [Limiters -> [LimitKeys -> Nat]]
      /\ \A k \in LimitKeys : hits'["ai"][k] = hits["ai"][k]
  <2>1. CASE Hit("global", key)
    BY <1>1, <2>1, LimitShape, OneHit
  <2>2. CASE hits' = hits
    BY <2>2 DEF Counted
  <2> QED
    BY <1>2, <2>1, <2>2
<1>4. spent' = spent
  BY DEF Request
<1> QED
  BY <1>3, <1>4, LimitShape DEF Counted

\* Only the AI limiter counts its requests, and only its verdict, an error of
\* its store or the end of the process takes an analysis from there.
LEMMA OnlyAdmits ==
    ASSUME BInv, [Next]_vars,
           \A j \in Jobs : ~Admit(j)
    PROVE  /\ Counted'
           /\ \A j \in Jobs : job[j].pc = "limit" => job'[j].pc \in {"limit", "lost", "failed"}
<1> DEFINE Stays == \A j \in Jobs :
               job[j].pc = "limit" => job'[j].pc \in {"limit", "lost", "failed"}
           Same == hits' = hits /\ spent' = spent
<1>0. CInv /\ Counted /\ job = [j \in Jobs |-> job[j]]
  BY DEF BInv, RInv, CInv, IInv, Shapes
<1>1. Same => Counted'
  BY <1>0 DEF Counted
<1>2. job' = job => Stays
  OBVIOUS
<1>3. ASSUME NEW k \in Sockets, Arrive(k) \/ Leave(k) \/ (\E s \in setting.asked : Subscribe(k, s))
      PROVE  Counted' /\ Stays
  <2>1. Same /\ job' = job
    BY <1>3 DEF Arrive, Connect, Verified, Audited, Leave, Subscribe
  <2> QED
    BY <1>1, <1>2, <2>1
<1>4. ASSUME NEW i \in Jobs, Question(i) PROVE Counted' /\ Stays
  <2>1. job[i].pc = "idle" /\ \E r : job' = [job EXCEPT ![i] = r]
    BY <1>4 DEF Question, Stream, Request, Asked, NextOf
  <2>2. Stays
    BY <1>0, <2>1
  <2>3. ASSUME NEW k \in Sockets, NEW s, Stream(k, i, s) PROVE Same
    BY <2>3 DEF Stream
  <2> QED
    BY <1>0, <1>1, <1>4, <2>2, <2>3, RequestCounts DEF Question
<1>5. ASSUME NEW i \in Jobs, Step(i) PROVE Counted' /\ Stays
  <2>0. Others(i)
    BY <1>0, <1>5, StepIsForm DEF Stepped
  <2>1. CASE AdmitFails(i)
    <3> DEFINE r == [job[i] EXCEPT !.pc = "failed"]
    <3>1. job'[i] = r /\ job[i] = Fields(job[i])
      BY <1>0, <2>1, JobShape DEF AdmitFails, CInv
    <3>2. job'[i].pc = "failed"
      BY <3>1 DEF Fields
    <3>3. Stays
      BY <2>0, <3>2 DEF Others
    <3> QED
      BY <2>1, <3>3, AdmitFailsCounts
  <2>2. CASE ~AdmitFails(i)
    <3>1. Same
      BY <1>5, <2>2 DEF Step, Authenticate, ReadsBack, Accepted, Answered, Fails, Read, Piece,
                        LastPiece, Finish, Correlated
    <3>2. job[i].pc # "limit"
      <4>1. job[i].task => job[i].pc = "ok"
        BY <1>0 DEF CInv, Coursed, Course
      <4> QED
        BY <1>5, <2>2, <4>1 DEF Step, Authenticate, ReadsBack, Accepted, Answered, Fails, Read,
                                Piece, LastPiece, Finish, Correlated
    <3>3. Stays
      BY <2>0, <3>2 DEF Others
    <3> QED
      BY <1>1, <3>1, <3>3
  <2> QED
    BY <2>1, <2>2
<1>6. ASSUME NEW l \in Limiters, NEW key \in LimitKeys, Expire(l, key) PROVE Counted' /\ Stays
  BY <1>0, <1>2, <1>6, ExpireCounts DEF Expire
<1>7. ASSUME Restart \/ Exit0 \/ Exit1 PROVE Counted' /\ Stays
  <2>1. Cut /\ (Same \/ (hits' = NoHits /\ spent' = [u \in Uids |-> 0]))
    BY <1>7 DEF Restart, Exit0, Exit1
  <2>2. ASSUME NEW j \in Jobs, job[j].pc = "limit" PROVE job'[j].pc = "lost"
    <3> DEFINE r == [job[j] EXCEPT !.pc = IF @ \in Under THEN "lost" ELSE @, !.task = FALSE]
    <3>1. job'[j] = r /\ job[j] = Fields(job[j]) /\ "limit" \in Under
      BY <1>0, <2>1, JobShape DEF Cut, CInv, Under
    <3>2. r.pc = "lost"
      BY <2>2, <3>1 DEF Fields
    <3> QED
      BY <3>1, <3>2
  <2>3. ASSUME hits' = NoHits, spent' = [u \in Uids |-> 0] PROVE Counted'
    BY <2>3, LimitShape DEF Counted, NoHits
  <2> QED
    BY <1>1, <2>1, <2>2, <2>3
<1>8. ASSUME Shutdown \/ UNCHANGED vars PROVE Counted' /\ Stays
  BY <1>1, <1>2, <1>8 DEF Shutdown, vars
<1> QED
  BY <1>3, <1>4, <1>5, <1>6, <1>7, <1>8 DEF Next

LEMMA CountIsKept == BInv /\ [Next]_vars => BInv'
<1> SUFFICES ASSUME BInv, [Next]_vars PROVE BInv'
  OBVIOUS
<1>1. RInv'
  BY CourseIsKept DEF BInv
<1>2. Counted'
  BY AdmitCounts, OnlyAdmits
<1> QED
  BY <1>1, <1>2 DEF BInv

LEMMA BudgetStep ==
    ASSUME BInv, [Next]_vars
    PROVE  \A j \in Jobs :
               job[j].pc = "limit" /\ job'[j].pc \notin {"limit", "lost", "failed"}
                   /\ job[j].user.uid # Anonymous =>
                       (job'[j].pc = "limited" <=> spent[job[j].user.uid] >= Limit["ai"])
<1> SUFFICES ASSUME NEW j \in Jobs, job[j].pc = "limit",
                    job'[j].pc \notin {"limit", "lost", "failed"}
             PROVE  Admit(j)
  BY AdmitCounts
<1>1. PICK i \in Jobs : Admit(i)
  BY OnlyAdmits
<1>2. Others(i)
  BY <1>1, AdmitForm DEF BInv, RInv, Stepped
<1>3. i = j
  BY <1>2 DEF Others
<1> QED
  BY <1>1, <1>3

(***************************************************************************)
(* The theorems                                                            *)
(***************************************************************************)

LEMMA CourseAlways == Spec => []RInv
<1> QED
  BY BeginsIdle, CourseIsKept, PTL DEF Spec

\* For any sockets, rooms and analyses, whatever else is streamed in the room
\* and whatever fails: a connected client has heard all that was published of
\* the stream it asked for (the gateway joins the room before runStream).
THEOREM AskersHearAll == Spec => []AskerHearsAll
<1>1. RInv => AskerHearsAll
  BY CourseMeans
<1> HIDE DEF RInv, AskerHearsAll
<1> QED
  BY <1>1, CourseAlways, PTL

\* For any bodies, however long and however their reads are cut: the events of
\* an analysis are a beginning of its story, and say that it is completed
\* exactly when it is (runStream and the line readers of the providers).
THEOREM StoriesAreTold == Spec => []ToldInOrder
<1>1. RInv => ToldInOrder
  BY CourseMeans
<1> HIDE DEF RInv, ToldInOrder
<1> QED
  BY <1>1, CourseAlways, PTL

\* For any bodies and cuts: the text handed to the memory after a stream is
\* the whole answer (the accumulation in runStream).
THEOREM AnswersAreRemembered == Spec => []RemembersWhole
<1>1. RInv => RemembersWhole
  BY CourseMeans
<1> HIDE DEF RInv, RemembersWhole
<1> QED
  BY <1>1, CourseAlways, PTL

\* For any limits, users, addresses and windows, with any restarts and any
\* errors of the store: a client that is logged in and gets a verdict of
\* aiRateLimit is refused exactly when it has spent its own limit in its window.
THEOREM BudgetsAreExact == Spec => BudgetExact
<1>1. Init => BInv
  BY BeginsIdle, BeginsUnspent DEF BInv
<1>2. BInv /\ [Next]_vars =>
          [\A j \in Jobs :
              job[j].pc = "limit" /\ job'[j].pc \notin {"limit", "lost", "failed"}
                  /\ job[j].user.uid # Anonymous =>
                      (job'[j].pc = "limited" <=> spent[job[j].user.uid] >= Limit["ai"])]_vars
  BY BudgetStep
<1> HIDE DEF BInv
<1> QED
  BY <1>1, <1>2, CountIsKept, PTL DEF Spec, BudgetExact

=============================================================================
