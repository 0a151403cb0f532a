---------------------------- MODULE Correlation ----------------------------
(***************************************************************************)
(* The computation of correlateActionUseCase between the answer of the     *)
(* embedder and the event: direct matches, propagation to the parents with *)
(* a discount, merge, ranking.  It runs without an await, one iteration of *)
(* the inner loop per step here.                                           *)
(*                                                                         *)
(* The cosine of the action with each goal is an input.  A score is its    *)
(* place among the numbers from 0 to 1, 0..Top: the code compares scores,  *)
(* and takes discounts of them, which keeps their order however it rounds. *)
(***************************************************************************)
EXTENDS Integers, FiniteSets, SequencesExt

CONSTANTS
    Listed,     \* the active goals with a vector, in the order list() returns them
    Absent,     \* a parent that was not listed: paused, without vector, deleted
    Top,        \* the place of a cosine of 1
    Scores,     \* the cosines
    Discount,   \* discount * score, for each score
    Weights,
    MinScores,
    TopK,
    None        \* null

Goals == ToSet(Listed)

\* list() has each goal once (goalId is unique); without goals there is no computation.
ASSUME ListedAssumption == Listed \in Seq(Goals) /\ IsInjective(Listed) /\ Goals # {}
ASSUME ScoreAssumption ==
    Top \in Nat /\ Scores \subseteq 0..Top /\ MinScores \subseteq Nat /\ Weights \subseteq Nat
\* Multiplication by a factor that is not negative keeps the order, rounded or not.
ASSUME DiscountAssumption ==
    /\ Discount \in [0..Top -> 0..Top]
    /\ \A s, t \in 0..Top : s <= t => Discount[s] <= Discount[t]
ASSUME TopKAssumption == TopK \in Nat \ {0}

VARIABLES
    goal,        \* goal[g]: parent, weight, and cosine with the action
    minScore,
    direct,      \* the direct matches, in order
    i,           \* how many of them have been propagated
    cur, score, depth,  \* the inner loop: the goal reached, propScore, levels climbed
    propagated,  \* a Map, as the sequence of its entries
    matches,     \* the answer, before the sign
    pc

vars == <<goal, minScore, direct, i, cur, score, depth, propagated, matches, pc>>

Match == [goal : Goals, score : 0..Top]

\* Types.
TypeOK ==
    /\ goal \in [Goals -> [parent : Goals \union {Absent, None}, weight : Nat, cosine : 0..Top]]
    /\ direct \in Seq(Match) /\ propagated \in Seq(Match) /\ matches \in Seq(Match)
    /\ i \in 0..Len(direct)
    /\ cur \in Goals \union {None} /\ score \in 0..Top /\ depth \in Nat
    /\ pc \in {"next", "climb", "done"}

----------------------------------------------------------------------------
\* A Map with its order of insertion.

Has(map, g) == \E k \in DOMAIN map : map[k].goal = g
Index(map, g) == CHOOSE k \in DOMAIN map : map[k].goal = g

\* A slip: the last propagation wins.
PutLast(map, m) ==
    IF ~Has(map, m.goal) THEN Append(map, m) ELSE [map EXCEPT ![Index(map, m.goal)] = m]

\* Keep the greater score, in the place the key was first put.
PutMax(map, m) ==
    IF ~Has(map, m.goal) THEN Append(map, m)
    ELSE IF map[Index(map, m.goal)].score < m.score
           THEN [map EXCEPT ![Index(map, m.goal)] = m]
           ELSE map

----------------------------------------------------------------------------
\* Slips in the code below that the runs must notice.

\* Ranked by the bare score.
ScoreOnly(m) == m.score

----------------------------------------------------------------------------

\* const score = cosine(...); if (score < minScore) continue.
DirectMatches ==
    FoldLeft(LAMBDA found, g : IF goal[g].cosine < minScore THEN found
                               ELSE Append(found, [goal |-> g, score |-> goal[g].cosine]),
             <<>>, Listed)

\* Parents were created before their children, and parentId never changes.
Acyclic(parent) ==
    \E rank \in [Goals -> 1..Cardinality(Goals)] :
        \A g \in Goals : parent[g] \in Goals => rank[parent[g]] < rank[g]

Init ==
    /\ goal \in [Goals -> [parent : Goals \union {Absent, None},
                           weight : Weights, cosine : Scores]]
    /\ Acyclic([g \in Goals |-> goal[g].parent])
    /\ minScore \in MinScores
    /\ direct = DirectMatches
    /\ i = 0 /\ cur = None /\ score = 0 /\ depth = 1
    /\ propagated = <<>> /\ matches = <<>>
    /\ pc = "next"

\* for (const m of direct)
NextMatch ==
    /\ pc = "next" /\ i < Len(direct)
    /\ i' = i + 1
    /\ cur' = direct[i + 1].goal
    /\ score' = direct[i + 1].score
    /\ depth' = 1
    /\ pc' = "climb"
    /\ UNCHANGED <<goal, minScore, direct, propagated, matches>>

\* while (cur?.parentId): one level up, unless the score falls below the threshold
\* or the parent was not listed.
Climbs ==
    /\ goal[cur].parent \in Goals
    /\ Discount[score] >= minScore

\* A slip: cur = parent forgotten at the end of the loop.
StayBelow ==
    /\ pc = "climb" /\ Climbs
    /\ score' = Discount[score]
    /\ propagated' = PutMax(propagated, [goal |-> goal[cur].parent, score |-> score'])
    /\ depth' = depth + 1
    /\ UNCHANGED <<goal, minScore, direct, i, cur, matches, pc>>

Climb ==
    /\ pc = "climb" /\ Climbs
    /\ score' = Discount[score]
    /\ cur' = goal[cur].parent
    /\ propagated' = PutMax(propagated, [goal |-> cur', score |-> score'])
    /\ depth' = depth + 1
    /\ UNCHANGED <<goal, minScore, direct, i, matches, pc>>

Stop ==
    /\ pc = "climb" /\ ~Climbs
    /\ pc' = "next"
    /\ UNCHANGED <<goal, minScore, direct, i, cur, score, depth, propagated, matches>>

\* merged: the propagated entries first, then the direct ones.
Merged == FoldLeft(PutMax, <<>>, propagated \o direct)

Effective(m) == m.score * goal[m.goal].weight

\* Array.prototype.sort is stable.
Insert(sorted, m) ==
    LET after == {k \in DOMAIN sorted : Effective(sorted[k]) < Effective(m)}
        place == IF after = {} THEN Len(sorted) + 1
                 ELSE CHOOSE k \in after : \A j \in after : k <= j
    IN InsertAt(sorted, place, m)

Ranked(map) == FoldLeft(Insert, <<>>, map)

Slice(seq, n) == SubSeq(seq, 1, IF Len(seq) < n THEN Len(seq) ELSE n)

Rank ==
    /\ pc = "next" /\ i = Len(direct)
    /\ matches' = Slice(Ranked(Merged), TopK)
    /\ pc' = "done"
    /\ UNCHANGED <<goal, minScore, direct, i, cur, score, depth, propagated>>

Next == NextMatch \/ Climb \/ Stop \/ Rank

Spec == Init /\ [][Next]_vars

----------------------------------------------------------------------------
(***************************************************************************)
(* What the answer should be, by recursion on the tree instead of loops:   *)
(* a goal is worth its own cosine or the discounted worth of a goal under  *)
(* it, whichever is greater; -1 when neither reaches the threshold.        *)
(***************************************************************************)

Worth[g \in Goals] ==
    LET below    == {c \in Goals : goal[c].parent = g /\ Worth[c] >= 0}
        reaching == {goal[g].cosine} \union {Discount[Worth[c]] : c \in below}
    IN Max({s \in reaching : s >= minScore} \union {-1})

----------------------------------------------------------------------------
(***************************************************************************)
(* Properties.                                                             *)
(***************************************************************************)

\* Every match carries the best score that reaches its goal, directly or from a
\* goal below it, and none is under the threshold.
WorthTrue ==
    pc = "done" => \A k \in DOMAIN matches :
        /\ matches[k].score >= minScore
        /\ matches[k].score = Worth[matches[k].goal]

\* The answer is a ranking: no goal twice, the effective scores fall, and no goal
\* left out is worth more than one that is in.
RankingTrue ==
    pc = "done" =>
        LET inside  == {matches[k].goal : k \in DOMAIN matches}
            outside == {g \in Goals \ inside : Worth[g] >= 0}
            Value(k) == matches[k].score * goal[matches[k].goal].weight
        IN
        /\ Cardinality(inside) = Len(matches)
        /\ \A j, k \in DOMAIN matches : j < k => Value(j) >= Value(k)
        /\ outside # {} => Len(matches) = TopK
        /\ \A g \in outside, k \in DOMAIN matches :
              Worth[g] * goal[g].weight <= Value(k)

\* The walk up the parents ends, for every tree and every threshold, zero included:
\* the loop runs without an await, so one that did not would hang the server.
WalkEnds == depth <= Cardinality(Goals)

\* A direct match wins over what is propagated to the same goal.
DirectWins ==
    pc = "done" => \A k \in DOMAIN matches :
        goal[matches[k].goal].cosine >= minScore =>
            matches[k].score = goal[matches[k].goal].cosine

=============================================================================
