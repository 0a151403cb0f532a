-------------------------- MODULE QuestLoop_proofs --------------------------
(***************************************************************************)
(* Theorems about Resolver, for any users, goals, requests and quests, and *)
(* whatever may happen; and about QuestLoop: the composition runs both of  *)
(* its parts, and what the resolver learns from a quest is how the quest   *)
(* ended.                                                                  *)
(***************************************************************************)
EXTENDS QuestLoop, TLAPS

\* Request r created goal g for user u.
Created(r, g, u) == proc[r].op = "create" /\ proc[r].goal = g /\ proc[r].uid = u

\* A task that has not begun holds nothing; only a correlation lists and scores.
ProcShape ==
    \A p \in Procs :
        /\ proc[p].pc = "idle" => proc[p] = Idle
        /\ proc[p].pc \in {"list", "score"} => proc[p].op = "correlate" /\ proc[p].uid \in Users
        /\ proc[p].op = "create" => proc[p].goal \in Goals
        /\ proc[p].op = "create" /\ proc[p].pc # "done" => proc[p].where \in Repositories

\* Whatever is stored, or listed, was created for its user.
GoalsOwn ==
    \A b \in Repositories, g \in Goals :
        Stored(b, g) => \E r \in Reqs : Created(r, g, goals[b][g].uid)
SeenOwn ==
    \A p \in Procs : \A g \in proc[p].seen : \E r \in Reqs : Created(r, g, proc[p].uid)

\* While Mongo stays reachable a Connection has its flag, and every goal is in Mongo.
NoOutage ==
    "blip" \notin faults =>
        /\ up /\ (conn => available)
        /\ \A g \in Goals : ~Stored("memory", g)
        /\ \A r \in Reqs : proc[r].op = "create" => proc[r].where = "mongo"

TypeInv == TypeOK /\ ProcShape

(***************************************************************************)
(* Types                                                                   *)
(***************************************************************************)

\* The repository a call uses.
LEMMA PickedOne == Picked \in Repositories
BY DEF Picked, Repositories

LEMMA LinkTypes ==
    ASSUME LinkTypeOK, GetMongo \/ Blip \/ CloseMongo PROVE LinkTypeOK'
BY DEF LinkTypeOK, GetMongo, Blip, ServerDown, ServerUp, Disconnected, CloseMongo

\* What is stored has a user.
LEMMA StoredType ==
    ASSUME TypeOK, NEW b \in Repositories, NEW g \in Goals, Stored(b, g)
    PROVE  goals[b][g].uid \in Users
<1>1. goals[b][g] \in Goal
  BY DEF TypeOK
<1>2. PICK u \in Users \union {None}, e \in BOOLEAN : goals[b][g] = [uid |-> u, embedded |-> e]
  BY <1>1 DEF Goal
<1>3. e => u \in Users
  BY <1>2 DEF TypeOK
<1>4. u = None => e
  BY <1>2 DEF Stored, NoGoal
<1> QED
  BY <1>2, <1>3, <1>4

\* The repositories after a step, goal by goal.
GoalMoves(b, g) ==
    \/ goals'[b][g] = NoGoal
    \/ goals'[b][g] = goals[b][g]
    \/ /\ Stored(b, g)
       /\ goals'[b][g] = [goals[b][g] EXCEPT !.embedded = TRUE]
    \/ /\ Fresh(g) /\ Pick /\ b = Picked
       /\ \E r \in Reqs, u \in Users :
             /\ goals'[b][g] = [uid |-> u, embedded |-> FALSE]
             /\ proc[r].pc = "idle"
             /\ proc'[r].op = "create" /\ proc'[r].goal = g /\ proc'[r].uid = u

LEMMA GoalsMove ==
    ASSUME TypeOK, [Next]_resolverVars
    PROVE  /\ DOMAIN goals' = Repositories
           /\ \A b \in Repositories : DOMAIN goals'[b] = Goals
           /\ goals' = [b \in Repositories |-> [g \in Goals |-> goals'[b][g]]]
           /\ \A b \in Repositories, g \in Goals : GoalMoves(b, g)
<1> DEFINE Shape(f) == /\ DOMAIN f = Repositories
                       /\ \A b \in Repositories : DOMAIN f[b] = Goals
                       /\ f = [b \in Repositories |-> [g \in Goals |-> f[b][g]]]
<1>0. Shape(goals) /\ Picked \in Repositories /\ "memory" \in Repositories
  BY PickedOne DEF TypeOK, Repositories
<1>1. ASSUME UNCHANGED goals PROVE Shape(goals') /\ \A b \in Repositories, g \in Goals : GoalMoves(b, g)
  BY <1>0, <1>1 DEF GoalMoves
<1>2. ASSUME NEW r \in Reqs, NEW u \in Users, CreateGoal(r, u)
      PROVE Shape(goals') /\ \A b \in Repositories, g \in Goals : GoalMoves(b, g)
  <2>1. PICK x \in Goals :
           /\ Fresh(x)
           /\ goals' = [goals EXCEPT ![Picked][x] = [uid |-> u, embedded |-> FALSE]]
           /\ proc' = [proc EXCEPT ![r] =
                  [Idle EXCEPT !.pc = "embed", !.op = "create", !.uid = u, !.goal = x,
                               !.where = Picked]]
           /\ proc[r].pc = "idle" /\ Pick
    BY <1>2 DEF CreateGoal
  <2>2. proc'[r].op = "create" /\ proc'[r].goal = x /\ proc'[r].uid = u
    BY <2>1 DEF TypeOK, Procs, Idle
  <2> QED
    BY <1>0, <2>1, <2>2 DEF GoalMoves
<1>3. ASSUME NEW r \in Reqs, NEW u \in Users, PurgeUser(r, u)
      PROVE Shape(goals') /\ \A b \in Repositories, g \in Goals : GoalMoves(b, g)
  BY <1>0, <1>3 DEF PurgeUser, Without, GoalMoves
<1>4. ASSUME NEW r \in Reqs, NEW g \in Goals, DeleteGoal(r, g)
      PROVE Shape(goals') /\ \A b \in Repositories, h \in Goals : GoalMoves(b, h)
  BY <1>0, <1>4 DEF DeleteGoal, GoalMoves
<1>5. ASSUME NEW p \in Procs, SetEmbedding(p)
      PROVE Shape(goals') /\ \A b \in Repositories, g \in Goals : GoalMoves(b, g)
  <2>1. PICK x \in Goals : x = proc[p].goal
    BY <1>5 DEF TypeOK, SetEmbedding
  <2>2. goals' = IF Stored(Picked, x) THEN [goals EXCEPT ![Picked][x].embedded = TRUE] ELSE goals
    BY <1>5, <2>1 DEF SetEmbedding, WithEmbedding
  <2> QED
    BY <1>0, <2>2 DEF GoalMoves
<1>6. ASSUME Crash PROVE Shape(goals') /\ \A b \in Repositories, g \in Goals : GoalMoves(b, g)
  BY <1>0, <1>6 DEF Crash, GoalMoves
<1>7. ASSUME NEW r \in Reqs, Begin(r) PROVE Shape(goals') /\ \A b \in Repositories, g \in Goals : GoalMoves(b, g)
  BY <1>1, <1>2, <1>3, <1>4, <1>7 DEF Begin, Correlate, Lists, Reembed
<1>8. ASSUME NEW p \in Procs, Step(p) \/ Fail(p)
      PROVE Shape(goals') /\ \A b \in Repositories, g \in Goals : GoalMoves(b, g)
  BY <1>1, <1>5, <1>8 DEF Step, Fail, Embedded, Publish, List, Lists
<1>9. ASSUME NEW t \in Tasks, NEW q \in Quests, NEW name, Signal(t, q, name)
      PROVE Shape(goals') /\ \A b \in Repositories, g \in Goals : GoalMoves(b, g)
  BY <1>1, <1>9 DEF Signal
<1> QED
  BY <1>1, <1>6, <1>7, <1>8, <1>9
  DEF Next, ResolverNext, PingMongo, Environment, resolverVars

\* What a request holds when it has begun.
Started(t) ==
    /\ t \in Proc
    /\ t.pc \in {"embed", "score", "done", "refused"}
    /\ t.pc = "embed" => t.goal \in Goals
    /\ t.pc = "score" => t.op = "correlate" /\ t.uid \in Users
    /\ t.op = "create" => t.pc = "embed" /\ t.where = Picked
    /\ \A g \in t.seen : Stored(Picked, g) /\ goals[Picked][g].uid = t.uid

LEMMA BeginStarts ==
    ASSUME NEW r \in Reqs, Begin(r)
    PROVE  proc[r].pc = "idle" /\ \E t : Started(t) /\ proc' = [proc EXCEPT ![r] = t]
<1>1. ASSUME NEW u \in Users, CreateGoal(r, u)
      PROVE  \E t : Started(t) /\ proc' = [proc EXCEPT ![r] = t]
  <2>1. PICK g \in Goals :
           proc' = [proc EXCEPT ![r] =
               [Idle EXCEPT !.pc = "embed", !.op = "create", !.uid = u, !.goal = g,
                            !.where = Picked]]
    BY <1>1 DEF CreateGoal
  <2> DEFINE t == [Idle EXCEPT !.pc = "embed", !.op = "create", !.uid = u, !.goal = g,
                               !.where = Picked]
  <2>2. Started(t)
    BY PickedOne DEF Started, Idle, Proc
  <2> QED
    BY <2>1, <2>2
<1>2. ASSUME NEW u \in Users, PurgeUser(r, u)
      PROVE  \E t : Started(t) /\ proc' = [proc EXCEPT ![r] = t]
  <2> DEFINE t == [Idle EXCEPT !.pc = "done", !.op = "purge", !.uid = u]
  <2>1. Started(t)
    BY DEF Started, Idle, Proc
  <2> QED
    BY <1>2, <2>1 DEF PurgeUser
<1>3. ASSUME NEW u \in Users, Correlate(r, u)
      PROVE  \E t : Started(t) /\ proc' = [proc EXCEPT ![r] = t]
  <2> DEFINE t == [Idle EXCEPT !.pc = IF Listed(Picked, u) = {} THEN "done" ELSE "score",
                               !.op = "correlate", !.uid = u, !.quest = None,
                               !.seen = Listed(Picked, u), !.sign = "positive"]
  <2>1. Started(t)
    BY DEF Started, Idle, Proc, Listed
  <2> QED
    BY <1>3, <2>1 DEF Correlate, Lists
<1>4. ASSUME NEW g \in Goals, Reembed(r, g)
      PROVE  \E t : Started(t) /\ proc' = [proc EXCEPT ![r] = t]
  <2> DEFINE t == [Idle EXCEPT !.pc = IF Stored(Picked, g) THEN "embed" ELSE "refused",
                               !.op = "reembed", !.goal = g]
  <2>1. Started(t)
    BY DEF Started, Idle, Proc
  <2> QED
    BY <1>4, <2>1 DEF Reembed
<1>5. ASSUME NEW g \in Goals, DeleteGoal(r, g)
      PROVE  \E t : Started(t) /\ proc' = [proc EXCEPT ![r] = t]
  <2> DEFINE t == [Idle EXCEPT !.pc = IF Stored(Picked, g) THEN "done" ELSE "refused",
                               !.op = "delete", !.goal = g]
  <2>1. Started(t)
    BY DEF Started, Idle, Proc
  <2> QED
    BY <1>5, <2>1 DEF DeleteGoal
<1> QED
  BY <1>1, <1>2, <1>3, <1>4, <1>5
  DEF Begin, CreateGoal, PurgeUser, Correlate, Reembed, DeleteGoal

\* What a task of the bridge holds when it has begun.
SignalHolds(t, q, name) ==
    /\ t \in Proc /\ t.pc = "list" /\ t.op = "correlate" /\ t.uid = Owner[q] /\ t.quest = q
    /\ t.sign = Polarity(name) /\ t.seen = {}

LEMMA SignalStarts ==
    ASSUME NEW s, NEW q \in Quests, NEW name, Signal(s, q, name)
    PROVE  \E t : SignalHolds(t, q, name) /\ proc' = [proc EXCEPT ![s] = t]
<1> DEFINE t == [Idle EXCEPT !.pc = "list", !.op = "correlate", !.uid = Owner[q], !.quest = q,
                             !.sign = Polarity(name)]
<1>1. SignalHolds(t, q, name)
  BY OwnerAssumption DEF SignalHolds, Idle, Proc, Polarity
<1>2. proc' = [proc EXCEPT ![s] = t]
  BY DEF Signal
<1> QED
  BY <1>1, <1>2

\* What the bridge's task holds when it has listed the goals.
LEMMA ListGoesOn ==
    ASSUME TypeOK, NEW q \in Tasks, List(q)
    PROVE  \E t : /\ proc' = [proc EXCEPT ![q] = t]
                  /\ t \in Proc /\ t.pc \in {"done", "score"} /\ t.op = "correlate"
                  /\ t.uid = proc[q].uid /\ t.sign = proc[q].sign /\ t.quest = proc[q].quest
                  /\ \A g \in t.seen : Stored(Picked, g) /\ goals[Picked][g].uid = t.uid
<1> DEFINE u == proc[q].uid
           t == [Idle EXCEPT !.pc = IF Listed(Picked, u) = {} THEN "done" ELSE "score",
                             !.op = "correlate", !.uid = u, !.quest = proc[q].quest,
                             !.seen = Listed(Picked, u), !.sign = proc[q].sign]
<1>1. proc[q] \in Proc
  BY DEF TypeOK, Procs
<1>2. t \in Proc /\ t.pc \in {"done", "score"} /\ t.op = "correlate" /\ t.uid = u /\ t.sign = proc[q].sign
      /\ t.quest = proc[q].quest
  BY <1>1 DEF Idle, Proc, Listed
<1>3. \A g \in t.seen : Stored(Picked, g) /\ goals[Picked][g].uid = t.uid
  BY DEF Idle, Listed
<1> QED
  BY <1>2, <1>3 DEF List, Lists

\* A task that goes on keeps what it holds.
Same(p) ==
    /\ proc'[p] \in Proc
    /\ proc'[p].op = proc[p].op /\ proc'[p].uid = proc[p].uid
    /\ proc'[p].goal = proc[p].goal /\ proc'[p].seen = proc[p].seen
    /\ proc'[p].sign = proc[p].sign /\ proc'[p].quest = proc[p].quest

\* What becomes of a task in a step.
ProcMoves(p) ==
    \/ proc'[p] = proc[p]
    \/ p \in Reqs /\ proc[p].pc = "idle" /\ Started(proc'[p])
    \/ /\ p \in Tasks /\ proc[p].pc = "idle"
       /\ proc'[p] \in Proc /\ proc'[p].pc = "list" /\ proc'[p].op = "correlate"
       /\ proc'[p].uid \in Users /\ proc'[p].seen = {}
    \/ /\ p \in Tasks /\ proc[p].pc = "list"
       /\ proc'[p] \in Proc /\ proc'[p].pc \in {"done", "score"} /\ proc'[p].op = "correlate"
       /\ proc'[p].uid = proc[p].uid /\ proc'[p].sign = proc[p].sign
       /\ proc'[p].quest = proc[p].quest
       /\ \A g \in proc'[p].seen : Stored(Picked, g) /\ goals[Picked][g].uid = proc'[p].uid
    \/ /\ Same(p)
       /\ \/ /\ proc[p].pc = "set" /\ proc'[p].pc = "done" /\ SetEmbedding(p)
             /\ proc'[p].where = IF proc[p].where = Picked THEN proc[p].where ELSE None
          \/ /\ proc'[p].where = proc[p].where
             /\ \/ proc[p].pc = "embed" /\ proc'[p].pc = "set"
                \/ proc[p].pc = "score" /\ proc'[p].pc = "done"
                \/ proc[p].pc \in {"list", "embed", "set", "score"} /\ proc'[p].pc = "failed"

LEMMA NewPc ==
    ASSUME proc \in [Procs -> Proc], NEW p \in Procs,
           NEW pc \in {"set", "done", "failed"}, proc' = [proc EXCEPT ![p].pc = pc]
    PROVE  /\ Same(p) /\ proc'[p].pc = pc /\ proc'[p].where = proc[p].where
           /\ \A q \in Procs : q # p => proc'[q] = proc[q]
           /\ proc' = [q \in Procs |-> proc'[q]]
<1> DEFINE t == [proc[p] EXCEPT !.pc = pc]
<1>1. proc[p] \in Proc
  OBVIOUS
<1>2. t \in Proc /\ t.pc = pc /\ t.op = proc[p].op /\ t.uid = proc[p].uid
      /\ t.goal = proc[p].goal /\ t.seen = proc[p].seen /\ t.sign = proc[p].sign
      /\ t.quest = proc[p].quest /\ t.where = proc[p].where
  BY <1>1 DEF Proc
<1>3. proc' = [proc EXCEPT ![p] = t]
  OBVIOUS
<1> HIDE DEF t
<1> QED
  BY <1>2, <1>3 DEF Same

\* setEmbedding ends the task, and the record of where it has been.
LEMMA EmbeddingEnds ==
    ASSUME proc \in [Procs -> Proc], NEW p \in Procs, SetEmbedding(p)
    PROVE  /\ Same(p) /\ proc[p].pc = "set" /\ proc'[p].pc = "done"
           /\ proc'[p].where = IF proc[p].where = Picked THEN proc[p].where ELSE None
           /\ \A q \in Procs : q # p => proc'[q] = proc[q]
           /\ proc' = [q \in Procs |-> proc'[q]]
<1> DEFINE w == IF proc[p].where = Picked THEN proc[p].where ELSE None
           t == [proc[p] EXCEPT !.pc = "done", !.where = w]
<1>1. proc[p] \in Proc /\ w \in Repositories \union {None}
  BY DEF Proc
<1>2. t \in Proc /\ t.pc = "done" /\ t.op = proc[p].op /\ t.uid = proc[p].uid
      /\ t.goal = proc[p].goal /\ t.seen = proc[p].seen /\ t.sign = proc[p].sign
      /\ t.quest = proc[p].quest /\ t.where = w
  BY <1>1 DEF Proc
<1>3. proc' = [proc EXCEPT ![p] = t] /\ proc[p].pc = "set"
  BY DEF SetEmbedding
<1> HIDE DEF t
<1> QED
  BY <1>2, <1>3 DEF Same

LEMMA ProcsMove ==
    ASSUME TypeOK, [Next]_resolverVars
    PROVE  proc' = [p \in Procs |-> proc'[p]] /\ \A p \in Procs : ProcMoves(p)
<1> DEFINE ProcsShape == proc' = [p \in Procs |-> proc'[p]]
<1>0. proc \in [Procs -> Proc]
  BY DEF TypeOK
<1>1. CASE UNCHANGED proc
  BY <1>0, <1>1 DEF ProcMoves
<1>2. ASSUME NEW r \in Reqs, Begin(r)
      PROVE  ProcsShape /\ \A p \in Procs : ProcMoves(p)
  <2>1. PICK t : proc[r].pc = "idle" /\ Started(t) /\ proc' = [proc EXCEPT ![r] = t]
    BY <1>2, BeginStarts
  <2> QED
    BY <1>0, <2>1 DEF ProcMoves, Procs
<1>3. ASSUME NEW q \in Tasks, List(q)
      PROVE  ProcsShape /\ \A p \in Procs : ProcMoves(p)
  <2>1. PICK t : /\ proc' = [proc EXCEPT ![q] = t]
                 /\ t \in Proc /\ t.pc \in {"done", "score"} /\ t.op = "correlate"
                 /\ t.uid = proc[q].uid /\ t.sign = proc[q].sign /\ t.quest = proc[q].quest
                 /\ \A g \in t.seen : Stored(Picked, g) /\ goals[Picked][g].uid = t.uid
    BY <1>3, ListGoesOn
  <2> QED
    BY <1>0, <1>3, <2>1 DEF ProcMoves, Procs, List
<1>4. ASSUME NEW p \in Procs, Embedded(p) \/ SetEmbedding(p) \/ Publish(p) \/ Fail(p)
      PROVE  ProcsShape /\ \A q \in Procs : ProcMoves(q)
  <2>1. CASE Embedded(p)
    BY <1>0, <2>1, NewPc DEF Embedded, ProcMoves
  <2>2. CASE SetEmbedding(p)
    BY <1>0, <2>2, EmbeddingEnds DEF ProcMoves
  <2>3. CASE Publish(p)
    BY <1>0, <2>3, NewPc DEF Publish, ProcMoves
  <2>4. CASE Fail(p)
    BY <1>0, <2>4, NewPc DEF Fail, ProcMoves
  <2> QED
    BY <1>4, <2>1, <2>2, <2>3, <2>4
<1>5. ASSUME Crash PROVE ProcsShape /\ \A p \in Procs : ProcMoves(p)
  <2>1. proc' = [p \in Procs |->
           IF proc[p].pc \in {"list", "embed", "set", "score"}
             THEN [proc[p] EXCEPT !.pc = "failed"] ELSE proc[p]]
    BY <1>5 DEF Crash
  <2>2. ASSUME NEW p \in Procs, proc[p].pc \in {"list", "embed", "set", "score"}
        PROVE  Same(p) /\ proc'[p].pc = "failed" /\ proc'[p].where = proc[p].where
    <3> DEFINE t == [proc[p] EXCEPT !.pc = "failed"]
    <3>1. proc[p] \in Proc
      BY <1>0
    <3>2. t \in Proc /\ t.pc = "failed" /\ t.op = proc[p].op /\ t.uid = proc[p].uid
          /\ t.goal = proc[p].goal /\ t.seen = proc[p].seen /\ t.sign = proc[p].sign
          /\ t.quest = proc[p].quest /\ t.where = proc[p].where
      BY <3>1 DEF Proc
    <3>3. proc'[p] = t
      BY <2>1, <2>2
    <3> HIDE DEF t
    <3> QED
      BY <3>2, <3>3 DEF Same
  <2>3. ASSUME NEW p \in Procs, proc[p].pc \notin {"list", "embed", "set", "score"}
        PROVE  proc'[p] = proc[p]
    BY <2>1, <2>3
  <2> QED
    BY <2>1, <2>2, <2>3 DEF ProcMoves
<1>6. ASSUME NEW s \in Tasks, NEW q \in Quests, NEW name, Signal(s, q, name)
      PROVE  ProcsShape /\ \A p \in Procs : ProcMoves(p)
  <2>1. PICK t : SignalHolds(t, q, name) /\ proc' = [proc EXCEPT ![s] = t]
    BY <1>6, SignalStarts
  <2>2. proc[s].pc = "idle" /\ Owner[q] \in Users
    BY <1>6, OwnerAssumption DEF Signal
  <2> QED
    BY <1>0, <2>1, <2>2 DEF SignalHolds, ProcMoves, Procs
<1> QED
  BY <1>1, <1>2, <1>3, <1>4, <1>5, <1>6
  DEF Next, ResolverNext, Step, PingMongo, Environment, resolverVars

\* What a step publishes.
LEMMA PublicationsGrow ==
    ASSUME TypeInv, [Next]_resolverVars
    PROVE  \A c \in published' : c \in published \/ \E p \in Procs :
              /\ proc[p].pc = "score" /\ proc'[p].pc = "done" /\ Same(p)
              /\ c \in Correlation /\ c.by = p /\ c.uid = proc[p].uid /\ c.sign = proc[p].sign
              /\ c.quest = proc[p].quest
              /\ c.matches \subseteq proc[p].seen
              /\ published' = published \union {c}
<1>1. CASE published' = published
  BY <1>1
<1>2. ASSUME NEW p \in Procs, Publish(p)
      PROVE  \E c \in Correlation :
                /\ proc[p].pc = "score" /\ proc'[p].pc = "done" /\ Same(p)
                /\ c.by = p /\ c.uid = proc[p].uid /\ c.sign = proc[p].sign
                /\ c.quest = proc[p].quest
                /\ c.matches \subseteq proc[p].seen
                /\ published' = published \union {c}
  <2>1. PICK matches \in SUBSET proc[p].seen :
           published' = published \union {Computed(p, matches)}
    BY <1>2 DEF Publish
  <2> DEFINE c == Computed(p, matches)
  <2>2. proc[p] \in Proc /\ proc[p].pc = "score" /\ proc[p].uid \in Users
    BY <1>2 DEF Publish, TypeInv, TypeOK, ProcShape
  <2>3. /\ c \in Correlation /\ c.by = p /\ c.uid = proc[p].uid /\ c.sign = proc[p].sign
        /\ c.quest = proc[p].quest /\ c.matches = matches
    BY <2>2 DEF Computed, Correlation, Proc
  <2>4. Same(p) /\ proc'[p].pc = "done"
    BY <1>2, NewPc DEF Publish, TypeInv, TypeOK
  <2> QED
    BY <2>1, <2>2, <2>3, <2>4
<1>3. published' = published \/ \E p \in Procs : Publish(p)
  BY DEF Next, ResolverNext, Begin, Step, Fail, Signal, resolverVars, CreateGoal,
     PurgeUser, Correlate, Reembed, DeleteGoal, Embedded, SetEmbedding, List, Lists,
     PingMongo, Environment, Crash
<1> QED
  BY <1>1, <1>2, <1>3

LEMMA TypesKept == ASSUME TypeInv, [Next]_resolverVars PROVE TypeInv'
<1> USE DEF TypeInv
<1>1. faults' \in Circumstances
  BY DEF TypeOK, Next, ResolverNext, Signal, resolverVars
<1>2. LinkTypeOK'
  BY LinkTypes DEF TypeOK, LinkTypeOK, Next, ResolverNext, Begin, Step, Fail, Signal, resolverVars,
     CreateGoal, PurgeUser, Correlate, Reembed, DeleteGoal, Embedded, SetEmbedding, Publish, List,
     Lists, Pick, PingMongo, Environment, Crash
<1>3. \A b \in Repositories, g \in Goals :
         goals'[b][g] \in Goal /\ (goals'[b][g].embedded => goals'[b][g].uid \in Users)
  <2> SUFFICES ASSUME NEW b \in Repositories, NEW g \in Goals
               PROVE  goals'[b][g] \in Goal /\ (goals'[b][g].embedded => goals'[b][g].uid \in Users)
    OBVIOUS
  <2>1. GoalMoves(b, g) /\ goals[b][g] \in Goal /\ (goals[b][g].embedded => goals[b][g].uid \in Users)
    BY GoalsMove DEF TypeOK
  <2>2. Stored(b, g) => goals[b][g].uid \in Users
    BY StoredType
  <2>3. NoGoal \in Goal /\ ~NoGoal.embedded
    BY DEF NoGoal, Goal
  <2>4. \A u \in Users : [uid |-> u, embedded |-> FALSE] \in Goal
    BY DEF Goal
  <2>5. Stored(b, g) => [goals[b][g] EXCEPT !.embedded = TRUE] \in Goal
    BY <2>1 DEF Goal
  <2>6. Stored(b, g) => [goals[b][g] EXCEPT !.embedded = TRUE].uid = goals[b][g].uid
    BY <2>1 DEF Goal
  <2>7. CASE goals'[b][g] = NoGoal
    BY <2>3, <2>7
  <2>8. CASE goals'[b][g] = goals[b][g]
    BY <2>1, <2>8
  <2>9. CASE Stored(b, g) /\ goals'[b][g] = [goals[b][g] EXCEPT !.embedded = TRUE]
    BY <2>2, <2>5, <2>6, <2>9
  <2>10. CASE \E u \in Users : goals'[b][g] = [uid |-> u, embedded |-> FALSE]
    BY <2>4, <2>10
  <2> QED
    BY <2>1, <2>7, <2>8, <2>9, <2>10 DEF GoalMoves
<1>4. goals' \in [Repositories -> [Goals -> Goal]]
  BY <1>3, GoalsMove
<1>5. \A p \in Procs : /\ proc'[p] \in Proc
                       /\ proc'[p].pc \in {"embed", "set"} => proc'[p].goal \in Goals
  BY ProcsMove DEF TypeOK, ProcMoves, Same, Started
<1>6. proc' \in [Procs -> Proc]
  BY <1>5, ProcsMove
<1>7. published' \subseteq Correlation
  BY PublicationsGrow DEF TypeOK
<1>8. ProcShape'
  BY ProcsMove, PickedOne DEF ProcShape, ProcMoves, Same, Started
<1> QED
  BY <1>1, <1>2, <1>3, <1>4, <1>5, <1>6, <1>7, <1>8 DEF TypeOK

LEMMA TypesBegin == Init => TypeInv
<1> SUFFICES ASSUME Init PROVE TypeInv
  OBVIOUS
<1>1. Idle \in Proc /\ Idle.pc = "idle" /\ Idle.op = "none"
  BY DEF Idle, Proc
<1>2. NoGoal \in Goal /\ ~NoGoal.embedded
  BY DEF NoGoal, Goal
<1>3. LinkTypeOK
  BY DEF Init, LinkInit, LinkTypeOK
<1> QED
  BY <1>1, <1>2, <1>3 DEF Init, TypeInv, TypeOK, ProcShape

\* Every state of the resolver is well typed.
THEOREM TypeCorrect == Spec => []TypeOK
<1>1. Init => TypeInv
  BY TypesBegin
<1>2. TypeInv /\ [Next]_resolverVars => TypeInv'
  BY TypesKept
<1>3. TypeInv => TypeOK
  BY DEF TypeInv
<1> QED
  BY <1>1, <1>2, <1>3, PTL DEF Spec

(***************************************************************************)
(* Whose goals                                                             *)
(***************************************************************************)

\* Who has created a goal has created it for good.
LEMMA CreatedStays ==
    ASSUME TypeInv, [Next]_resolverVars, NEW r \in Reqs, NEW g, NEW u, Created(r, g, u)
    PROVE  proc'[r].op = "create" /\ proc'[r].goal = g /\ proc'[r].uid = u
<1>1. ProcMoves(r) /\ r \in Procs
  BY ProcsMove DEF TypeInv, Procs
<1>2. r \notin Tasks
  BY DisjointAssumption
<1>3. proc[r].pc # "idle"
  BY <1>1 DEF TypeInv, ProcShape, Created, Idle
<1> QED
  BY <1>1, <1>2, <1>3 DEF ProcMoves, Same, Created

LEMMA OwnersKept ==
    ASSUME TypeInv, GoalsOwn, SeenOwn, CorrelationOwn, [Next]_resolverVars
    PROVE  GoalsOwn' /\ SeenOwn' /\ CorrelationOwn'
<1> DEFINE CreatedNext(r, g, u) == proc'[r].op = "create" /\ proc'[r].goal = g /\ proc'[r].uid = u
<1>0. \A r \in Reqs : \A g, u : Created(r, g, u) => CreatedNext(r, g, u)
  BY CreatedStays
<1>1. ASSUME NEW b \in Repositories, NEW g \in Goals, goals'[b][g] # NoGoal
      PROVE  \E r \in Reqs : CreatedNext(r, g, goals'[b][g].uid)
  <2>1. GoalMoves(b, g)
    BY GoalsMove DEF TypeInv
  <2>2. CASE /\ Fresh(g)
             /\ \E r \in Reqs, u \in Users :
                   /\ goals'[b][g] = [uid |-> u, embedded |-> FALSE]
                   /\ proc[r].pc = "idle"
                   /\ proc'[r].op = "create" /\ proc'[r].goal = g /\ proc'[r].uid = u
    BY <2>2
  <2>3. CASE Stored(b, g) /\ goals'[b][g].uid = goals[b][g].uid
    BY <1>0, <2>3 DEF GoalsOwn
  <2>4. goals[b][g] \in Goal
    BY DEF TypeInv, TypeOK
  <2>5. [goals[b][g] EXCEPT !.embedded = TRUE].uid = goals[b][g].uid
    BY <2>4 DEF Goal
  <2> QED
    BY <1>1, <2>1, <2>2, <2>3, <2>5 DEF GoalMoves, Stored
<1>2. ASSUME NEW p \in Procs, NEW g \in proc'[p].seen
      PROVE  \E r \in Reqs : CreatedNext(r, g, proc'[p].uid)
  <2>1. ProcMoves(p)
    BY ProcsMove DEF TypeInv
  <2>2. CASE proc'[p].seen = proc[p].seen /\ proc'[p].uid = proc[p].uid
    BY <1>0, <1>2, <2>2 DEF SeenOwn
  <2>3. CASE Stored(Picked, g) /\ goals[Picked][g].uid = proc'[p].uid /\ proc'[p] \in Proc
    BY <1>0, <1>2, <2>3, PickedOne DEF GoalsOwn, Proc
  <2> QED
    BY <1>2, <2>1, <2>2, <2>3 DEF ProcMoves, Same, Started
<1>3. ASSUME NEW c \in published', NEW g \in c.matches
      PROVE  \E r \in Reqs : CreatedNext(r, g, c.uid)
  <2>1. CASE c \in published
    BY <1>0, <1>3, <2>1 DEF CorrelationOwn, Created
  <2>2. CASE \E p \in Procs : c.uid = proc[p].uid /\ c.matches \subseteq proc[p].seen
    BY <1>0, <1>3, <2>2 DEF SeenOwn
  <2> QED
    BY <2>1, <2>2, PublicationsGrow
<1> QED
  BY <1>1, <1>2, <1>3 DEF GoalsOwn, SeenOwn, CorrelationOwn, Stored, Created

\* A correlation names goals that were created for the user it is computed for,
\* whatever requests and tasks run at once: the tasks of correlate-action.usecase.ts
\* compute on what they listed before they waited for the provider.
THEOREM CorrelationsAreOwn == Spec => []CorrelationOwn
<1> DEFINE Inv == TypeInv /\ GoalsOwn /\ SeenOwn /\ CorrelationOwn
<1>1. Init => Inv
  BY TypesBegin DEF Init, Idle, Stored, GoalsOwn, SeenOwn, CorrelationOwn
<1>2. Inv /\ [Next]_resolverVars => Inv'
  BY TypesKept, OwnersKept
<1>3. Inv => CorrelationOwn
  OBVIOUS
<1> HIDE DEF Inv
<1> QED
  BY <1>1, <1>2, <1>3, PTL DEF Spec

\* A goal that is in neither repository comes back only as a new one: an embedding
\* that was on its way when its goal was deleted (setEmbedding) stores nothing.
THEOREM GoalsStayGone == Spec => NoResurrection
<1>1. TypeInv /\ [Next]_resolverVars =>
        [\A g \in Goals :
           ((\A b \in Repositories : ~Stored(b, g)) /\ \E b \in Repositories : Stored(b, g)')
              => Fresh(g)]_goals
  <2> SUFFICES ASSUME TypeInv, [Next]_resolverVars, NEW g \in Goals, NEW b \in Repositories,
                      \A c \in Repositories : ~Stored(c, g), goals'[b][g] # NoGoal
               PROVE  Fresh(g)
    BY DEF Stored
  <2>1. GoalMoves(b, g)
    BY GoalsMove DEF TypeInv
  <2> QED
    BY <2>1 DEF GoalMoves, Stored
<1>2. Spec => []TypeInv
  <2>1. Init => TypeInv
    BY TypesBegin
  <2>2. TypeInv /\ [Next]_resolverVars => TypeInv'
    BY TypesKept
  <2> QED
    BY <2>1, <2>2, PTL DEF Spec
<1> QED
  BY <1>1, <1>2, PTL DEF Spec, NoResurrection

(***************************************************************************)
(* Vectors                                                                 *)
(***************************************************************************)

\* Whose step it is when a request takes on an operation.
LEMMA Beginner ==
    ASSUME TypeInv, [Next]_resolverVars, NEW r \in Reqs, proc[r].pc = "idle", proc'[r] # proc[r]
    PROVE  Begin(r)
<1>1. r \in Procs /\ r \notin Tasks /\ proc \in [Procs -> Proc] /\ proc[r] = Idle
  BY DisjointAssumption DEF TypeInv, TypeOK, ProcShape, Procs
<1>2. ASSUME NEW s \in Reqs, Begin(s) PROVE s = r
  <2>1. PICK t : proc' = [proc EXCEPT ![s] = t]
    BY <1>2, BeginStarts
  <2> QED
    BY <1>1, <2>1
<1>3. ASSUME NEW p \in Procs, Step(p) \/ Fail(p) PROVE proc'[r] = proc[r]
  BY <1>1, <1>3 DEF Step, Embedded, SetEmbedding, Publish, List, Lists, Fail, Idle
<1>4. ASSUME Crash PROVE proc'[r] = proc[r]
  BY <1>1, <1>4 DEF Crash, Idle
<1>5. ASSUME NEW t \in Tasks, NEW q \in Quests, NEW name, Signal(t, q, name)
      PROVE  proc'[r] = proc[r]
  BY <1>1, <1>5 DEF Signal
<1> QED
  BY <1>2, <1>3, <1>4, <1>5
  DEF Next, ResolverNext, PingMongo, Environment, resolverVars

LEMMA Creator ==
    ASSUME TypeInv, [Next]_resolverVars, NEW r \in Reqs, proc[r].pc = "idle",
           proc'[r].op = "create"
    PROVE  \E u \in Users : CreateGoal(r, u)
<1>1. r \in Procs /\ proc \in [Procs -> Proc] /\ proc[r] = Idle
  BY DEF TypeInv, TypeOK, ProcShape, Procs
<1>2. proc'[r] # proc[r]
  BY <1>1 DEF Idle
<1>3. Begin(r)
  BY <1>2, Beginner
<1> QED
  BY <1>1, <1>3 DEF Begin, PurgeUser, Correlate, Lists, Reembed, DeleteGoal, Idle

LEMMA LinkSteady ==
    ASSUME TypeInv, NoOutage, "blip" \notin faults, [Next]_resolverVars
    PROVE  /\ faults' = faults /\ up' /\ (conn' => available')
           /\ Pick => Picked = "mongo"
<1>1. faults' = faults
  BY DEF Next, ResolverNext, Signal, resolverVars
<1>9. up /\ (conn => available) /\ conn \in BOOLEAN /\ available \in BOOLEAN
  BY DEF NoOutage, TypeInv, TypeOK, LinkTypeOK
<1>2. GetMongo => up' /\ conn' /\ available'
  BY <1>9 DEF GetMongo
<1>3. \/ GetMongo
      \/ CloseMongo
      \/ UNCHANGED <<up, conn, available>>
  BY DEF Next, ResolverNext, Begin, Step, Fail, Signal, resolverVars,
     CreateGoal, PurgeUser, Correlate, Reembed, DeleteGoal, Embedded, SetEmbedding, Publish, List,
     Lists, Pick, PingMongo, Environment, Crash
<1>4. CloseMongo => up' /\ ~conn'
  BY <1>9 DEF CloseMongo
<1>5. UNCHANGED <<up, conn, available>> => up' /\ (conn' => available')
  BY <1>9
<1> QED
  BY <1>1, <1>2, <1>3, <1>4, <1>5 DEF Pick, Picked

LEMMA NoOutageKept ==
    ASSUME TypeInv, NoOutage, [Next]_resolverVars PROVE NoOutage'
<1>1. faults' = faults
  BY DEF Next, ResolverNext, Signal, resolverVars
<1>2. ASSUME "blip" \notin faults, NEW g \in Goals PROVE goals'["memory"][g] = NoGoal
  <2>1. GoalMoves("memory", g)
    BY GoalsMove DEF TypeInv, Repositories
  <2>2. goals["memory"][g] = NoGoal
    BY <1>2 DEF NoOutage, Stored
  <2> QED
    BY <1>2, <2>1, <2>2, LinkSteady DEF GoalMoves, Stored
<1>3. ASSUME "blip" \notin faults, NEW r \in Reqs, proc'[r].op = "create"
      PROVE  proc'[r].where = "mongo"
  <2>1. ProcMoves(r) /\ r \notin Tasks
    BY ProcsMove, DisjointAssumption DEF TypeInv, Procs
  <2>2. CASE proc[r].pc = "idle" /\ Started(proc'[r])
    <3>1. PICK u \in Users : CreateGoal(r, u)
      BY <1>3, <2>2, Creator
    <3> QED
      BY <1>3, <2>2, <3>1, LinkSteady DEF Started, CreateGoal
  <2>3. CASE proc'[r] = proc[r]
    BY <1>3, <2>3 DEF NoOutage
  <2>4. CASE Same(r) /\ SetEmbedding(r)
    <3>1. Picked = "mongo" /\ proc[r].where = "mongo"
      BY <1>3, <2>4, LinkSteady DEF SetEmbedding, Same, NoOutage
    <3>2. proc'[r].where = IF proc[r].where = Picked THEN proc[r].where ELSE None
      BY <2>4, EmbeddingEnds DEF TypeInv, TypeOK, Procs
    <3> QED
      BY <3>1, <3>2
  <2>5. CASE Same(r) /\ proc'[r].where = proc[r].where
    BY <1>3, <2>5 DEF NoOutage, Same
  <2> QED
    BY <2>1, <2>2, <2>3, <2>4, <2>5 DEF ProcMoves
<1> QED
  BY <1>1, <1>2, <1>3, LinkSteady DEF NoOutage, Stored

LEMMA VectorsKept ==
    ASSUME TypeInv, NoOutage, VectorStored, [Next]_resolverVars PROVE VectorStored'
<1>1. faults' = faults
  BY DEF Next, ResolverNext, Signal, resolverVars
<1> SUFFICES ASSUME NEW r \in Reqs, NEW x, x = proc'[r].goal, NEW b, b = proc'[r].where,
                    proc'[r].op = "create", proc'[r].pc = "done"
             PROVE  IF b = None THEN "blip" \in faults
                    ELSE goals'[b][x] # NoGoal => goals'[b][x].embedded
  BY <1>1 DEF VectorStored, Stored
<1>2. r \in Procs /\ r \notin Tasks /\ ProcMoves(r)
  BY ProcsMove, DisjointAssumption DEF TypeInv, Procs
<1>3. proc'[r] = proc[r] \/ (Same(r) /\ proc[r].pc = "set" /\ SetEmbedding(r))
  BY <1>2 DEF ProcMoves, Same, Started, TypeInv, ProcShape
<1>4. x = proc[r].goal /\ x \in Goals /\ b \in Repositories \union {None}
  BY <1>2, <1>3 DEF Same, TypeInv, TypeOK, ProcShape, Proc
<1>5. CASE proc'[r] = proc[r]
  <2>1. CASE b = None
    BY <1>5, <2>1 DEF VectorStored
  <2>2. CASE b # None
    <3>1. b \in Repositories /\ GoalMoves(b, x) /\ goals[b][x] \in Goal
      BY <1>4, <2>2, GoalsMove DEF TypeInv, TypeOK
    <3>2. Stored(b, x) => goals[b][x].embedded
      BY <1>5, <2>2 DEF VectorStored
    <3>3. ~Fresh(x)
      BY <1>2, <1>4 DEF Fresh
    <3>4. [goals[b][x] EXCEPT !.embedded = TRUE].embedded
      BY <3>1 DEF Goal
    <3> QED
      BY <2>2, <3>1, <3>2, <3>3, <3>4 DEF GoalMoves, Stored
  <2> QED
    BY <2>1, <2>2
<1>6. CASE Same(r) /\ proc[r].pc = "set" /\ SetEmbedding(r)
  <2>1. b = IF proc[r].where = Picked THEN proc[r].where ELSE None
    BY <1>2, <1>6, EmbeddingEnds DEF TypeInv, TypeOK
  <2>2. "blip" \notin faults => proc[r].where = Picked
    BY <1>6, LinkSteady DEF SetEmbedding, Same, NoOutage
  <2>3. Picked # None /\ Picked \in Repositories
    BY PickedOne, NoneAssumption
  <2>4. CASE b = None
    BY <2>1, <2>2, <2>3, <2>4
  <2>5. CASE b # None
    <3>1. b = Picked /\ goals[b][x] \in Goal
      BY <1>4, <2>1, <2>3, <2>5 DEF TypeInv, TypeOK
    <3>2. goals' = IF Stored(b, x) THEN [goals EXCEPT ![b][x].embedded = TRUE] ELSE goals
      BY <1>4, <1>6, <3>1 DEF SetEmbedding, WithEmbedding
    <3>3. [goals[b][x] EXCEPT !.embedded = TRUE].embedded
      BY <3>1 DEF Goal
    <3>4. goals'[b][x] = [goals[b][x] EXCEPT !.embedded = TRUE] \/ goals'[b][x] = NoGoal
      BY <1>4, <2>3, <3>1, <3>2 DEF TypeInv, TypeOK, Stored
    <3> QED
      BY <2>5, <3>3, <3>4
  <2> QED
    BY <2>4, <2>5
<1> QED
  BY <1>3, <1>5, <1>6

\* A goal that was created and embedded in one repository has its vector there, although
\* other requests delete, re-embed and purge meanwhile, Mongo comes and goes and the
\* process restarts; the two calls part only when Mongo went away between them.
THEOREM VectorsAreStored == Spec => []VectorStored
<1> DEFINE Inv == TypeInv /\ NoOutage /\ VectorStored
<1>1. Init => Inv
  <2>1. Init => NoOutage /\ VectorStored
    BY DEF Init, LinkInit, Idle, NoOutage, VectorStored, Stored, Repositories, Procs
  <2> QED
    BY <2>1, TypesBegin
<1>2. Inv /\ [Next]_resolverVars => Inv'
  BY TypesKept, NoOutageKept, VectorsKept
<1>3. Inv => VectorStored
  OBVIOUS
<1> HIDE DEF Inv
<1> QED
  BY <1>1, <1>2, <1>3, PTL DEF Spec

\* Without outages the purge works on the repository that has everything.
LEMMA PurgeLeavesNone ==
    ASSUME TypeInv, NoOutage, "blip" \notin faults, [Next]_resolverVars,
           NEW r \in Reqs, proc[r].pc = "idle", proc'[r].op = "purge"
    PROVE  \A b \in Repositories, g \in Goals : Stored(b, g)' => goals'[b][g].uid # proc'[r].uid
<1>1. r \in Procs /\ r \notin Tasks /\ proc \in [Procs -> Proc] /\ proc[r] = Idle
  BY DisjointAssumption DEF TypeInv, TypeOK, ProcShape, Procs
<1>2. proc'[r] # proc[r]
  BY <1>1 DEF Idle
<1>3. PICK u \in Users : PurgeUser(r, u)
  <2>1. Begin(r)
    BY <1>2, Beginner
  <2> QED
    BY <1>1, <2>1 DEF Begin, CreateGoal, Correlate, Lists, Reembed, DeleteGoal, Idle
<1>4. goals' = Without("mongo", u) /\ proc'[r].uid = u
  BY <1>1, <1>3, LinkSteady DEF PurgeUser, Idle
<1> TAKE b \in Repositories, g \in Goals
<1>5. CASE b = "mongo"
  BY <1>4, <1>5 DEF Without, TypeInv, TypeOK, Stored, Repositories
<1>6. CASE b = "memory"
  <2>1. faults' = faults /\ NoOutage'
    BY LinkSteady, NoOutageKept
  <2> QED
    BY <1>6, <2>1 DEF NoOutage
<1> QED
  BY <1>5, <1>6 DEF Repositories

\* While Mongo stays reachable a purge takes every goal of its user, in both
\* repositories, whatever else is under way: what an erasure misses
\* (MCErasure_goals.cfg) is in the repository the flag does not name.
THEOREM PurgesReach == Spec => PurgeReaches
<1> DEFINE Inv == TypeInv /\ NoOutage
           Reaches == \A r \in Reqs :
               ("blip" \notin faults /\ proc[r].pc = "idle" /\ proc'[r].op = "purge") =>
                   \A b \in Repositories, g \in Goals :
                       Stored(b, g)' => goals'[b][g].uid # proc'[r].uid
<1>1. Init => Inv
  <2>1. Init => NoOutage
    BY DEF Init, LinkInit, Idle, NoOutage, Stored, Repositories, Procs
  <2> QED
    BY <2>1, TypesBegin
<1>2. Inv /\ [Next]_resolverVars => Inv'
  BY TypesKept, NoOutageKept
<1>3. Inv /\ [Next]_resolverVars => [Reaches]_proc
  BY PurgeLeavesNone
<1> HIDE DEF Inv, Reaches
<1>4. Spec => [][Reaches]_proc
  BY <1>1, <1>2, <1>3, PTL DEF Spec
<1> QED
  BY <1>4 DEF PurgeReaches, Reaches

(***************************************************************************)
(* The composition with the quests                                         *)
(***************************************************************************)

\* The resolver in the composition runs as Resolver says, so that whatever is proved
\* of Resolver holds of it: quest-bridge.ts only adds to the requests it serves.
THEOREM LoopRunsResolver == LoopSpec => Spec
<1>1. LoopInit => Init
  BY DEF LoopInit
<1>2. [LoopNext]_loopVars => [Next]_resolverVars
  BY DEF LoopNext, loopVars, Act, Announce, Outcomes, Next, resolverVars
<1> QED
  BY <1>1, <1>2, PTL DEF LoopSpec, Spec

\* What holds of a task of the bridge once it has begun: its quest has ended, and the end
\* was announced.
Told(t) ==
    /\ proc[t].quest \in Quests
    /\ proc[t].uid = Owner[proc[t].quest]
    /\ proc[t].sign = "negative" <=> state[proc[t].quest] = "FAILED"
    /\ \E e \in events : /\ e.quest = proc[t].quest
                         /\ e.name \in Outcomes
                         /\ state[e.quest] \in Quest!Truth(e.name)

\* Tasks that have begun are of different quests, and publish once.
Ends ==
    /\ \A t \in Tasks : proc[t].pc # "idle" => Told(t)
    /\ \A t, s \in Tasks :
          (proc[t].pc # "idle" /\ proc[s].pc # "idle" /\ proc[t].quest = proc[s].quest) => t = s
    /\ \A c \in published :
          /\ proc[c.by].pc = "done"
          /\ c.sign = proc[c.by].sign /\ c.uid = proc[c.by].uid /\ c.quest = proc[c.by].quest
    /\ \A c, d \in published : c.by = d.by => c = d

Inv == TypeInv /\ state \in [Quests -> Quest!State \union {"NONE"}] /\ Ends

\* An outcome that is true stays true: completed and failed quests never change sides.
LEMMA TruthStays ==
    ASSUME NEW q \in Quests, NEW name \in Outcomes, state[q] \in Quest!Truth(name),
           state \in [Quests -> Quest!State \union {"NONE"}], state' = state \/ Act
    PROVE  /\ state'[q] \in Quest!Truth(name)
           /\ state'[q] = "FAILED" <=> state[q] = "FAILED"
<1>1. state[q] \in {"COMPLETED", "REWARDED", "FAILED"}
  BY DEF Quest!Truth, Outcomes
<1>2. ASSUME NEW x \in Quests, Quest!Open(x) \/ Quest!Move(x)
      PROVE  state'[q] = state[q] \/ (state[q] = "COMPLETED" /\ state'[q] = "REWARDED")
  BY <1>1, <1>2 DEF Quest!Open, Quest!Move, Quest!Allowed
<1>3. state'[q] = state[q] \/ (state[q] = "COMPLETED" /\ state'[q] = "REWARDED")
  BY <1>2 DEF Act
<1> QED
  BY <1>1, <1>3 DEF Quest!Truth, Outcomes

LEMMA StatesKept ==
    ASSUME state \in [Quests -> Quest!State \union {"NONE"}], [LoopNext]_loopVars
    PROVE  /\ state' \in [Quests -> Quest!State \union {"NONE"}] /\ events \subseteq events'
           /\ state' = state \/ Act
BY DEF LoopNext, loopVars, Act, Announce, Quest!Announce, Quest!Open, Quest!Move,
       Quest!State, Quest!Allowed

\* Nothing but an announcement starts a task of the bridge.
LEMMA OnlyTold ==
    ASSUME TypeInv, ResolverNext, NEW t \in Tasks, proc[t].pc = "idle"
    PROVE  proc'[t] = proc[t]
<1>0. proc \in [Procs -> Proc] /\ t \in Procs /\ t \notin Reqs
  BY DisjointAssumption DEF TypeInv, TypeOK, Procs
<1>1. ASSUME NEW r \in Reqs, Begin(r) PROVE proc'[t] = proc[t]
  BY <1>0, <1>1, BeginStarts
<1>2. ASSUME NEW p \in Procs, Step(p) \/ Fail(p) PROVE proc'[t] = proc[t]
  <2>1. p # t
    BY <1>2 DEF Step, Fail, Embedded, SetEmbedding, Publish, List
  <2>2. CASE List(p)
    BY <1>0, <2>1, <2>2 DEF List, Lists
  <2>3. CASE Embedded(p) \/ SetEmbedding(p) \/ Publish(p) \/ Fail(p)
    BY <1>0, <2>1, <2>3 DEF Embedded, SetEmbedding, Publish, Fail
  <2> QED
    BY <1>2, <2>2, <2>3 DEF Step
<1>3. Crash => proc'[t] = proc[t]
  BY <1>0 DEF Crash
<1> QED
  BY <1>1, <1>2, <1>3 DEF ResolverNext, PingMongo, Environment

\* A task that begins has been told of an outcome no other task has been told of.
LEMMA BeginsTold ==
    ASSUME Inv, [LoopNext]_loopVars, NEW t \in Tasks, proc[t].pc = "idle", proc'[t].pc # "idle"
    PROVE  \E q \in Quests, name \in Outcomes, c \in Callers :
              /\ Announce(name, q, c) /\ SignalHolds(proc'[t], q, name)
              /\ \A s \in Tasks : s # t => proc'[s] = proc[s]
<1>1. proc \in [Procs -> Proc] /\ t \in Procs /\ \A s \in Tasks : s \in Procs
  BY DEF Inv, TypeInv, TypeOK, Procs
<1>2. ~ResolverNext /\ ~UNCHANGED resolverVars
  BY OnlyTold DEF Inv, resolverVars
<1>3. PICK q \in Quests, name \in Outcomes, c \in Callers, s \in Tasks :
         Announce(name, q, c) /\ Signal(s, q, name)
  BY <1>2 DEF LoopNext, loopVars, Act, Announce, resolverVars
<1>4. PICK h : SignalHolds(h, q, name) /\ proc' = [proc EXCEPT ![s] = h]
  BY <1>3, SignalStarts
<1>5. s = t
  BY <1>1, <1>4
<1> QED
  BY <1>1, <1>3, <1>4, <1>5

\* A task that had begun keeps what it was told.
LEMMA ToldStays ==
    ASSUME Inv, [LoopNext]_loopVars, NEW t \in Tasks, proc[t].pc # "idle"
    PROVE  Told(t)' /\ proc'[t].pc # "idle" /\ proc'[t].quest = proc[t].quest
<1>1. Told(t)
  BY DEF Inv, Ends
<1>2. [Next]_resolverVars /\ t \notin Reqs /\ t \in Procs
  BY DisjointAssumption
  DEF LoopNext, loopVars, Act, Announce, Outcomes, Next, resolverVars, Procs
<1>3. ProcMoves(t)
  BY <1>2, ProcsMove DEF Inv, TypeInv
<1>4. /\ proc'[t].quest = proc[t].quest /\ proc'[t].uid = proc[t].uid
      /\ proc'[t].sign = proc[t].sign /\ proc'[t].pc # "idle"
  BY <1>2, <1>3 DEF ProcMoves, Same
<1>5. PICK e \in events : /\ e.quest = proc[t].quest /\ e.name \in Outcomes
                          /\ state[e.quest] \in Quest!Truth(e.name)
  BY <1>1 DEF Told
<1>6. /\ state'[e.quest] \in Quest!Truth(e.name)
      /\ state'[e.quest] = "FAILED" <=> state[e.quest] = "FAILED"
      /\ e \in events'
  BY <1>1, <1>5, TruthStays, StatesKept DEF Inv, Told
<1> QED
  BY <1>1, <1>4, <1>5, <1>6 DEF Told

LEMMA BeganTold ==
    ASSUME Inv, [LoopNext]_loopVars, NEW t \in Tasks, proc[t].pc = "idle", proc'[t].pc # "idle"
    PROVE  /\ Told(t)'
           /\ \A s \in Tasks : proc[s].pc # "idle" => proc'[s].quest # proc'[t].quest
           /\ \A s \in Tasks : s # t => proc'[s] = proc[s]
<1>1. PICK q \in Quests, name \in Outcomes, c \in Callers :
         /\ Announce(name, q, c) /\ SignalHolds(proc'[t], q, name)
         /\ \A s \in Tasks : s # t => proc'[s] = proc[s]
  BY BeginsTold
<1>2. /\ state' = state /\ state[q] \in Quest!Truth(name)
      /\ ~ \E e \in events : e.name = name /\ e.quest = q
      /\ [name |-> name, quest |-> q, req |-> c] \in events'
  BY <1>1 DEF Announce, Quest!Announce
<1>3. /\ proc'[t].quest = q /\ proc'[t].uid = Owner[q] /\ proc'[t].sign = Polarity(name)
  BY <1>1 DEF SignalHolds
<1>4. Polarity(name) = "negative" <=> state[q] = "FAILED"
  BY <1>2 DEF Outcomes, Polarity, Quest!Truth
<1>5. Told(t)'
  <2>1. PICK e \in events' : e.name = name /\ e.quest = q
    BY <1>2
  <2> QED
    BY <1>2, <1>3, <1>4, <2>1 DEF Told
<1>6. ASSUME NEW s \in Tasks, proc[s].pc # "idle", proc'[s].quest = q PROVE FALSE
  <2>1. Told(s) /\ proc'[s].quest = proc[s].quest
    BY <1>6, ToldStays DEF Inv, Ends
  <2>2. PICK e \in events : /\ e.quest = q /\ e.name \in Outcomes
                            /\ state[q] \in Quest!Truth(e.name)
    BY <1>6, <2>1 DEF Told
  <2>3. e.name = name
    BY <1>2, <2>2 DEF Outcomes, Quest!Truth
  <2> QED
    BY <1>2, <2>2, <2>3
<1> QED
  BY <1>1, <1>3, <1>5, <1>6

LEMMA PublishedStays ==
    ASSUME Inv, [Next]_resolverVars
    PROVE  /\ \A c \in published' :
                 /\ proc'[c.by].pc = "done"
                 /\ c.sign = proc'[c.by].sign /\ c.uid = proc'[c.by].uid
                 /\ c.quest = proc'[c.by].quest
           /\ \A c, d \in published' : c.by = d.by => c = d
<1> USE DEF Inv
<1>1. ASSUME NEW c \in published
      PROVE  proc[c.by].pc = "done" /\ proc'[c.by] = proc[c.by]
  <2>1. c.by \in Procs /\ proc[c.by].pc = "done"
    BY DEF Ends, TypeInv, TypeOK, Correlation
  <2> QED
    BY <2>1, ProcsMove DEF TypeInv, ProcMoves
<1>2. ASSUME NEW c \in published', c \notin published
      PROVE  /\ c.by \in Procs /\ proc[c.by].pc = "score" /\ proc'[c.by].pc = "done"
             /\ Same(c.by) /\ c.sign = proc[c.by].sign /\ c.uid = proc[c.by].uid
             /\ c.quest = proc[c.by].quest
             /\ published' = published \union {c}
  BY <1>2, PublicationsGrow
<1>3. ASSUME NEW c \in published'
      PROVE  /\ proc'[c.by].pc = "done"
             /\ c.sign = proc'[c.by].sign /\ c.uid = proc'[c.by].uid
             /\ c.quest = proc'[c.by].quest
  <2>1. CASE c \in published
    BY <1>1, <2>1 DEF Ends
  <2>2. CASE c \notin published
    BY <1>2, <1>3, <2>2 DEF Same
  <2> QED
    BY <2>1, <2>2
<1>4. ASSUME NEW c \in published', NEW d \in published', c.by = d.by PROVE c = d
  <2>1. CASE c \in published /\ d \in published
    BY <1>4, <2>1 DEF Ends
  <2>2. CASE c \notin published
    BY <1>1, <1>2, <1>4, <2>2
  <2>3. CASE d \notin published
    BY <1>1, <1>2, <1>4, <2>3
  <2> QED
    BY <2>1, <2>2, <2>3
<1> QED
  BY <1>3, <1>4

LEMMA EndsKept == ASSUME Inv, [LoopNext]_loopVars PROVE Ends'
<1>1. [Next]_resolverVars
  BY DEF LoopNext, loopVars, Act, Announce, Outcomes, Next, resolverVars
<1>2. ASSUME NEW t \in Tasks, proc'[t].pc # "idle" PROVE Told(t)'
  BY <1>2, ToldStays, BeganTold
<1>3. ASSUME NEW t \in Tasks, NEW s \in Tasks, proc'[t].pc # "idle", proc'[s].pc # "idle",
             proc'[t].quest = proc'[s].quest
      PROVE  t = s
  <2>1. CASE proc[t].pc # "idle" /\ proc[s].pc # "idle"
    BY <1>3, <2>1, ToldStays DEF Inv, Ends
  <2>2. CASE proc[t].pc = "idle"
    BY <1>3, <2>2, BeganTold
  <2>3. CASE proc[s].pc = "idle"
    BY <1>3, <2>3, BeganTold
  <2> QED
    BY <2>1, <2>2, <2>3
<1> QED
  BY <1>1, <1>2, <1>3, PublishedStays DEF Ends

LEMMA LoopSafe ==
    /\ LoopInit => Inv
    /\ Inv /\ [LoopNext]_loopVars => Inv'
<1>1. LoopInit => Inv
  BY TypesBegin DEF LoopInit, Init, Quest!Init, Inv, Ends, Idle, Procs
<1>2. Inv /\ [LoopNext]_loopVars => Inv'
  <2>1. [LoopNext]_loopVars => [Next]_resolverVars
    BY DEF LoopNext, loopVars, Act, Announce, Outcomes, Next, resolverVars
  <2> QED
    BY <2>1, TypesKept, StatesKept, EndsKept DEF Inv
<1> QED
  BY <1>1, <1>2

\* A correlation the bridge publishes has the sign of how the quest ended, the end was
\* announced before, and there is one of each quest, for its owner.  quest-bridge.ts has no
\* guard of its own: a quest is correlated once because its handlers announce one end.
THEOREM PolarityIsTrue == LoopSpec => []PolarityTrue
<1>1. Inv => PolarityTrue
  <2> SUFFICES ASSUME Inv, NEW c \in published, c.by \in Tasks
               PROVE  /\ c.sign = "negative" <=> state[c.quest] = "FAILED"
                      /\ \E e \in events : e.quest = c.quest /\ e.name \in Outcomes
                      /\ c.uid = Owner[c.quest]
                      /\ \A d \in published : (d.by \in Tasks /\ d.quest = c.quest) => d = c
    BY DEF PolarityTrue, OncePerQuest
  <2>1. Told(c.by) /\ c.quest = proc[c.by].quest /\ c.sign = proc[c.by].sign
        /\ c.uid = proc[c.by].uid /\ proc[c.by].pc = "done"
    BY DEF Inv, Ends
  <2>2. \A d \in published : d.by \in Tasks /\ d.quest = c.quest => d.by = c.by
    BY <2>1 DEF Inv, Ends
  <2>3. \A d \in published : d.by = c.by => d = c
    BY DEF Inv, Ends
  <2> QED
    BY <2>1, <2>2, <2>3 DEF Told
<1> QED
  BY <1>1, LoopSafe, PTL DEF LoopSpec

=============================================================================
