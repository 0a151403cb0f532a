------------------------------ MODULE Resolver ------------------------------
(***************************************************************************)
(* The resolver: the goals of a user, kept in Mongo or, when the flag of   *)
(* the connection is down, in a Map of the process (goals.repository.ts);  *)
(* the embedding that follows the creation of a goal; and the correlation  *)
(* of an action with the goals (correlate-action.usecase.ts), asked for by *)
(* a client, by the chat, or by the outcome of a quest (quest-bridge.ts).  *)
(*                                                                         *)
(* A vector is present or absent; which goals pass the threshold is left   *)
(* open here.  The repository is chosen again on every call.  The bridge   *)
(* starts a task for every outcome it hears of, again and again for one    *)
(* quest if need be; how often a quest has an outcome is not its affair.   *)
(***************************************************************************)
EXTENDS MongoLink, FiniteSets

CONSTANTS
    Users,
    Goals,    \* the ids randomUUID() can draw
    Reqs,     \* the requests the process ever receives
    Tasks,    \* a bound: the tasks the bridge ever starts
    Quests,   \* the quests whose outcomes reach the bridge
    Owner,    \* Owner[q]: the user of quest q
    Circumstances,  \* sets of "blip", "provider" and "crash": what may happen
    None      \* null

ASSUME OwnerAssumption == Owner \in [Quests -> Users]
ASSUME DisjointAssumption == Reqs \intersect Tasks = {}
ASSUME CircumstanceAssumption == Circumstances \subseteq SUBSET {"blip", "provider", "crash"}

VARIABLES
    faults,     \* what may happen in this behaviour; it never changes
    goals,      \* goals[b][g]: the goal kept by repository b
    proc,       \* proc[p]: what the handler or the bridge's task p holds
    published   \* the correlations published

resolverVars == <<faults, up, conn, available, goals, proc, published>>

Repositories == {"mongo", "memory"}

ASSUME NoneAssumption == None \notin Repositories

Goal == [uid : Users \union {None}, embedded : BOOLEAN]
NoGoal == [uid |-> None, embedded |-> FALSE]

Procs == Reqs \union Tasks

Proc ==
    [pc    : {"idle",
              "list",    \* bridge only, next: List
              "embed",   \* waits for the provider
              "set",     \* next: SetEmbedding
              "score",   \* waits for the provider, then Publish
              "done",    \* ended as it should
              "refused", "failed"},
     op    : {"none", "create", "reembed", "correlate", "delete", "purge"},
     uid   : Users \union {None},
     goal  : Goals \union {None},
     where : Repositories \union {None},  \* of a creation: the repository of all its
                                          \* calls so far, None when there are two
     quest : Quests \union {None},        \* bridge only: whose outcome it is
     seen  : SUBSET Goals,             \* the goals listed, with their vectors
     sign  : {"positive", "negative"}]

Idle == [pc |-> "idle", op |-> "none", uid |-> None, goal |-> None,
         where |-> None, quest |-> None, seen |-> {}, sign |-> "positive"]

\* resolver.correlation.computed; actionRef names the quest.
Correlation == [by : Procs, quest : Quests \union {None}, uid : Users,
                sign : {"positive", "negative"}, matches : SUBSET Goals]

Computed(p, matches) ==
    [by |-> p, quest |-> proc[p].quest, uid |-> proc[p].uid, sign |-> proc[p].sign,
     matches |-> matches]

\* Types; a goal that has a vector has a user, a task that waits for one a goal.
TypeOK ==
    /\ LinkTypeOK
    /\ faults \in Circumstances
    /\ goals \in [Repositories -> [Goals -> Goal]]
    /\ \A b \in Repositories, g \in Goals :
          goals[b][g].embedded => goals[b][g].uid \in Users
    /\ proc \in [Procs -> Proc]
    /\ \A p \in Procs : proc[p].pc \in {"embed", "set"} => proc[p].goal \in Goals
    /\ published \subseteq Correlation

Init ==
    /\ LinkInit
    /\ faults \in Circumstances
    /\ "blip" \notin faults => up
    /\ goals = [b \in Repositories |-> [g \in Goals |-> NoGoal]]
    /\ proc = [p \in Procs |-> Idle]
    /\ published = {}

----------------------------------------------------------------------------

Stored(b, g) == goals[b][g] # NoGoal
Fresh(g) == /\ \A b \in Repositories : ~Stored(b, g)
            /\ \A p \in Procs : proc[p].goal # g

----------------------------------------------------------------------------
\* Slips in the code below that the runs must notice.

\* The list of everyone's goals.
ListedOfAll(b, u) == {g \in Goals : Stored(b, g) /\ goals[b][g].embedded}

\* setEmbedding as an upsert: a goal without an owner.
UpsertEmbedding(b, p) == [goals EXCEPT ![b][proc[p].goal].embedded = TRUE]

\* setEmbedding under another key: no goal matches.
EmbeddingLost(b, p) == goals

\* The bridge takes every signal for a success.
AlwaysPositive(name) == "positive"

\* A correlation that is tried again after it was published.
PublishAgain(p) ==
    /\ proc[p].pc = "score"
    /\ \E matches \in SUBSET proc[p].seen :
         published' = published \union {Computed(p, matches)}
    /\ UNCHANGED <<up, conn, available, goals, proc>>

\* The correlation is computed, and not published.
PublishNothing(p) ==
    /\ proc[p].pc = "score"
    /\ proc' = [proc EXCEPT ![p].pc = "done"]
    /\ UNCHANGED <<up, conn, available, goals, published>>

----------------------------------------------------------------------------
(***************************************************************************)
(* The proxy: pick() dials, then asks the flag.  A query in Mongo needs    *)
(* the server, a query in the Map nothing.                                 *)
(***************************************************************************)
Picked == IF available' THEN "mongo" ELSE "memory"

Pick == GetMongo /\ (available' => up)

Listed(b, u) == {g \in Goals : Stored(b, g) /\ goals[b][g].uid = u /\ goals[b][g].embedded}

\* updateOne without upsert; in the Map, the object under the key if there is one.
WithEmbedding(b, p) ==
    IF Stored(b, proc[p].goal)
      THEN [goals EXCEPT ![b][proc[p].goal].embedded = TRUE] ELSE goals

Without(b, u) ==
    [goals EXCEPT ![b] = [g \in Goals |-> IF goals[b][g].uid = u THEN NoGoal ELSE goals[b][g]]]

(***************************************************************************)
(* POST /api/resolver/goals: the goal is stored and answered; its vector   *)
(* is asked for and stored by a task nobody waits for.                     *)
(***************************************************************************)
CreateGoal(r, u) ==
    /\ proc[r].pc = "idle"
    /\ Pick
    /\ \E g \in Goals :
         /\ Fresh(g)
         /\ goals' = [goals EXCEPT ![Picked][g] = [uid |-> u, embedded |-> FALSE]]
         /\ proc' = [proc EXCEPT ![r] =
                [Idle EXCEPT !.pc = "embed", !.op = "create", !.uid = u, !.goal = g,
                             !.where = Picked]]
    /\ UNCHANGED published

\* POST /api/resolver/goals/:goalId/reembed.
Reembed(r, g) ==
    /\ proc[r].pc = "idle"
    /\ Pick
    /\ proc' = [proc EXCEPT ![r] =
           [Idle EXCEPT !.pc = IF Stored(Picked, g) THEN "embed" ELSE "refused",
                        !.op = "reembed", !.goal = g]]
    /\ UNCHANGED <<goals, published>>

\* executeService.embed answers.
Embedded(p) ==
    /\ proc[p].pc = "embed"
    /\ proc' = [proc EXCEPT ![p].pc = "set"]
    /\ UNCHANGED <<up, conn, available, goals, published>>

SetEmbedding(p) ==
    /\ proc[p].pc = "set"
    /\ Pick
    /\ goals' = WithEmbedding(Picked, p)
    /\ proc' = [proc EXCEPT ![p].pc = "done",
                            ![p].where = IF @ = Picked THEN @ ELSE None]
    /\ UNCHANGED published

\* DELETE /api/resolver/goals/:goalId.
DeleteGoal(r, g) ==
    /\ proc[r].pc = "idle"
    /\ Pick
    /\ goals' = [goals EXCEPT ![Picked][g] = NoGoal]
    /\ proc' = [proc EXCEPT ![r] =
           [Idle EXCEPT !.pc = IF Stored(Picked, g) THEN "done" ELSE "refused",
                        !.op = "delete", !.goal = g]]
    /\ UNCHANGED published

\* purgeUser, called by DELETE /api/me.
PurgeUser(r, u) ==
    /\ proc[r].pc = "idle"
    /\ Pick
    /\ goals' = Without(Picked, u)
    /\ proc' = [proc EXCEPT ![r] = [Idle EXCEPT !.pc = "done", !.op = "purge", !.uid = u]]
    /\ UNCHANGED published

(***************************************************************************)
(* correlateActionUseCase: list the goals that have a vector; without any  *)
(* there is nothing to compute; else embed the action, score and publish.  *)
(***************************************************************************)
Lists(p, u, q, sign) ==
    /\ Pick
    /\ proc' = [proc EXCEPT ![p] =
           [Idle EXCEPT !.pc = IF Listed(Picked, u) = {} THEN "done" ELSE "score",
                        !.op = "correlate", !.uid = u, !.quest = q,
                        !.seen = Listed(Picked, u), !.sign = sign]]
    /\ UNCHANGED <<goals, published>>

\* POST /api/resolver/correlate and the chat; the controller passes no polarity.
Correlate(r, u) == proc[r].pc = "idle" /\ Lists(r, u, None, "positive")

\* The goals that reach the threshold are among those listed.
Publish(p) ==
    /\ proc[p].pc = "score"
    /\ \E matches \in SUBSET proc[p].seen :
         published' = published \union {Computed(p, matches)}
    /\ proc' = [proc EXCEPT ![p].pc = "done"]
    /\ UNCHANGED <<up, conn, available, goals>>

(***************************************************************************)
(* The bridge: every quest.completed and quest.failed starts a task, for   *)
(* the user the event names.                                               *)
(***************************************************************************)
Polarity(name) == IF name = "quest.failed" THEN "negative" ELSE "positive"

Signal(t, q, name) ==
    /\ proc[t].pc = "idle"
    /\ proc' = [proc EXCEPT ![t] =
           [Idle EXCEPT !.pc = "list", !.op = "correlate", !.uid = Owner[q], !.quest = q,
                        !.sign = Polarity(name)]]
    /\ UNCHANGED <<faults, up, conn, available, goals, published>>

List(t) == proc[t].pc = "list" /\ Lists(t, proc[t].uid, proc[t].quest, proc[t].sign)

----------------------------------------------------------------------------
\* The provider fails, or Mongo cannot be reached: the task's error is logged.
Fail(p) ==
    /\ \/ "provider" \in faults /\ proc[p].pc \in {"embed", "score"}
       \/ available /\ ~up /\ proc[p].pc \in {"set", "list"}
    /\ proc' = [proc EXCEPT ![p].pc = "failed"]
    /\ UNCHANGED <<up, conn, available, goals, published>>

PingMongo == GetMongo /\ UNCHANGED <<goals, proc, published>>

Environment == Blip /\ UNCHANGED <<goals, proc, published>>

\* The Map goes with the process.
Crash ==
    /\ CloseMongo
    /\ goals' = [goals EXCEPT !["memory"] = [g \in Goals |-> NoGoal]]
    /\ proc' = [p \in Procs |->
           IF proc[p].pc \in {"list", "embed", "set", "score"}
             THEN [proc[p] EXCEPT !.pc = "failed"] ELSE proc[p]]
    /\ UNCHANGED published

Begin(r) ==
    \/ \E u \in Users : CreateGoal(r, u) \/ PurgeUser(r, u) \/ Correlate(r, u)
    \/ \E g \in Goals : Reembed(r, g) \/ DeleteGoal(r, g)

Step(p) == Embedded(p) \/ SetEmbedding(p) \/ Publish(p) \/ (p \in Tasks /\ List(p))

ResolverNext ==
    /\ UNCHANGED faults
    /\ \/ \E r \in Reqs : Begin(r)
       \/ \E p \in Procs : Step(p) \/ Fail(p)
       \/ PingMongo
       \/ "blip" \in faults /\ Environment
       \/ "crash" \in faults /\ Crash

\* Signals come from outside.
Next ==
    \/ ResolverNext
    \/ \E t \in Tasks, q \in Quests, name \in {"quest.completed", "quest.failed"} :
          Signal(t, q, name)

Spec == Init /\ [][Next]_resolverVars

\* Tasks go on and health checks are made (/health pings Mongo).
FairSpec == /\ Spec
            /\ \A p \in Procs : WF_resolverVars(UNCHANGED faults /\ Step(p))
            /\ WF_resolverVars(UNCHANGED faults /\ PingMongo)

----------------------------------------------------------------------------
(***************************************************************************)
(* Properties.                                                             *)
(***************************************************************************)

\* A goal that was deleted or purged never comes back, in either repository,
\* although its embedding may be on its way.
NoResurrection ==
    [][\A g \in Goals :
         ((\A b \in Repositories : ~Stored(b, g)) /\ \E b \in Repositories : Stored(b, g)')
            => Fresh(g)]_goals

\* A correlation names goals of the user it is computed for, whatever was created,
\* deleted or moved meanwhile.
CorrelationOwn ==
    \A c \in published : \A g \in c.matches :
        \E r \in Reqs : /\ proc[r].op = "create"
                        /\ proc[r].goal = g
                        /\ proc[r].uid = c.uid

\* When the provider has answered and the task has ended, the goal has its vector
\* or has been deleted.
VectorKept ==
    \A r \in Reqs :
        (proc[r].op = "create" /\ proc[r].pc = "done") =>
            \A b \in Repositories :
                Stored(b, proc[r].goal) => goals[b][proc[r].goal].embedded

\* A goal whose creation and embedding went to one repository has its vector there or is
\* gone, through outages and restarts; the two part only when Mongo went away meanwhile.
VectorStored ==
    \A r \in Reqs :
        (proc[r].op = "create" /\ proc[r].pc = "done") =>
            LET b == proc[r].where
            IN IF b = None THEN "blip" \in faults
               ELSE Stored(b, proc[r].goal) => goals[b][proc[r].goal].embedded

\* While Mongo stays reachable a purge leaves no goal of its user in either repository,
\* although embeddings of them may be on their way and the process may restart.
PurgeReaches ==
    [][\A r \in Reqs :
         ("blip" \notin faults /\ proc[r].pc = "idle" /\ proc'[r].op = "purge") =>
             \A b \in Repositories, g \in Goals :
                 Stored(b, g)' => goals'[b][g].uid # proc'[r].uid]_proc

\* An outcome whose owner has goals is correlated, unless goals are being removed or
\* the provider fails.
BridgeAnswers ==
    \A t \in Tasks :
        (proc[t].pc = "list" /\ available /\ Listed("mongo", proc[t].uid) # {}) ~>
            \/ \E c \in published : c.by = t
            \/ \E r \in Reqs : proc[r].op \in {"delete", "purge"}
            \/ proc[t].pc = "failed"

----------------------------------------------------------------------------
(***************************************************************************)
(* What the documentation says and the code does not keep.                 *)
(***************************************************************************)

\* Once Mongo stays reachable, the repository is Mongo again.
MongoReturns == <>[]up => <>[]available

=============================================================================
