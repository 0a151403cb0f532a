-------------------------------- MODULE Quest --------------------------------
(***************************************************************************)
(* The quest module: HTTP handlers (quest.controller.ts), use-cases and    *)
(* the repository with its two backends (quest.repository.ts).             *)
(*                                                                         *)
(* Every request is a process.  A handler is cut into one action per       *)
(* access to the store, because between two awaits other handlers run.     *)
(* The two backends differ in what a lookup hands out:                     *)
(*   - "memory": a reference to the object in the Map, so that a guard     *)
(*     reads the state as it is when the handler resumes, and `update`     *)
(*     puts the object back under its key;                                 *)
(*   - "postgres": a private copy of the row; UPDATE ... WHERE id = $1     *)
(*     writes state and reward whatever the row holds by then.             *)
(***************************************************************************)
EXTENDS QuestRules

CONSTANTS
    Users,    \* uids of the tokens
    Quests,   \* the ids randomUUID() can draw
    Reqs,     \* the requests the process ever receives
    Backend,  \* the store getPostgres() selects
    None      \* null

ASSUME BackendAssumption == Backend \in {"memory", "postgres"}
ASSUME NoneAssumption == None \notin Quests /\ None \notin Reqs /\ None \notin Users

VARIABLES
    row,     \* row[q]: the quest object, NoRow until it is created
    live,    \* the ids the store holds: keys of the Map, rows of the table
    req,     \* req[r]: what the handler of request r holds
    events   \* what has been published on the EventBus

vars == <<row, live, req, events>>

Row == [user   : Users \union {None},
        parent : Quests \union {None},
        state  : State \union {"NONE"},
        reward : Reqs \union {None}]

NoRow == [user |-> None, parent |-> None, state |-> "NONE", reward |-> None]

Settling == {"complete", "fail", "reward"}
Op == Settling \union {"start", "branch"}

Request ==
    [pc   : {"idle",      \* next: Start, FindParent or CheckOwnership
             "load",      \* next: Load, the lookup of the use-case, or Refuse
             "apply",     \* next: Save, InsertChild or Refuse
             "publish",   \* next: Publish
             "ok", "rejected",  \* answered
             "failed",    \* answered 500: a write was made and its query failed
             "lost"},     \* the process died before it answered
     op    : Op,
     uid   : Users \union {None},
     quest : Quests \union {None},
     copy  : Row]         \* postgres only: the row as it was read

Idle == [pc |-> "idle", op |-> "start", uid |-> None, quest |-> None, copy |-> NoRow]

EventName == [start |-> "quest.started", branch |-> "quest.branched",
              complete |-> "quest.completed", fail |-> "quest.failed",
              reward |-> "quest.rewarded"]

Event == [name : {EventName[o] : o \in Op}, quest : Quests, req : Reqs]

\* Types; a handler at work holds the id of a quest it was given.
TypeOK ==
    /\ row \in [Quests -> Row]
    /\ live \subseteq Quests
    /\ req \in [Reqs -> Request]
    /\ \A r \in Reqs :
          req[r].pc \in {"load", "apply", "publish"} => req[r].quest \in Quests
    /\ events \subseteq Event

Init ==
    /\ row = [q \in Quests |-> NoRow]
    /\ live = {}
    /\ req = [r \in Reqs |-> Idle]
    /\ events = {}

----------------------------------------------------------------------------
(***************************************************************************)
(* Helpers.                                                                *)
(***************************************************************************)

\* An id is drawn once.
Unused(q) == row[q] = NoRow

\* An id a client can name: one it was given, or one that never existed.
Known == {q \in Quests : ~Unused(q)} \union {None}

\* The entity a handler works on after its last lookup.
Held(r) == IF Backend = "memory" THEN row[req[r].quest] ELSE req[r].copy

\* What a lookup leaves in the handler: a private copy, or just the reference.
Copy(q) == IF Backend = "memory" THEN NoRow ELSE row[q]

Ensure(op, s) ==
    \/ op = "complete" /\ Completable(s)
    \/ op = "fail" /\ Failable(s)
    \/ op = "reward" /\ Rewardable(s)

Target == [complete |-> "COMPLETED", fail |-> "FAILED", reward |-> "REWARDED"]

\* The entity a use-case hands to `update`.
Settle(r) ==
    [Held(r) EXCEPT !.state = Target[req[r].op],
                    !.reward = IF req[r].op = "reward" THEN r ELSE @]

----------------------------------------------------------------------------
\* Slips in the code below that the runs must notice.

\* The 404 of assertQuestOwnership given up for administrators.
PassesRoleOnly(u, privileged, q) == privileged \/ (q \in live /\ row[q].user = u)

\* A branch of anyone's quest.
MayBranchForAnyone(r) ==
    /\ Branchable(Held(r).state)
    /\ Backend = "postgres" => req[r].quest \in live

\* A branch without the foreign key.
MayBranchUnreferenced(r) ==
    /\ Held(r).user = req[r].uid
    /\ Branchable(Held(r).state)

\* `update` as an upsert in both backends: a purged row comes back.
Upsert(q, entity) ==
    /\ row' = [row EXCEPT ![q] = entity]
    /\ live' = live \union {q}

\* The event is not published when `update` resolves.
PublishNothing(r) ==
    /\ req[r].pc = "publish"
    /\ req' = [req EXCEPT ![r].pc = "ok"]
    /\ UNCHANGED <<row, live, events>>

----------------------------------------------------------------------------
(***************************************************************************)
(* The repository.                                                         *)
(***************************************************************************)

\* create: a new quest starts IN_PROGRESS.
Create(n, u, parent) ==
    /\ Unused(n)
    /\ row' = [row EXCEPT ![n] = [user |-> u, parent |-> parent,
                                 state |-> "IN_PROGRESS", reward |-> None]]
    /\ live' = live \union {n}

\* update: `memory.set` puts the object back under its key; UPDATE writes state and
\* reward into the row if there is one.
Update(q, entity) ==
    \/ /\ Backend = "memory"
       /\ row' = [row EXCEPT ![q] = entity]
       /\ live' = live \union {q}
    \/ /\ Backend = "postgres" /\ q \in live
       /\ row' = [row EXCEPT ![q] = [@ EXCEPT !.state = entity.state,
                                             !.reward = entity.reward]]
       /\ UNCHANGED live
    \/ /\ Backend = "postgres" /\ q \notin live
       /\ UNCHANGED <<row, live>>

\* A query of Postgres may fail although the row is written (the connection goes
\* before the answer comes); the Map never does.
Written == IF Backend = "postgres" THEN {"publish", "failed"} ELSE {"publish"}

----------------------------------------------------------------------------
(***************************************************************************)
(* POST /api/quest/start: create, then publish quest.started.  A request   *)
(* whose first query fails is answered like one for an id unknown.         *)
(***************************************************************************)
Start(r, u) ==
    /\ req[r].pc = "idle"
    /\ \E n \in Quests, pc \in Written :
         /\ Create(n, u, None)
         /\ req' = [req EXCEPT ![r] =
                [pc |-> pc, op |-> "start", uid |-> u,
                 quest |-> n, copy |-> NoRow]]
    /\ UNCHANGED events

(***************************************************************************)
(* POST /api/quest/branch.  The owner of the parent is checked by the      *)
(* use-case itself, on the entity it has loaded, with no bypass for        *)
(* administrators.  In Postgres the foreign key parent_id refuses a parent *)
(* that has been deleted since.                                            *)
(***************************************************************************)
FindParent(r, u, q) ==
    /\ req[r].pc = "idle"
    /\ req' = [req EXCEPT ![r] =
           [pc |-> IF q \in live THEN "apply" ELSE "rejected",
            op |-> "branch", uid |-> u, quest |-> q,
            copy |-> IF q \in live THEN Copy(q) ELSE NoRow]]
    /\ UNCHANGED <<row, live, events>>

MayBranch(r) ==
    /\ Held(r).user = req[r].uid
    /\ Branchable(Held(r).state)
    /\ Backend = "postgres" => req[r].quest \in live

InsertChild(r) ==
    /\ req[r].pc = "apply"
    /\ req[r].op = "branch"
    /\ MayBranch(r)
    /\ \E n \in Quests, pc \in Written :
         /\ Create(n, req[r].uid, req[r].quest)
         /\ req' = [req EXCEPT ![r] = [@ EXCEPT !.pc = pc, !.quest = n]]
    /\ UNCHANGED events

(***************************************************************************)
(* POST /api/quest/complete, /fail and /reward: assertQuestOwnership looks *)
(* the quest up (404, 403, or go on), the use-case looks it up again,      *)
(* checks the state of what it got and saves.                              *)
(***************************************************************************)
Passes(u, privileged, q) == q \in live /\ (privileged \/ row[q].user = u)

CheckOwnership(r, op, u, privileged, q) ==
    /\ req[r].pc = "idle"
    /\ req' = [req EXCEPT ![r] =
           [pc |-> IF Passes(u, privileged, q) THEN "load" ELSE "rejected",
            op |-> op, uid |-> u, quest |-> q, copy |-> NoRow]]
    /\ UNCHANGED <<row, live, events>>

Load(r) ==
    LET q == req[r].quest IN
    /\ req[r].pc = "load"
    /\ req' = IF q \in live
                THEN [req EXCEPT ![r] = [@ EXCEPT !.pc = "apply", !.copy = Copy(q)]]
                ELSE [req EXCEPT ![r].pc = "rejected"]
    /\ UNCHANGED <<row, live, events>>

Save(r) ==
    /\ req[r].pc = "apply"
    /\ req[r].op \in Settling
    /\ Ensure(req[r].op, Held(r).state)
    /\ Update(req[r].quest, Settle(r))
    /\ \E pc \in Written : req' = [req EXCEPT ![r].pc = pc]
    /\ UNCHANGED events

\* A guard throws, the database refuses the row or a query fails with nothing
\* written: the error middleware answers.
Refuse(r) ==
    /\ \/ req[r].pc \in {"load", "apply"} /\ Backend = "postgres"
       \/ req[r].pc = "apply" /\ req[r].op \in Settling /\ ~Ensure(req[r].op, Held(r).state)
       \/ req[r].pc = "apply" /\ req[r].op = "branch" /\ ~MayBranch(r)
    /\ req' = [req EXCEPT ![r].pc = "rejected"]
    /\ UNCHANGED <<row, live, events>>

\* eventBus.publish runs the subscribers of the event before the answer is sent.
Publish(r) ==
    /\ req[r].pc = "publish"
    /\ events' = events \union
           {[name |-> EventName[req[r].op], quest |-> req[r].quest, req |-> r]}
    /\ req' = [req EXCEPT ![r].pc = "ok"]
    /\ UNCHANGED <<row, live>>

(***************************************************************************)
(* purgeUser, called by DELETE /api/me.  Postgres also deletes the         *)
(* children of a deleted row; they belong to the same user (SameOwner).    *)
(***************************************************************************)
Purge(u) ==
    /\ live' = live \ {q \in Quests : row[q].user = u}
    /\ UNCHANGED <<row, req, events>>

(***************************************************************************)
(* The process dies and starts again: handlers are gone, and with them the *)
(* Map of the memory backend.                                              *)
(***************************************************************************)
Crash ==
    /\ req' = [r \in Reqs |->
           IF req[r].pc \in {"load", "apply", "publish"}
             THEN [req[r] EXCEPT !.pc = "lost"] ELSE req[r]]
    /\ live' = IF Backend = "memory" THEN {} ELSE live
    /\ UNCHANGED <<row, events>>

----------------------------------------------------------------------------

Arrive(r) ==
    \E u \in Users :
        \/ Start(r, u)
        \/ \E q \in Known : FindParent(r, u, q)
        \/ \E q \in Known, op \in Settling, privileged \in BOOLEAN :
              CheckOwnership(r, op, u, privileged, q)

Step(r) == Load(r) \/ Save(r) \/ InsertChild(r) \/ Refuse(r) \/ Publish(r)

Next ==
    \/ \E r \in Reqs : Arrive(r) \/ Step(r)
    \/ \E u \in Users : Purge(u)
    \/ Crash

Spec == Init /\ [][Next]_vars

\* The event loop runs every continuation, and a query is answered: a handler
\* that has begun goes on.  Nothing obliges a client to send a request, a user
\* to ask for erasure or the process to die.
FairSpec == Spec /\ \A r \in Reqs : WF_vars(Step(r))

----------------------------------------------------------------------------
(***************************************************************************)
(* Properties.                                                             *)
(***************************************************************************)

\* Whatever requests interleave, a quest that exists changes state only along
\* the table of quest.rules.ts: the guards are checked on what is overwritten.
LegalTransitions ==
    [][\A q \in Quests :
         (~Unused(q) /\ row'[q].state # row[q].state)
           => CanTransition(row[q].state, row'[q].state)]_row

\* Two announcements that cannot both be due: of one stage of one quest.
Rival(e, f) ==
    /\ e.quest = f.quest
    /\ \/ {e.name, f.name} \subseteq {"quest.completed", "quest.failed"}
       \/ e.name = f.name

\* An announcement the store bears out: the quest is in the state announced (or
\* rewarded since), and the reward is that of the request told it was granted.
Honest(e) ==
    LET entity == row[e.quest] IN
    /\ entity.state # "NONE"
    /\ e.name = "quest.completed" => entity.state \in {"COMPLETED", "REWARDED"}
    /\ e.name = "quest.failed" => entity.state = "FAILED"
    /\ e.name = "quest.rewarded" => entity.state = "REWARDED" /\ entity.reward = e.req

\* A quest is settled once: of all the quest.completed and quest.failed events
\* published about it there is one, and there is one quest.rewarded.  The bridge
\* to the resolver scores the goals of the user once per event.
SingleOutcome == \A e, f \in events : Rival(e, f) => e = f

\* What was announced is what the store kept.
EventsHonest == \A e \in events : Honest(e)

\* No branch grows on a quest that is sealed when the branch is stored.
NoBranchOnSealed ==
    [][\A q \in Quests :
         (Unused(q) /\ row'[q].parent # None)
           => row[row'[q].parent].state \notin {"REWARDED", "FAILED"}]_row

\* A quest that has been erased does not come back.
PurgeIsFinal == [][\A q \in live' \ live : Unused(q)]_live

\* A tree of quests belongs to one user, which is what makes erasure by user_id
\* take whole trees.
SameOwner ==
    \A q \in Quests :
        row[q].parent # None => row[row[q].parent].user = row[q].user

\* The store holds no orphan: a stored branch has its parent stored.
LiveParents == \A q \in live : row[q].parent # None => row[q].parent \in live

\* Whoever completed or failed a quest announces it, unless the process dies or
\* the query that wrote the outcome fails.
OutcomeAnnounced ==
    \A q \in Quests :
        row[q].state \in {"COMPLETED", "FAILED"} ~>
            \/ \E e \in events : e.quest = q /\ e.name \in {"quest.completed", "quest.failed"}
            \/ \E r \in Reqs : req[r].quest = q /\ req[r].pc \in {"lost", "failed"}

\* The module keeps its contract: every step of a handler is a step of
\* QuestContract on the states of the quests and the events, or stutters.
Contract == INSTANCE QuestContract WITH state <- [q \in Quests |-> row[q].state]
ContractHolds == Contract!Spec

----------------------------------------------------------------------------
(***************************************************************************)
(* What makes the properties inductive.                                    *)
(***************************************************************************)

\* The entities and what the handlers hold of them: ids in flight and ids stored
\* have been created, the owner a handler has read is the owner, and a branch has
\* its parent's owner.
WellFormed ==
    /\ \A q \in Quests : row[q] = NoRow \/ (row[q].state \in State /\ row[q].user \in Users)
    /\ \A q \in live : ~Unused(q)
    /\ \A r \in Reqs :
          req[r].pc \in {"load", "apply", "publish"} => ~Unused(req[r].quest)
    /\ \A r \in Reqs : req[r].pc = "apply" => Held(r).user = row[req[r].quest].user
    /\ \A q \in Quests : row[q].parent # None =>
          ~Unused(row[q].parent) /\ row[row[q].parent].user = row[q].user

\* The events published and those a handler is bound to publish.
Claim(r) == [name |-> EventName[req[r].op], quest |-> req[r].quest, req |-> r]
Pending == {r \in Reqs : req[r].pc = "publish"}
Claims == events \union {Claim(r) : r \in Pending}

\* Of a quest that is IN_PROGRESS nothing is claimed yet but its opening, so the
\* claim that moves it is the first of its kind.
ClaimsTrue ==
    /\ \A e \in events : req[e.req].pc = "ok"
    /\ \A e \in Claims : Honest(e)
    /\ \A e, f \in Claims : Rival(e, f) => e = f

----------------------------------------------------------------------------

\* The rule of isParentResolvable: a completed parent has only children that are
\* completed or rewarded.
ParentResolved ==
    \A q \in live :
        LET children == {c \in live : row[c].parent = q} IN
        row[q].state = "COMPLETED" /\ children # {}
            => IsParentResolvable({row[c].state : c \in children})

=============================================================================
