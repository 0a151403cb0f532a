---------------------------- MODULE Quest_proofs ----------------------------
(***************************************************************************)
(* Theorems about Quest, for any sets of users, ids and requests.          *)
(***************************************************************************)
EXTENDS Quest, TLAPS

USE NoneAssumption, BackendAssumption

(***************************************************************************)
(* Types of the entities and requests the actions build.                   *)
(***************************************************************************)

\* Each operation has an event, and the settling ones a target state.
LEMMA OpNames ==
    /\ Settling \subseteq Op
    /\ "start" \in Op /\ "branch" \in Op
    /\ \A op \in Op : EventName[op] \in {EventName[o] : o \in Op}
    /\ \A op \in Settling : Target[op] \in State
BY DEF Settling, Op, EventName, Target, State

\* What a handler holds of a quest, and what it saves, is a quest.
LEMMA HeldIsRow ==
    ASSUME TypeOK, NEW r \in Reqs, req[r].quest \in Quests
    PROVE  /\ Held(r) \in Row
           /\ req[r].op \in Settling => Settle(r) \in Row
<1>1. req[r] \in Request /\ row[req[r].quest] \in Row
  BY DEF TypeOK
<1>2. Held(r) \in Row
  BY <1>1 DEF Held, Request
<1>3. ASSUME req[r].op \in Settling PROVE Settle(r) \in Row
  BY <1>2, <1>3, OpNames DEF Settle, Row
<1> QED
  BY <1>2, <1>3

\* Changing only the pc of a request keeps its type.
LEMMA PcChange ==
    ASSUME TypeOK, NEW r \in Reqs,
           NEW pc \in {"publish", "ok", "rejected", "failed"},
           pc = "publish" => req[r].quest \in Quests,
           req' = [req EXCEPT ![r].pc = pc]
    PROVE  /\ req' \in [Reqs -> Request]
           /\ \A s \in Reqs :
                 req'[s].pc \in {"load", "apply", "publish"} => req'[s].quest \in Quests
BY DEF TypeOK, Request

\* What every action keeps of the types, for either backend: the state of the
\* store and of the handlers of quest.controller.ts stays well typed.
THEOREM TypeCorrect == Spec => []TypeOK
<1>1. Init => TypeOK
  BY DEF Init, Idle, TypeOK, Row, NoRow, Request, Op, State
<1>2. TypeOK /\ [Next]_vars => TypeOK'
  <2> SUFFICES ASSUME TypeOK, [Next]_vars PROVE TypeOK'
    OBVIOUS
  <2>1. ASSUME NEW r \in Reqs, NEW u \in Users, Start(r, u) PROVE TypeOK'
    BY <2>1, OpNames DEF Start, Create, Written, TypeOK, Row, NoRow, Request, State
  <2>2. ASSUME NEW r \in Reqs, NEW u \in Users, NEW q \in Known, FindParent(r, u, q)
        PROVE TypeOK'
    BY <2>2, OpNames DEF FindParent, Copy, Known, TypeOK, Row, NoRow, Request
  <2>3. ASSUME NEW r \in Reqs, NEW u \in Users, NEW q \in Known, NEW op \in Settling,
               NEW p \in BOOLEAN, CheckOwnership(r, op, u, p, q)
        PROVE TypeOK'
    BY <2>3, OpNames DEF CheckOwnership, Passes, Known, TypeOK, Row, NoRow, Request
  <2>4. ASSUME NEW r \in Reqs, Load(r) PROVE TypeOK'
    <3> DEFINE q == req[r].quest
    <3>1. CASE q \in live
      <4>1. Copy(q) \in Row
        BY <3>1 DEF Copy, TypeOK, NoRow, Row
      <4>2. req' = [req EXCEPT ![r] = [@ EXCEPT !.pc = "apply", !.copy = Copy(q)]]
        BY <2>4, <3>1 DEF Load
      <4>3. req' \in [Reqs -> Request]
        <5>1. [req[r] EXCEPT !.pc = "apply", !.copy = Copy(q)] \in Request
          BY <4>1 DEF TypeOK, Request
        <5> QED
          BY <4>2, <5>1 DEF TypeOK
      <4>4. \A s \in Reqs :
              req'[s].pc \in {"load", "apply", "publish"} => req'[s].quest \in Quests
        BY <2>4, <4>2 DEF Load, TypeOK, Request
      <4> QED
        BY <2>4, <4>3, <4>4 DEF Load, TypeOK
    <3>2. CASE q \notin live
      BY <2>4, <3>2, PcChange DEF Load, TypeOK
    <3> QED
      BY <3>1, <3>2
  <2>5. ASSUME NEW r \in Reqs, Save(r) PROVE TypeOK'
    <3> DEFINE q == req[r].quest
    <3>1. q \in Quests
      BY <2>5 DEF Save, TypeOK
    <3>2. Settle(r) \in Row
      BY <2>5, <3>1, HeldIsRow DEF Save
    <3>3. row' \in [Quests -> Row] /\ live' \subseteq Quests
      <4>1. CASE row' = [row EXCEPT ![q] = Settle(r)] /\ live' = live \union {q}
        BY <3>1, <3>2, <4>1 DEF TypeOK
      <4>2. CASE /\ row' = [row EXCEPT ![q] = [@ EXCEPT !.state = Settle(r).state,
                                                       !.reward = Settle(r).reward]]
                 /\ live' = live
        <5>1. row[q] \in Row
          BY <3>1 DEF TypeOK
        <5>2. [row[q] EXCEPT !.state = Settle(r).state, !.reward = Settle(r).reward] \in Row
          BY <3>2, <5>1 DEF Row
        <5> QED
          BY <3>1, <4>2, <5>2 DEF TypeOK
      <4>3. CASE row' = row /\ live' = live
        BY <4>3 DEF TypeOK
      <4> QED
        BY <2>5, <4>1, <4>2, <4>3 DEF Save, Update
    <3>4. /\ req' \in [Reqs -> Request]
          /\ \A s \in Reqs :
                req'[s].pc \in {"load", "apply", "publish"} => req'[s].quest \in Quests
      <4>1. PICK pc \in {"publish", "failed"} : req' = [req EXCEPT ![r].pc = pc]
        BY <2>5 DEF Save, Written
      <4> QED
        BY <3>1, <4>1, PcChange
    <3> QED
      BY <2>5, <3>3, <3>4 DEF Save, TypeOK
  <2>6. ASSUME NEW r \in Reqs, InsertChild(r) PROVE TypeOK'
    <3>1. PICK n \in Quests, pc \in {"publish", "failed"} :
            /\ row' = [row EXCEPT ![n] =
                  [user |-> req[r].uid, parent |-> req[r].quest,
                   state |-> "IN_PROGRESS", reward |-> None]]
            /\ live' = live \union {n}
            /\ req' = [req EXCEPT ![r] = [@ EXCEPT !.pc = pc, !.quest = n]]
      BY <2>6 DEF InsertChild, Create, Written
    <3>2. req[r] \in Request
      BY DEF TypeOK
    <3>3. [user |-> req[r].uid, parent |-> req[r].quest,
           state |-> "IN_PROGRESS", reward |-> None] \in Row
      BY <3>2 DEF Request, Row, State
    <3>4. req' \in [Reqs -> Request]
      <4>1. [req[r] EXCEPT !.pc = pc, !.quest = n] \in Request
        BY <3>2 DEF Request
      <4> QED
        BY <3>1, <4>1 DEF TypeOK
    <3>5. \A s \in Reqs :
            req'[s].pc \in {"load", "apply", "publish"} => req'[s].quest \in Quests
      BY <3>1 DEF TypeOK, Request
    <3> QED
      BY <2>6, <3>1, <3>3, <3>4, <3>5 DEF InsertChild, Create, TypeOK
  <2>7. ASSUME NEW r \in Reqs, Refuse(r) PROVE TypeOK'
    BY <2>7, PcChange DEF Refuse, TypeOK
  <2>8. ASSUME NEW r \in Reqs, Publish(r) PROVE TypeOK'
    BY <2>8, PcChange, OpNames DEF Publish, TypeOK, Event, Request
  <2>9. ASSUME NEW u \in Users, Purge(u) PROVE TypeOK'
    BY <2>9 DEF Purge, TypeOK
  <2>10. CASE Crash
    BY <2>10 DEF Crash, TypeOK, Request
  <2>11. CASE UNCHANGED vars
    BY <2>11 DEF vars, TypeOK
  <2> QED
    BY <2>1, <2>2, <2>3, <2>4, <2>5, <2>6, <2>7, <2>8, <2>9, <2>10, <2>11
    DEF Next, Arrive, Step
<1> QED
  BY <1>1, <1>2, PTL DEF Spec

(***************************************************************************)
(* The entities and the handlers fit together.                             *)
(***************************************************************************)

\* An entity that exists has a state of the table and an owner.
LEMMA UsedRow ==
    ASSUME TypeOK, WellFormed, NEW q \in Quests
    PROVE  /\ ~Unused(q) => row[q].state \in State /\ row[q].user \in Users
           /\ ~Unused(q) <=> row[q].state # "NONE"
BY DEF WellFormed, Unused, NoRow, State

\* Saving touches one quest, that exists, and neither its owner nor its parent.
LEMMA SaveEffect ==
    ASSUME TypeOK, WellFormed, NEW r \in Reqs, Save(r)
    PROVE  LET q == req[r].quest IN
           /\ q \in Quests /\ ~Unused(q)
           /\ \A x \in Quests \ {q} : row'[x] = row[x]
           /\ row'[q].user = row[q].user /\ row'[q].parent = row[q].parent
           /\ row'[q].state \in State
           /\ live' \subseteq live \union {q}
<1> DEFINE q == req[r].quest
<1>1. q \in Quests /\ ~Unused(q) /\ row[q] \in Row /\ row[q].state \in State
  BY UsedRow DEF Save, TypeOK, WellFormed
<1>2. /\ Settle(r) \in Row /\ Held(r) \in Row
      /\ Settle(r).state \in State
      /\ Settle(r).user = Held(r).user /\ Settle(r).parent = Held(r).parent
  BY <1>1, HeldIsRow, OpNames DEF Save, Settle, Row
<1>3. CASE Backend = "memory"
  <2>1. Held(r) = row[q]
    BY <1>3 DEF Held
  <2>2. row' = [row EXCEPT ![q] = Settle(r)] /\ live' = live \union {q}
    BY <1>3 DEF Save, Update
  <2> QED
    BY <1>1, <1>2, <2>1, <2>2 DEF TypeOK
<1>4. CASE Backend = "postgres" /\ q \in live
  <2>1. /\ row' = [row EXCEPT ![q] = [@ EXCEPT !.state = Settle(r).state,
                                              !.reward = Settle(r).reward]]
        /\ live' = live
    BY <1>4 DEF Save, Update
  <2>2. row'[q] = [row[q] EXCEPT !.state = Settle(r).state, !.reward = Settle(r).reward]
    BY <1>1, <2>1 DEF TypeOK
  <2> QED
    BY <1>1, <1>2, <2>1, <2>2 DEF TypeOK, Row
<1>5. CASE row' = row /\ live' = live
  BY <1>1, <1>5
<1> QED
  BY <1>3, <1>4, <1>5 DEF Save, Update

\* Whatever the backend and the interleaving, ids in flight exist and a branch has
\* the owner of its parent.
THEOREM WellFormedHolds == Spec => []WellFormed
<1>1. Init => WellFormed
  BY DEF Init, Idle, WellFormed, NoRow
<1>2. TypeOK /\ TypeOK' /\ WellFormed /\ [Next]_vars => WellFormed'
  <2> SUFFICES ASSUME TypeOK, TypeOK', WellFormed, [Next]_vars PROVE WellFormed'
    OBVIOUS
  <2>1. ASSUME NEW r \in Reqs, NEW u \in Users, Start(r, u) PROVE WellFormed'
    <3>1. PICK n \in Quests, pc \in {"publish", "failed"} :
            /\ Unused(n)
            /\ row' = [row EXCEPT ![n] = [user |-> u, parent |-> None,
                                         state |-> "IN_PROGRESS", reward |-> None]]
            /\ live' = live \union {n}
            /\ req' = [req EXCEPT ![r] = [pc |-> pc, op |-> "start", uid |-> u,
                                         quest |-> n, copy |-> NoRow]]
      BY <2>1 DEF Start, Create, Written
    <3>2. /\ \A q \in Quests \ {n} : row'[q] = row[q]
          /\ row'[n].user = u /\ row'[n].parent = None /\ row'[n].state = "IN_PROGRESS"
          /\ \A s \in Reqs \ {r} : req'[s] = req[s]
          /\ req'[r].pc \in {"publish", "failed"} /\ req'[r].quest = n
      BY <3>1 DEF TypeOK
    <3> QED
      BY <3>1, <3>2 DEF WellFormed, TypeOK, Unused, NoRow, State, Held
  <2>2. ASSUME NEW r \in Reqs, NEW u \in Users, NEW q \in Known, FindParent(r, u, q)
        PROVE WellFormed'
    BY <2>2 DEF FindParent, WellFormed, TypeOK, Unused, Held, Copy
  <2>3. ASSUME NEW r \in Reqs, NEW u \in Users, NEW q \in Known, NEW op \in Settling,
               NEW p \in BOOLEAN, CheckOwnership(r, op, u, p, q)
        PROVE WellFormed'
    BY <2>3 DEF CheckOwnership, Passes, WellFormed, TypeOK, Unused, Held
  <2>4. ASSUME NEW r \in Reqs, Load(r) PROVE WellFormed'
    BY <2>4 DEF Load, WellFormed, TypeOK, Unused, Held, Copy
  <2>5. ASSUME NEW r \in Reqs, Save(r) PROVE WellFormed'
    <3> DEFINE q == req[r].quest
    <3>1. /\ \A s \in Reqs \ {r} : req'[s] = req[s]
          /\ req'[r].pc \in {"publish", "failed"} /\ req'[r].quest = q
      <4>1. PICK pc \in {"publish", "failed"} : req' = [req EXCEPT ![r].pc = pc]
        BY <2>5 DEF Save, Written
      <4> QED
        BY <4>1 DEF TypeOK, Request
    <3>2. /\ q \in Quests /\ ~Unused(q)
          /\ \A x \in Quests \ {q} : row'[x] = row[x]
          /\ row'[q].user = row[q].user /\ row'[q].parent = row[q].parent
          /\ row'[q].state \in State
          /\ live' \subseteq live \union {q}
      BY <2>5, SaveEffect
    <3>3. \A x \in Quests : /\ row'[x].user = row[x].user
                            /\ row'[x].parent = row[x].parent
                            /\ row'[x] = NoRow <=> row[x] = NoRow
      BY <3>2, UsedRow DEF Unused, NoRow, State
    <3>4. \A x \in Quests :
            row'[x] = NoRow \/ (row'[x].state \in State /\ row'[x].user \in Users)
      BY <3>2, UsedRow DEF WellFormed
    <3>5. \A x \in live' : row'[x] # NoRow
      BY <3>2, <3>3 DEF WellFormed, TypeOK, Unused
    <3>6. \A s \in Reqs :
            req'[s].pc \in {"load", "apply", "publish"} => row'[req'[s].quest] # NoRow
      BY <3>1, <3>2, <3>3 DEF WellFormed, TypeOK, Unused
    <3>7. \A s \in Reqs : req'[s].pc = "apply" => Held(s)'.user = row'[req'[s].quest].user
      <4>1. ASSUME NEW s \in Reqs, req'[s].pc = "apply"
            PROVE  Held(s)'.user = row'[req'[s].quest].user
        <5>1. req'[s] = req[s] /\ req[s].quest \in Quests
          BY <3>1, <4>1 DEF TypeOK
        <5>2. Held(s).user = row[req[s].quest].user
          BY <4>1, <5>1 DEF WellFormed
        <5> QED
          BY <3>3, <5>1, <5>2 DEF Held
      <4> QED
        BY <4>1
    <3>8. \A x \in Quests : row'[x].parent # None =>
            row'[row'[x].parent] # NoRow /\ row'[row'[x].parent].user = row'[x].user
      <4>1. ASSUME NEW x \in Quests, row'[x].parent # None
            PROVE  row'[row'[x].parent] # NoRow /\ row'[row'[x].parent].user = row'[x].user
        <5>1. row'[x].parent = row[x].parent /\ row[x].parent \in Quests
          BY <3>3, <4>1 DEF TypeOK, Row
        <5> QED
          BY <3>3, <4>1, <5>1 DEF WellFormed, Unused
      <4> QED
        BY <4>1
    <3> QED
      BY <3>4, <3>5, <3>6, <3>7, <3>8 DEF WellFormed, Unused
  <2>6. ASSUME NEW r \in Reqs, InsertChild(r) PROVE WellFormed'
    <3>1. PICK n \in Quests, pc \in {"publish", "failed"} :
            /\ Unused(n)
            /\ row' = [row EXCEPT ![n] =
                  [user |-> req[r].uid, parent |-> req[r].quest,
                   state |-> "IN_PROGRESS", reward |-> None]]
            /\ live' = live \union {n}
            /\ req' = [req EXCEPT ![r] = [@ EXCEPT !.pc = pc, !.quest = n]]
      BY <2>6 DEF InsertChild, Create, Written
    <3>2. /\ req[r].quest \in Quests \ {n} /\ ~Unused(req[r].quest)
          /\ row[req[r].quest].user = req[r].uid /\ req[r].uid \in Users
      BY <2>6, <3>1, UsedRow DEF InsertChild, Create, MayBranch, WellFormed, TypeOK
    <3>3. /\ \A q \in Quests \ {n} : row'[q] = row[q]
          /\ row'[n].user = req[r].uid /\ row'[n].parent = req[r].quest
          /\ row'[n].state = "IN_PROGRESS"
          /\ \A s \in Reqs \ {r} : req'[s] = req[s]
          /\ req'[r].pc \in {"publish", "failed"} /\ req'[r].quest = n
      BY <3>1 DEF TypeOK, Request
    <3> QED
      BY <3>1, <3>2, <3>3 DEF WellFormed, TypeOK, Unused, NoRow, State, Held
  <2>7. ASSUME NEW r \in Reqs, Refuse(r) PROVE WellFormed'
    BY <2>7 DEF Refuse, WellFormed, TypeOK, Unused, Held, Request
  <2>8. ASSUME NEW r \in Reqs, Publish(r) PROVE WellFormed'
    BY <2>8 DEF Publish, WellFormed, TypeOK, Unused, Held, Request
  <2>9. ASSUME NEW u \in Users, Purge(u) PROVE WellFormed'
    BY <2>9 DEF Purge, WellFormed, TypeOK, Unused, Held
  <2>10. CASE Crash
    BY <2>10 DEF Crash, WellFormed, TypeOK, Unused, Held, Request
  <2>11. CASE UNCHANGED vars
    BY <2>11 DEF vars, WellFormed, Unused, Held
  <2> QED
    BY <2>1, <2>2, <2>3, <2>4, <2>5, <2>6, <2>7, <2>8, <2>9, <2>10, <2>11
    DEF Next, Arrive, Step
<1> QED
  BY <1>1, <1>2, TypeCorrect, PTL DEF Spec

(***************************************************************************)
(* The memory backend: a guard is checked on the object that is saved, in  *)
(* the turn of the event loop in which it is saved.                        *)
(***************************************************************************)

\* A handler that takes a step, other than Publish, adds at most its own claim.
LEMMA ClaimsGrow ==
    ASSUME TypeOK, NEW r \in Reqs, req[r].pc # "publish", events' = events,
           \A s \in Reqs \ {r} : req'[s] = req[s]
    PROVE  /\ req'[r].pc # "publish" => Claims' \subseteq Claims
           /\ Claims' \subseteq Claims \union
                 {[name |-> EventName[req'[r].op], quest |-> req'[r].quest, req |-> r]}
BY DEF Claims, Claim, Pending, TypeOK

\* In memory, what is saved is the quest as it stands, moved one transition on.
LEMMA SaveMoves ==
    ASSUME TypeOK, WellFormed, Backend = "memory", NEW r \in Reqs, Save(r)
    PROVE  LET q == req[r].quest IN
           /\ q \in Quests /\ row[q].state \in State
           /\ row' = [row EXCEPT ![q] = Settle(r)]
           /\ row'[q].state = Target[req[r].op]
           /\ req[r].op = "reward" => row'[q].reward = r
           /\ req[r].op \in {"complete", "fail"} => row[q].state = "IN_PROGRESS"
           /\ req[r].op = "reward" => row[q].state = "COMPLETED"
           /\ row'[q].state \in Allowed[row[q].state]
<1> DEFINE q == req[r].quest
<1>1. q \in Quests /\ row[q] \in Row /\ Held(r) = row[q] /\ ~Unused(q)
  BY DEF Save, TypeOK, WellFormed, Held
<1>2. row' = [row EXCEPT ![q] = Settle(r)]
  BY DEF Save, Update
<1>3. row'[q] = Settle(r)
  BY <1>1, <1>2 DEF TypeOK
<1>4. /\ Settle(r).state = Target[req[r].op]
      /\ req[r].op = "reward" => Settle(r).reward = r
  BY <1>1 DEF Settle, Row
<1>5. /\ req[r].op \in {"complete", "fail"} => row[q].state = "IN_PROGRESS"
      /\ req[r].op = "reward" => row[q].state = "COMPLETED"
  BY <1>1 DEF Save, Ensure, Completable, Failable, Rewardable
<1>6. req[r].op \in {"complete", "fail", "reward"}
  BY DEF Save, Settling
<1>7. Target[req[r].op] \in Allowed[row[q].state]
  BY <1>5, <1>6 DEF Target, Allowed
<1> QED
  BY <1>1, <1>2, <1>3, <1>4, <1>5, <1>7, UsedRow

\* With the memory backend, what handlers have published and what they are bound to
\* publish is true of the store, and nothing is claimed twice.
THEOREM ClaimsHold == ASSUME Backend = "memory" PROVE Spec => []ClaimsTrue
<1>1. Init => ClaimsTrue
  BY DEF Init, Idle, ClaimsTrue, Claims, Pending
<1>2. TypeOK /\ WellFormed /\ ClaimsTrue /\ [Next]_vars => ClaimsTrue'
  <2> SUFFICES ASSUME TypeOK, WellFormed, ClaimsTrue, [Next]_vars PROVE ClaimsTrue'
    OBVIOUS
  \* A step that adds no claim and changes no quest.
  <2> DEFINE Quiet == /\ row' = row /\ events' = events /\ Claims' \subseteq Claims
                      /\ \A s \in Reqs : req[s].pc = "ok" => req'[s].pc = "ok"
  <2>1. ASSUME Quiet PROVE ClaimsTrue'
    BY <2>1 DEF ClaimsTrue, Honest, Rival, TypeOK, Event
  \* A step that opens a quest of its own.
  <2>2. ASSUME NEW r \in Reqs, NEW n \in Quests, NEW op \in {"start", "branch"}, Unused(n),
               req[r].pc \in {"idle", "apply"}, events' = events,
               \A q \in Quests \ {n} : row'[q] = row[q],
               row'[n].state = "IN_PROGRESS",
               \A s \in Reqs \ {r} : req'[s] = req[s],
               req'[r].quest = n, req'[r].op = op
        PROVE  ClaimsTrue'
    <3> DEFINE new == [name |-> EventName[op], quest |-> n, req |-> r]
    <3>1. Claims' \subseteq Claims \union {new}
      BY <2>2, ClaimsGrow
    <3>2. \A e \in Claims : e.quest # n
      BY <2>2 DEF ClaimsTrue, Honest, Unused, NoRow
    <3>3. \A e \in Claims : e.quest \in Quests
      BY DEF Claims, Claim, Pending, TypeOK, Event
    <3>4. \A e \in Claims : Honest(e)'
      BY <2>2, <3>2, <3>3 DEF ClaimsTrue, Honest
    <3>5. Honest(new)'
      BY <2>2 DEF Honest, EventName
    <3>6. \A e, f \in Claims' : Rival(e, f) => e = f
      BY <3>1, <3>2 DEF ClaimsTrue, Rival
    <3>7. \A e \in events' : req'[e.req].pc = "ok"
      BY <2>2 DEF ClaimsTrue, TypeOK, Event
    <3> QED
      BY <3>1, <3>4, <3>5, <3>6, <3>7 DEF ClaimsTrue, Rival
  <2>3. ASSUME NEW r \in Reqs, NEW u \in Users, Start(r, u) PROVE ClaimsTrue'
    BY <2>2, <2>3 DEF Start, Create, TypeOK
  <2>4. ASSUME NEW r \in Reqs, InsertChild(r) PROVE ClaimsTrue'
    BY <2>2, <2>4 DEF InsertChild, Create, TypeOK, Request
  <2>5. ASSUME NEW r \in Reqs, NEW u \in Users, NEW q \in Known, FindParent(r, u, q)
        PROVE ClaimsTrue'
    <3>1. Quiet
      BY <2>5, ClaimsGrow DEF FindParent, TypeOK
    <3> QED
      BY <2>1, <3>1
  <2>6. ASSUME NEW r \in Reqs, NEW u \in Users, NEW q \in Known, NEW op \in Settling,
               NEW p \in BOOLEAN, CheckOwnership(r, op, u, p, q)
        PROVE ClaimsTrue'
    <3>1. Quiet
      BY <2>6, ClaimsGrow DEF CheckOwnership, Passes, TypeOK
    <3> QED
      BY <2>1, <3>1
  <2>7. ASSUME NEW r \in Reqs, Load(r) PROVE ClaimsTrue'
    <3>1. Quiet
      BY <2>7, ClaimsGrow DEF Load, TypeOK, Request
    <3> QED
      BY <2>1, <3>1
  <2>8. ASSUME NEW r \in Reqs, Save(r) PROVE ClaimsTrue'
    <3>1. PICK q \in Quests, op \in {"complete", "fail", "reward"} :
            req[r].quest = q /\ req[r].op = op
      BY <2>8 DEF Save, TypeOK, Settling
    <3> DEFINE new == [name |-> EventName[op], quest |-> q, req |-> r]
    <3>2. /\ \A s \in Reqs \ {r} : req'[s] = req[s]
          /\ req'[r].op = op /\ req'[r].quest = q
          /\ req[r].pc = "apply" /\ events' = events
          /\ Claims' \subseteq Claims \union {new}
      BY <2>8, <3>1, ClaimsGrow DEF Save, TypeOK, Request
    <3>3. /\ row'[q].state = Target[op]
          /\ op = "reward" => row'[q].reward = r
          /\ op \in {"complete", "fail"} => row[q].state = "IN_PROGRESS"
          /\ op = "reward" => row[q].state = "COMPLETED"
          /\ \A x \in Quests \ {q} : row'[x] = row[x]
      BY <2>8, <3>1, SaveMoves DEF TypeOK
    <3>4. \A e \in Claims : e.quest \in Quests /\ Honest(e)
      BY DEF ClaimsTrue, Claims, Claim, Pending, TypeOK, Event
    <3>5. \A e \in Claims : Honest(e)'
      BY <3>3, <3>4 DEF Honest, Target
    <3>6. Honest(new)'
      BY <3>3 DEF Honest, EventName, Target
    <3>7. \A e \in Claims : ~Rival(e, new) /\ ~Rival(new, e)
      BY <3>3, <3>4 DEF Honest, Rival, EventName
    <3>8. \A e, f \in Claims' : Rival(e, f) => e = f
      BY <3>2, <3>7 DEF ClaimsTrue
    <3>9. \A e \in events' : req'[e.req].pc = "ok"
      BY <3>2 DEF ClaimsTrue, TypeOK, Event
    <3> QED
      BY <3>2, <3>5, <3>6, <3>8, <3>9 DEF ClaimsTrue, Rival
  <2>9. ASSUME NEW r \in Reqs, Refuse(r) PROVE ClaimsTrue'
    <3>1. Quiet
      BY <2>9, ClaimsGrow DEF Refuse, TypeOK, Request
    <3> QED
      BY <2>1, <3>1
  <2>10. ASSUME NEW r \in Reqs, Publish(r) PROVE ClaimsTrue'
    <3>1. /\ events' = events \union {Claim(r)} /\ row' = row
          /\ req' = [req EXCEPT ![r].pc = "ok"]
          /\ r \in Pending
      BY <2>10 DEF Publish, Claim, Pending
    <3>2. Claims' \subseteq Claims
      BY <3>1 DEF Claims, Claim, Pending, TypeOK, Request
    <3>3. \A e \in events' : req'[e.req].pc = "ok"
      BY <3>1 DEF ClaimsTrue, Claim, TypeOK, Event, Request
    <3> QED
      BY <3>1, <3>2, <3>3 DEF ClaimsTrue, Honest, Rival
  <2>11. ASSUME NEW u \in Users, Purge(u) PROVE ClaimsTrue'
    <3>1. Quiet
      BY <2>11 DEF Purge, Claims, Claim, Pending
    <3> QED
      BY <2>1, <3>1
  <2>12. CASE Crash
    <3>1. Quiet
      BY <2>12 DEF Crash, Claims, Claim, Pending, TypeOK, Request
    <3> QED
      BY <2>1, <3>1
  <2>13. CASE UNCHANGED vars
    <3>1. Quiet
      BY <2>13 DEF vars, Claims, Claim, Pending
    <3> QED
      BY <2>1, <3>1
  <2> QED
    BY <2>3, <2>4, <2>5, <2>6, <2>7, <2>8, <2>9, <2>10, <2>11, <2>12, <2>13
    DEF Next, Arrive, Step
<1> QED
  BY <1>1, <1>2, TypeCorrect, WellFormedHolds, PTL DEF Spec

\* With the memory backend a quest has one outcome: no two requests are both told
\* that they completed, failed or rewarded it.
THEOREM SingleOutcomeInMemory == ASSUME Backend = "memory" PROVE Spec => []SingleOutcome
<1>1. ClaimsTrue => SingleOutcome
  BY DEF ClaimsTrue, SingleOutcome, Claims
<1> QED
  BY <1>1, ClaimsHold, PTL

\* With the memory backend every event of the quest module tells the truth.
THEOREM EventsHonestInMemory == ASSUME Backend = "memory" PROVE Spec => []EventsHonest
<1>1. ClaimsTrue => EventsHonest
  BY DEF ClaimsTrue, EventsHonest, Claims
<1> QED
  BY <1>1, ClaimsHold, PTL

\* A step by which the handler of r opens quest n.
Opens(n, r) ==
    /\ Unused(n)
    /\ row'[n].state = "IN_PROGRESS"
    /\ \A q \in Quests \ {n} : row'[q] = row[q]
    /\ events' = events
    /\ \/ row'[n].parent = None
       \/ InsertChild(r) /\ row'[n].parent = req[r].quest

\* The steps that change a quest: one opens it, Save moves it.
LEMMA RowSteps ==
    ASSUME TypeOK, WellFormed, [Next]_vars, row' # row
    PROVE  \/ \E n \in Quests, r \in Reqs : Opens(n, r)
           \/ \E r \in Reqs : Save(r)
<1>1. ASSUME NEW r \in Reqs, NEW u \in Users, Start(r, u)
      PROVE  \E n \in Quests : Opens(n, r)
  <2>1. PICK n \in Quests :
          /\ Unused(n)
          /\ row' = [row EXCEPT ![n] = [user |-> u, parent |-> None,
                                       state |-> "IN_PROGRESS", reward |-> None]]
          /\ events' = events
    BY <1>1 DEF Start, Create
  <2>2. Opens(n, r)
    BY <2>1 DEF Opens, TypeOK
  <2> QED
    BY <2>2
<1>2. ASSUME NEW r \in Reqs, InsertChild(r)
      PROVE  \E n \in Quests : Opens(n, r)
  <2>1. PICK n \in Quests :
          /\ Unused(n)
          /\ row' = [row EXCEPT ![n] = [user |-> req[r].uid, parent |-> req[r].quest,
                                       state |-> "IN_PROGRESS", reward |-> None]]
          /\ events' = events
    BY <1>2 DEF InsertChild, Create
  <2>2. Opens(n, r)
    BY <1>2, <2>1 DEF Opens, TypeOK
  <2> QED
    BY <2>2
<1>3. \/ \E r \in Reqs, u \in Users : Start(r, u)
      \/ \E r \in Reqs : InsertChild(r)
      \/ \E r \in Reqs : Save(r)
  BY DEF Next, Arrive, Step, FindParent, CheckOwnership, Load, Refuse, Publish, Purge,
         Crash, vars
<1> QED
  BY <1>1, <1>2, <1>3

\* With the memory backend a quest moves along the table of quest.rules.ts only.
THEOREM LegalInMemory == ASSUME Backend = "memory" PROVE Spec => LegalTransitions
<1> DEFINE Legal == \A q \in Quests : (~Unused(q) /\ row'[q].state # row[q].state)
                                       => CanTransition(row[q].state, row'[q].state)
<1>1. TypeOK /\ WellFormed /\ [Next]_vars => [Legal]_row
  <2> SUFFICES ASSUME TypeOK, WellFormed, [Next]_vars, row' # row,
                      NEW q \in Quests, ~Unused(q), row'[q].state # row[q].state
               PROVE  CanTransition(row[q].state, row'[q].state)
    OBVIOUS
  <2>1. PICK r \in Reqs : Save(r)
    BY RowSteps DEF Opens
  <2>2. /\ req[r].quest \in Quests
        /\ \A x \in Quests \ {req[r].quest} : row'[x] = row[x]
        /\ row'[req[r].quest].state \in Allowed[row[req[r].quest].state]
    BY <2>1, SaveMoves, SaveEffect
  <2> QED
    BY <2>2 DEF CanTransition
<1> QED
  BY <1>1, TypeCorrect, WellFormedHolds, PTL DEF Spec, LegalTransitions

\* With the Postgres backend a quest that was erased stays erased, whatever a handler
\* that has loaded it saves afterwards.
THEOREM ErasedStaysErased == ASSUME Backend = "postgres" PROVE Spec => PurgeIsFinal
<1>1. [Next]_vars => [\A q \in live' \ live : Unused(q)]_live
  <2> SUFFICES ASSUME Next, NEW q \in live' \ live PROVE Unused(q)
    BY DEF vars
  <2>1. ASSUME NEW n, NEW u, NEW parent, Create(n, u, parent) PROVE Unused(q)
    BY <2>1 DEF Create
  <2>2. ASSUME NEW r \in Reqs, Arrive(r) \/ Step(r) PROVE Unused(q)
    <3>1. CASE \E u \in Users : Start(r, u)
      BY <2>1, <3>1 DEF Start
    <3>2. CASE InsertChild(r)
      BY <2>1, <3>2 DEF InsertChild
    <3>3. CASE Save(r)
      BY <3>3 DEF Save, Update
    <3> QED
      BY <2>2, <3>1, <3>2, <3>3
         DEF Arrive, Step, FindParent, CheckOwnership, Load, Refuse, Publish
  <2>3. ASSUME NEW u \in Users, Purge(u) PROVE FALSE
    BY <2>3 DEF Purge
  <2>4. ~Crash
    BY DEF Crash
  <2> QED
    BY <2>2, <2>3, <2>4 DEF Next
<1> QED
  BY <1>1, PTL DEF Spec, PurgeIsFinal

\* With the memory backend no branch is stored under a sealed quest.
THEOREM NoBranchOnSealedInMemory ==
    ASSUME Backend = "memory" PROVE Spec => NoBranchOnSealed
<1> DEFINE Grafted == \A q \in Quests : (Unused(q) /\ row'[q].parent # None)
                                         => row[row'[q].parent].state \notin {"REWARDED", "FAILED"}
<1>1. TypeOK /\ WellFormed /\ [Next]_vars => [Grafted]_row
  <2> SUFFICES ASSUME TypeOK, WellFormed, [Next]_vars, row' # row,
                      NEW q \in Quests, Unused(q), row'[q].parent # None
               PROVE  row[row'[q].parent].state \notin {"REWARDED", "FAILED"}
    OBVIOUS
  <2>1. ~ \E r \in Reqs : Save(r)
    BY SaveEffect DEF Unused, NoRow
  <2>2. PICK n \in Quests, r \in Reqs : Opens(n, r)
    BY <2>1, RowSteps
  <2>3. q = n
    BY <2>2 DEF Opens, Unused, NoRow
  <2> QED
    BY <2>2, <2>3 DEF Opens, InsertChild, MayBranch, Held, Branchable
<1> QED
  BY <1>1, TypeCorrect, WellFormedHolds, PTL DEF Spec, NoBranchOnSealed

\* Whatever the backend, a tree of quests has one owner.
THEOREM TreesHaveOneOwner == Spec => []SameOwner
<1>1. WellFormed => SameOwner
  BY DEF WellFormed, SameOwner
<1> QED
  BY <1>1, WellFormedHolds, PTL

\* In Postgres the foreign key and the erasure by owner leave no orphan.
THEOREM NoOrphansInPostgres == ASSUME Backend = "postgres" PROVE Spec => []LiveParents
<1>1. Init => LiveParents
  BY DEF Init, LiveParents
<1>2. TypeOK /\ WellFormed /\ LiveParents /\ [Next]_vars => LiveParents'
  <2> SUFFICES ASSUME TypeOK, WellFormed, LiveParents, [Next]_vars PROVE LiveParents'
    OBVIOUS
  <2>1. ASSUME NEW r \in Reqs, NEW u \in Users, Start(r, u) PROVE LiveParents'
    BY <2>1 DEF Start, Create, LiveParents, TypeOK
  <2>2. ASSUME NEW r \in Reqs, InsertChild(r) PROVE LiveParents'
    BY <2>2 DEF InsertChild, Create, MayBranch, LiveParents, TypeOK
  <2>3. ASSUME NEW r \in Reqs, Save(r) PROVE LiveParents'
    <3>1. live' = live
      BY <2>3 DEF Save, Update
    <3>2. \A x \in Quests : row'[x].parent = row[x].parent
      BY <2>3, SaveEffect
    <3> QED
      BY <3>1, <3>2 DEF LiveParents, TypeOK
  <2>4. ASSUME NEW u \in Users, Purge(u) PROVE LiveParents'
    BY <2>4 DEF Purge, LiveParents, WellFormed, TypeOK
  <2>5. CASE row' = row /\ live' = live
    BY <2>5 DEF LiveParents
  <2> QED
    BY <2>1, <2>2, <2>3, <2>4, <2>5
    DEF Next, Arrive, Step, FindParent, CheckOwnership, Load, Refuse, Publish, Crash, vars
<1> QED
  BY <1>1, <1>2, TypeCorrect, WellFormedHolds, PTL DEF Spec

(***************************************************************************)
(* Refinement: with the memory backend, Quest implements QuestContract.    *)
(***************************************************************************)
THEOREM ContractInMemory == ASSUME Backend = "memory" PROVE Spec => ContractHolds
<1> DEFINE st == [q \in Quests |-> row[q].state]
<1>1. Init => Contract!Init
  BY DEF Init, Contract!Init, NoRow
<1>2. TypeOK /\ WellFormed /\ ClaimsTrue /\ [Next]_vars => [Contract!Next]_<<st, events>>
  <2> SUFFICES ASSUME TypeOK, WellFormed, ClaimsTrue, [Next]_vars,
                      <<st, events>>' # <<st, events>>
               PROVE  Contract!Next
    OBVIOUS
  <2>1. CASE row' = row
    <3>1. PICK r \in Reqs : Publish(r)
      BY <2>1 DEF Next, Arrive, Step, Start, InsertChild, FindParent, CheckOwnership, Load,
                  Save, Refuse, Purge, Crash, vars
    <3>2. /\ Claim(r) \in Claims /\ r \in Pending
          /\ req[r].quest \in Quests /\ req[r].op \in Op
          /\ events' = events \union {Claim(r)}
      BY <3>1 DEF Publish, Claims, Claim, Pending, TypeOK, Request
    <3>3. Honest(Claim(r)) /\ row[req[r].quest].state \in State
      BY <3>2, UsedRow DEF ClaimsTrue, Honest, Claim
    <3>4. ASSUME NEW e \in events, e.name = Claim(r).name, e.quest = Claim(r).quest
          PROVE FALSE
      <4>1. e = Claim(r)
        BY <3>2, <3>4 DEF ClaimsTrue, Rival, Claims
      <4>2. e.req = r /\ req[e.req].pc = "ok"
        BY <4>1 DEF Claim, ClaimsTrue
      <4> QED
        BY <3>2, <4>2 DEF Pending
    <3>5. /\ EventName[req[r].op] \in {"quest.started", "quest.branched",
                                      "quest.completed", "quest.failed", "quest.rewarded"}
          /\ st[req[r].quest] \in Contract!Truth(EventName[req[r].op])
      <4>1. req[r].op \in {"start", "branch", "complete", "fail", "reward"}
        BY <3>2 DEF Op, Settling
      <4>2. st[req[r].quest] = row[req[r].quest].state
        BY <3>2
      <4>3. CASE req[r].op \in {"start", "branch"}
        BY <3>3, <4>2, <4>3 DEF EventName, Contract!Truth, Contract!State, State
      <4>4. CASE req[r].op \in {"complete", "fail", "reward"}
        BY <3>3, <4>2, <4>4 DEF EventName, Contract!Truth, Honest, Claim
      <4> QED
        BY <4>1, <4>3, <4>4
    <3>6. Contract!Announce(EventName[req[r].op], req[r].quest, r)
      BY <2>1, <3>2, <3>4, <3>5 DEF Contract!Announce, Claim
    <3> QED
      BY <3>2, <3>5, <3>6 DEF Contract!Next
  <2>2. CASE row' # row
    <3>1. CASE \E r \in Reqs : Save(r)
      <4>1. PICK r \in Reqs : Save(r)
        BY <3>1
      <4>2. PICK x \in Quests :
              /\ row[x].state \in State
              /\ row'[x].state \in Allowed[row[x].state]
              /\ \A q \in Quests \ {x} : row'[q] = row[q]
              /\ events' = events
        BY <4>1, SaveMoves, SaveEffect DEF Save
      <4>3. st' = [st EXCEPT ![x] = row'[x].state] /\ st[x] = row[x].state
        BY <4>2 DEF TypeOK
      <4>4. Contract!Move(x)
        BY <4>2, <4>3 DEF Contract!Move, Contract!Allowed, Contract!State, Allowed, State
      <4> QED
        BY <4>2, <4>4 DEF Contract!Next
    <3>2. CASE ~ \E r \in Reqs : Save(r)
      <4>1. PICK n \in Quests, r \in Reqs : Opens(n, r)
        BY <2>2, <3>2, RowSteps
      <4>2. st[n] = "NONE" /\ st' = [st EXCEPT ![n] = "IN_PROGRESS"]
        <5>1. st[n] = "NONE"
          BY <4>1 DEF Opens, Unused, NoRow
        <5>2. \A q \in Quests : row'[q].state = IF q = n THEN "IN_PROGRESS" ELSE row[q].state
          BY <4>1 DEF Opens
        <5>3. st' = [q \in Quests |-> row'[q].state]
          OBVIOUS
        <5> QED
          BY <5>1, <5>2, <5>3
      <4>3. Contract!Open(n)
        BY <4>1, <4>2 DEF Opens, Contract!Open
      <4> QED
        BY <4>3 DEF Contract!Next
    <3> QED
      BY <3>1, <3>2
  <2> QED
    BY <2>1, <2>2
<1> QED
  BY <1>1, <1>2, TypeCorrect, WellFormedHolds, ClaimsHold, PTL
  DEF Spec, ContractHolds, Contract!Spec, Contract!vars

=============================================================================
