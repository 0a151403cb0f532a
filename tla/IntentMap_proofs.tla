--------------------------- MODULE IntentMap_proofs ---------------------------
(***************************************************************************)
(* Theorems about IntentMap, for any sessions and requests and for any     *)
(* configuration.                                                          *)
(***************************************************************************)
EXTENDS IntentMap, TLAPS

Stores == {"mongo", "postgres"}

\* A request that has not come holds nothing, and erases only as a purge, through a
\* repository that is resolved; a task is about a session.
Held ==
    \A r \in Reqs :
        /\ req[r].pc = "idle" => req[r] = Idle
        /\ req[r].pc \in {"version", "write", "auditUpsert", "auditAppend"} => req[r].op = "append"
        /\ req[r].pc = "snapshot" => req[r].op = "snapshot"
        /\ req[r].left # {} => req[r].op = "purge" /\ impl # None
        /\ req[r].pc \in {"version", "write"} => impl # None
        /\ req[r].pc = "erase" => req[r].left # {}
        /\ snap[r].pc # "none" => snap[r].session \in Sessions

TypeInv == TypeOK /\ Held

(***************************************************************************)
(* Types                                                                   *)
(***************************************************************************)

LEMMA GraphType == NoDoc \in Graph /\ NoDoc.nodes = <<>> /\ NoDoc.version = 0
BY DEF NoDoc, Graph

LEMMA IdleType ==
    /\ Idle \in Request /\ Idle.pc = "idle" /\ Idle.op = "read" /\ Idle.left = {}
    /\ Idle.session = None /\ Idle.graph = NoDoc /\ Idle.found = NoDoc /\ Idle.acked = {}
    /\ Idle.home = None
BY GraphType DEF Idle, Request, Op

LEMMA TaskType ==
    /\ NoTask \in Task /\ NoTask.pc = "none" /\ NoTask.session = None
    /\ NoTask.trigger = "manual" /\ NoTask.graph = NoDoc
BY GraphType DEF NoTask, Task

LEMMA ConfType ==
    ASSUME TypeOK
    PROVE  /\ Mode \in {"mongo", "postgres", "auto"} /\ SnapshotEvery \in Nat
           /\ MaxInFlight \in Nat /\ Faults \subseteq {"blip", "error", "crash"}
BY ConfigurationAssumption DEF TypeOK, Mode, SnapshotEvery, MaxInFlight, Faults

\* The graph a request writes.
LEMMA NextType ==
    ASSUME TypeOK, NEW r \in Reqs
    PROVE  /\ NextNodes(r) \in Seq(Reqs) /\ NextVersion(r) \in Nat
           /\ NextNodes(r) # <<>> /\ Last(NextNodes(r)) = r
           /\ [nodes |-> NextNodes(r), version |-> NextVersion(r)] \in Graph
           /\ ToSet(NextNodes(r)) = ToSet(req[r].graph.nodes) \union {r}
<1>1. req[r].graph.nodes \in Seq(Reqs) /\ req[r].found.version \in Nat
  BY DEF TypeOK, Request, Graph
<1>2. NextNodes(r) \in Seq(Reqs) /\ NextNodes(r) # <<>> /\ Last(NextNodes(r)) = r
  BY <1>1 DEF NextNodes, Last
<1>3. NextVersion(r) \in Nat
  BY <1>1 DEF NextVersion
<1>4. ToSet(NextNodes(r)) = ToSet(req[r].graph.nodes) \union {r}
  <2> DEFINE s == req[r].graph.nodes
  <2>1. /\ Len(s) \in Nat /\ DOMAIN s = 1 .. Len(s)
        /\ DOMAIN NextNodes(r) = 1 .. (Len(s) + 1)
        /\ NextNodes(r)[Len(s) + 1] = r
        /\ \A i \in 1 .. Len(s) : NextNodes(r)[i] = s[i]
    BY <1>1 DEF NextNodes
  <2>2. 1 .. (Len(s) + 1) = (1 .. Len(s)) \union {Len(s) + 1}
    BY <2>1
  <2> HIDE DEF s
  <2> QED
    BY <2>1, <2>2 DEF ToSet, s
<1> QED
  BY <1>2, <1>3, <1>4 DEF Graph

\* After the proxy there is a repository, the one there was if there was one.
LEMMA Resolved ==
    ASSUME TypeOK, Resolve
    PROVE  /\ impl' \in Stores /\ (impl # None => impl' = impl) /\ LinkTypeOK'
           /\ impl' = "mongo" => impl = "mongo" \/ Mode # "postgres"
           /\ impl' = "postgres" => impl = "postgres" \/ Mode # "mongo"
BY ConfType, NoneAssumption DEF TypeOK, Resolve, Stores, GetMongo, LinkTypeOK, link

LEMMA SeenType ==
    ASSUME TypeOK, impl' \in Stores, NEW s \in Sessions PROVE Seen(s) \in Graph
BY GraphType DEF TypeOK, Seen, Stores

\* What a request holds when it has begun.
Started(t) ==
    /\ t \in Request /\ t.session \in Sessions /\ t.found = NoDoc
    /\ \/ t.op = "read" /\ t.pc \in {"ok", "failed"} /\ t.left = {} /\ t.acked = {}
       \/ /\ t.op = "append" /\ t.left = {} /\ t.acked = {} /\ t.graph = Seen(t.session)
          /\ t.home = StoreAsked
          /\ t.pc = IF QueryFails THEN "failed" ELSE IF impl' = "mongo" THEN "version" ELSE "write"
       \/ /\ t.op = "snapshot" /\ t.left = {} /\ t.acked = {}
          /\ t.pc = IF impl' = "mongo" THEN "snapshot" ELSE "refused"
       \/ /\ t.op = "purge" /\ t.pc = IF Offline \/ QueryFails THEN "ok" ELSE "erase"
          /\ t.left = IF Offline \/ QueryFails THEN {} ELSE Purged(impl')
          /\ t.home = StoreAsked
          /\ t.acked = {a \in Reqs : req[a].op = "append" /\ req[a].session = t.session
                                     /\ req[a].pc = "ok"}

\* What the beginning of a request does to the snapshots.
Triggered(r, t) ==
    snap' = IF t.op = "snapshot" /\ impl' = "mongo"
              THEN [snap EXCEPT ![r] = [NoTask EXCEPT !.pc = "load", !.session = t.session]]
              ELSE snap

LEMMA BeginStarts ==
    ASSUME TypeOK, NEW r \in Reqs, Begin(r)
    PROVE  /\ Arrive(r) /\ UNCHANGED <<doc, audit, written>>
           /\ \E t : Started(t) /\ req' = [req EXCEPT ![r] = t] /\ Triggered(r, t)
<1>1. PICK s \in Sessions : Read(r, s) \/ BeginAppend(r, s) \/ BeginSnapshot(r, s) \/ BeginPurge(r, s)
  BY DEF Begin
<1>2. Arrive(r) /\ UNCHANGED <<doc, audit, written>>
  BY <1>1 DEF Read, BeginAppend, BeginSnapshot, BeginPurge
<1>3. impl' \in Stores /\ Seen(s) \in Graph /\ StoreAsked \in {None, "mongo", "postgres"}
  BY <1>2, Resolved, SeenType DEF Arrive, StoreAsked, Stores
<1>4. CASE Read(r, s)
  <2> DEFINE t == [Idle EXCEPT !.pc = IF QueryFails THEN "failed" ELSE "ok",
                               !.op = "read", !.session = s, !.graph = Seen(s)]
  <2>1. Started(t) /\ t.op # "snapshot"
    BY <1>3, GraphType DEF Started, Idle, Request, Op
  <2> QED
    BY <1>2, <1>4, <2>1 DEF Read, Triggered
<1>5. CASE BeginAppend(r, s)
  <2> DEFINE t == [Idle EXCEPT !.pc = IF QueryFails THEN "failed"
                                      ELSE IF impl' = "mongo" THEN "version" ELSE "write",
                               !.op = "append", !.session = s, !.graph = Seen(s),
                               !.home = StoreAsked]
  <2>1. Started(t) /\ t.op # "snapshot"
    BY <1>3, GraphType DEF Started, Idle, Request, Op
  <2> QED
    BY <1>2, <1>5, <2>1 DEF BeginAppend, Triggered
<1>6. CASE BeginSnapshot(r, s)
  <2> DEFINE t == [Idle EXCEPT !.pc = IF impl' = "mongo" THEN "snapshot" ELSE "refused",
                               !.op = "snapshot", !.session = s]
  <2>1. Started(t) /\ t.op = "snapshot" /\ t.session = s
    BY <1>3, GraphType DEF Started, Idle, Request, Op
  <2> QED
    BY <1>2, <1>6, <2>1 DEF BeginSnapshot, Triggered
<1>7. CASE BeginPurge(r, s)
  <2> DEFINE acked == {a \in Reqs : /\ req[a].op = "append"
                                    /\ req[a].session = s
                                    /\ req[a].pc = "ok"}
             t == [Idle EXCEPT !.pc = IF Offline \/ QueryFails THEN "ok" ELSE "erase",
                               !.op = "purge", !.session = s,
                               !.left = IF Offline \/ QueryFails THEN {} ELSE Purged(impl'),
                               !.home = StoreAsked, !.acked = acked]
  <2>1. acked \in SUBSET Reqs /\ Purged(impl') \in SUBSET {"graph", "audit"}
    BY DEF Purged
  <2>2. Started(t) /\ t.op # "snapshot"
    BY <1>3, <2>1, GraphType DEF Started, Idle, Request, Op
  <2> QED
    BY <1>2, <1>7, <2>2 DEF BeginPurge, Triggered
<1> QED
  BY <1>1, <1>2, <1>4, <1>5, <1>6, <1>7

\* A request that goes on keeps what it was asked for and what it has read.
Same(r) ==
    /\ req'[r] \in Request
    /\ req'[r].op = req[r].op /\ req'[r].session = req[r].session
    /\ req'[r].graph = req[r].graph /\ req'[r].acked = req[r].acked

\* What becomes of a request in a step.
Answers(r) ==
    /\ Same(r) /\ req'[r].left = req[r].left /\ req'[r].found = req[r].found
    /\ req'[r].home = req[r].home
    /\ \/ req[r].pc = "write" /\ req'[r].pc = "auditUpsert" /\ StoreMongo(r)
       \/ req[r].pc = "write" /\ req'[r].pc = "ok" /\ StorePostgres(r)
       \/ req[r].pc = "auditUpsert" /\ req'[r].pc = "auditAppend" /\ AuditUpsert(r)
       \/ req[r].pc = "auditAppend" /\ req'[r].pc = "ok" /\ AuditAppend(r)
       \/ /\ req[r].pc = "snapshot" /\ req'[r].pc \in {"ok", "refused", "failed"}
          /\ snap[r].pc \in {"load", "write"} /\ snap'[r].pc = "done"
       \/ /\ req[r].pc \in {"version", "write", "auditUpsert", "auditAppend"}
          /\ req'[r].pc = "failed" /\ Fail(r)

Finds(r) ==
    /\ Same(r) /\ req'[r].left = req[r].left /\ req'[r].home = req[r].home
    /\ req[r].pc = "version" /\ req'[r].pc = "write"
    /\ req'[r].found = doc["mongo"][req[r].session] /\ FindVersion(r)

Erases(r) ==
    /\ Same(r) /\ req'[r].found = req[r].found /\ req[r].pc # "lost"
    /\ \E x \in req[r].left :
          /\ req'[r].left = req[r].left \ {x}
          /\ \/ /\ Erase(r) /\ req'[r].home = req[r].home
                /\ req'[r].pc = IF req[r].left = {x} THEN "ok" ELSE req[r].pc
                /\ doc' = IF x = "graph" THEN [doc EXCEPT ![impl][req[r].session] = NoDoc] ELSE doc
                /\ audit' = IF x = "audit" THEN {e \in audit : e.session # req[r].session} ELSE audit
             \/ EraseFails(r) /\ req'[r].pc = "ok" /\ req'[r].home = None

Lost(r) ==
    /\ Same(r) /\ req'[r].found = req[r].found /\ req'[r].home = req[r].home
    /\ r \in InFlight \/ req[r].left # {}
    /\ req'[r].pc = "lost" /\ req'[r].left = {} /\ Crash

ReqMoves(r) ==
    \/ req'[r] = req[r]
    \/ /\ req[r].pc = "idle" /\ Started(req'[r]) /\ Arrive(r) /\ Triggered(r, req'[r])
       /\ UNCHANGED <<doc, audit, written>> /\ \A x \in Reqs : x # r => req'[x] = req[x]
    \/ Answers(r) \/ Finds(r) \/ Erases(r) \/ Lost(r)

LEMMA NewPc ==
    ASSUME req \in [Reqs -> Request], NEW r \in Reqs,
           NEW pc \in {"auditUpsert", "auditAppend", "ok", "refused", "failed"},
           req' = [req EXCEPT ![r].pc = pc]
    PROVE  /\ Same(r) /\ req'[r].pc = pc
           /\ req'[r].left = req[r].left /\ req'[r].found = req[r].found
           /\ req'[r].home = req[r].home
           /\ \A x \in Reqs : x # r => req'[x] = req[x]
           /\ req' = [x \in Reqs |-> req'[x]]
<1> DEFINE t == [req[r] EXCEPT !.pc = pc]
<1>1. req[r] \in Request
  OBVIOUS
<1>2. /\ t \in Request /\ t.pc = pc /\ t.op = req[r].op /\ t.session = req[r].session
      /\ t.graph = req[r].graph /\ t.found = req[r].found /\ t.left = req[r].left
      /\ t.acked = req[r].acked /\ t.home = req[r].home
  BY <1>1 DEF Request
<1>3. req' = [req EXCEPT ![r] = t]
  OBVIOUS
<1> HIDE DEF t
<1> QED
  BY <1>2, <1>3 DEF Same

LEMMA TaskEnds ==
    ASSUME req \in [Reqs -> Request], snap \in [Reqs -> Task], NEW r \in Reqs,
           NEW answer \in {"ok", "refused", "failed"}, EndTask(r, answer)
    PROVE  /\ req' = [x \in Reqs |-> req'[x]] /\ \A x \in Reqs : x # r => req'[x] = req[x]
           /\ req[r].pc # "snapshot" => req' = req
           /\ req[r].pc = "snapshot" =>
                 /\ Same(r) /\ req'[r].pc = answer
                 /\ req'[r].left = req[r].left /\ req'[r].found = req[r].found
                 /\ req'[r].home = req[r].home
           /\ snap'[r] \in Task /\ snap'[r].pc = "done" /\ snap'[r].session = snap[r].session
           /\ snap'[r].graph = snap[r].graph
           /\ \A x \in Reqs : x # r => snap'[x] = snap[x]
           /\ snap' = [x \in Reqs |-> snap'[x]]
<1>1. /\ req' = [x \in Reqs |-> req'[x]] /\ \A x \in Reqs : x # r => req'[x] = req[x]
      /\ req[r].pc # "snapshot" => req' = req
      /\ req[r].pc = "snapshot" =>
            /\ Same(r) /\ req'[r].pc = answer
            /\ req'[r].left = req[r].left /\ req'[r].found = req[r].found
            /\ req'[r].home = req[r].home
  BY NewPc DEF EndTask
<1> DEFINE t == [snap[r] EXCEPT !.pc = "done"]
<1>2. snap[r] \in Task
  OBVIOUS
<1>3. t \in Task /\ t.pc = "done" /\ t.session = snap[r].session /\ t.graph = snap[r].graph
  BY <1>2 DEF Task
<1>4. snap' = [snap EXCEPT ![r] = t]
  BY DEF EndTask
<1> HIDE DEF t
<1> QED
  BY <1>1, <1>3, <1>4

LEMMA ErasesOne ==
    ASSUME TypeOK, NEW r \in Reqs, Erase(r) \/ EraseFails(r)
    PROVE  /\ req' = [x \in Reqs |-> req'[x]] /\ \A x \in Reqs : x # r => req'[x] = req[x]
           /\ Erases(r)
<1> DEFINE Shape == req' = [x \in Reqs |-> req'[x]]
<1>9. req \in [Reqs -> Request]
  BY DEF TypeOK
<1>0. req[r] \in Request /\ req[r].pc # "lost"
  BY DEF TypeOK, Erase, EraseFails
<1>1. ASSUME NEW x \in req[r].left, NEW pc \in {"ok", req[r].pc}, NEW home \in {None, req[r].home},
             req' = [req EXCEPT ![r] = [req[r] EXCEPT !.left = req[r].left \ {x}, !.pc = pc,
                                                      !.home = home]]
      PROVE  /\ Shape /\ \A y \in Reqs : y # r => req'[y] = req[y]
             /\ Same(r) /\ req'[r].found = req[r].found
             /\ req'[r].left = req[r].left \ {x} /\ req'[r].pc = pc /\ req'[r].home = home
  <2> DEFINE t == [req[r] EXCEPT !.left = req[r].left \ {x}, !.pc = pc, !.home = home]
  <2>1. /\ t \in Request /\ t.pc = pc /\ t.op = req[r].op /\ t.session = req[r].session
        /\ t.graph = req[r].graph /\ t.found = req[r].found
        /\ t.left = req[r].left \ {x} /\ t.acked = req[r].acked /\ t.home = home
    BY <1>0 DEF Request
  <2>2. req' = [req EXCEPT ![r] = t]
    BY <1>1
  <2> HIDE DEF t
  <2> QED
    BY <1>9, <2>1, <2>2 DEF Same
<1>2. CASE Erase(r)
  <2>1. PICK x \in req[r].left :
           /\ doc' = IF x = "graph" THEN [doc EXCEPT ![impl][req[r].session] = NoDoc] ELSE doc
           /\ audit' = IF x = "audit" THEN {e \in audit : e.session # req[r].session} ELSE audit
           /\ req' = [req EXCEPT ![r] = [req[r] EXCEPT !.left = req[r].left \ {x},
                         !.pc = IF req[r].left = {x} THEN "ok" ELSE req[r].pc]]
    BY <1>2 DEF Erase
  <2> DEFINE pc == IF req[r].left = {x} THEN "ok" ELSE req[r].pc
  <2>2. pc \in {"ok", req[r].pc}
    OBVIOUS
  <2>3. [req[r] EXCEPT !.left = req[r].left \ {x}, !.pc = pc]
           = [req[r] EXCEPT !.left = req[r].left \ {x}, !.pc = pc, !.home = req[r].home]
    BY <1>0 DEF Request
  <2>5. req' = [req EXCEPT ![r] = [req[r] EXCEPT !.left = req[r].left \ {x}, !.pc = pc,
                                                !.home = req[r].home]]
    BY <2>1, <2>3
  <2>4. /\ Shape /\ \A y \in Reqs : y # r => req'[y] = req[y]
        /\ Same(r) /\ req'[r].found = req[r].found
        /\ req'[r].left = req[r].left \ {x} /\ req'[r].pc = pc /\ req'[r].home = req[r].home
    <3> HIDE DEF pc, Shape
    <3> QED
      BY <1>1, <2>2, <2>5
  <2> QED
    BY <1>0, <1>2, <2>1, <2>4 DEF Erases
<1>3. CASE EraseFails(r)
  <2>1. PICK x \in req[r].left :
           req' = [req EXCEPT ![r] = [req[r] EXCEPT !.left = req[r].left \ {x}, !.pc = "ok",
                                                    !.home = None]]
    BY <1>3 DEF EraseFails
  <2>2. /\ Shape /\ \A y \in Reqs : y # r => req'[y] = req[y]
        /\ Same(r) /\ req'[r].found = req[r].found
        /\ req'[r].left = req[r].left \ {x} /\ req'[r].pc = "ok" /\ req'[r].home = None
    <3> HIDE DEF Shape
    <3> QED
      BY <1>1, <2>1
  <2> QED
    BY <1>0, <1>3, <2>1, <2>2 DEF Erases
<1> QED
  BY <1>2, <1>3

LEMMA ReqsMove ==
    ASSUME TypeOK, [Next]_vars
    PROVE  req' = [r \in Reqs |-> req'[r]] /\ \A r \in Reqs : ReqMoves(r)
<1> DEFINE Shape == req' = [r \in Reqs |-> req'[r]]
<1>0. req \in [Reqs -> Request] /\ snap \in [Reqs -> Task]
  BY DEF TypeOK
<1>1. CASE UNCHANGED req
  BY <1>0, <1>1 DEF ReqMoves
<1>2. ASSUME NEW r \in Reqs, Begin(r) PROVE Shape /\ \A x \in Reqs : ReqMoves(x)
  <2>1. PICK t : Started(t) /\ req' = [req EXCEPT ![r] = t] /\ Triggered(r, t)
    BY <1>2, BeginStarts
  <2>2. Arrive(r) /\ req[r].pc = "idle" /\ UNCHANGED <<doc, audit, written>>
    BY <1>2, BeginStarts DEF Arrive
  <2>3. Shape /\ req'[r] = t /\ \A x \in Reqs : x # r => req'[x] = req[x]
    BY <1>0, <2>1
  <2> QED
    BY <2>1, <2>2, <2>3 DEF ReqMoves
<1>3. ASSUME NEW r \in Reqs, NEW pc \in {"auditUpsert", "auditAppend", "ok", "failed"},
             req' = [req EXCEPT ![r].pc = pc],
             \/ req[r].pc = "write" /\ pc = "auditUpsert" /\ StoreMongo(r)
             \/ req[r].pc = "write" /\ pc = "ok" /\ StorePostgres(r)
             \/ req[r].pc = "auditUpsert" /\ pc = "auditAppend" /\ AuditUpsert(r)
             \/ req[r].pc = "auditAppend" /\ pc = "ok" /\ AuditAppend(r)
             \/ /\ req[r].pc \in {"version", "write", "auditUpsert", "auditAppend"}
                /\ pc = "failed" /\ Fail(r)
      PROVE  Shape /\ \A x \in Reqs : ReqMoves(x)
  <2>1. Answers(r) /\ Shape /\ \A x \in Reqs : x # r => req'[x] = req[x]
    BY <1>0, <1>3, NewPc DEF Answers
  <2> QED
    BY <2>1 DEF ReqMoves
<1>4. ASSUME NEW r \in Reqs, StoreMongo(r) \/ StorePostgres(r) \/ AuditUpsert(r) \/ AuditAppend(r) \/ Fail(r)
      PROVE  Shape /\ \A x \in Reqs : ReqMoves(x)
  <2>1. CASE StoreMongo(r)
    BY <1>3, <2>1 DEF StoreMongo
  <2>2. CASE StorePostgres(r)
    BY <1>3, <2>2 DEF StorePostgres
  <2>3. CASE AuditUpsert(r)
    BY <1>3, <2>3 DEF AuditUpsert
  <2>4. CASE AuditAppend(r)
    BY <1>3, <2>4 DEF AuditAppend
  <2>5. CASE Fail(r)
    BY <1>3, <2>5 DEF Fail
  <2> QED
    BY <1>4, <2>1, <2>2, <2>3, <2>4, <2>5
<1>5. ASSUME NEW r \in Reqs, NEW answer \in {"ok", "refused", "failed"}, EndTask(r, answer),
             snap[r].pc \in {"load", "write"}
      PROVE  Shape /\ \A x \in Reqs : ReqMoves(x)
  BY <1>0, <1>5, TaskEnds DEF ReqMoves, Answers
<1>6. ASSUME NEW r \in Reqs, SnapLoad(r) \/ SnapWrite(r) \/ SnapFails(r)
      PROVE  Shape /\ \A x \in Reqs : ReqMoves(x)
  BY <1>1, <1>5, <1>6 DEF SnapLoad, SnapWrite, SnapFails
<1>7. ASSUME NEW r \in Reqs, FindVersion(r) PROVE Shape /\ \A x \in Reqs : ReqMoves(x)
  <2> DEFINE t == [req[r] EXCEPT !.pc = "write", !.found = doc["mongo"][req[r].session]]
  <2>1. req[r] \in Request /\ req[r].pc = "version" /\ doc["mongo"][req[r].session] \in Graph
    BY <1>7 DEF TypeOK, FindVersion
  <2>2. /\ t \in Request /\ t.pc = "write" /\ t.op = req[r].op /\ t.session = req[r].session
        /\ t.graph = req[r].graph /\ t.found = doc["mongo"][req[r].session]
        /\ t.left = req[r].left /\ t.acked = req[r].acked /\ t.home = req[r].home
    BY <2>1 DEF Request
  <2>3. req' = [req EXCEPT ![r] = t]
    BY <1>7 DEF FindVersion
  <2> HIDE DEF t
  <2>4. Finds(r) /\ Shape /\ \A x \in Reqs : x # r => req'[x] = req[x]
    BY <1>0, <1>7, <2>1, <2>2, <2>3 DEF Finds, Same
  <2> QED
    BY <2>4 DEF ReqMoves
<1>8. ASSUME NEW r \in Reqs, Erase(r) \/ EraseFails(r) PROVE Shape /\ \A x \in Reqs : ReqMoves(x)
  BY <1>8, ErasesOne DEF ReqMoves
<1>9. ASSUME Crash PROVE Shape /\ \A x \in Reqs : ReqMoves(x)
  <2>1. req' = [r \in Reqs |-> IF r \in InFlight \/ req[r].left # {}
             THEN [req[r] EXCEPT !.pc = "lost", !.left = {}] ELSE req[r]]
    BY <1>9 DEF Crash
  <2>2. ASSUME NEW r \in Reqs, r \in InFlight \/ req[r].left # {} PROVE Lost(r)
    <3> DEFINE t == [req[r] EXCEPT !.pc = "lost", !.left = {}]
    <3>1. req[r] \in Request
      BY <1>0
    <3>2. /\ t \in Request /\ t.pc = "lost" /\ t.op = req[r].op /\ t.session = req[r].session
          /\ t.graph = req[r].graph /\ t.found = req[r].found
          /\ t.left = {} /\ t.acked = req[r].acked /\ t.home = req[r].home
      BY <3>1 DEF Request
    <3>3. req'[r] = t
      BY <2>1, <2>2
    <3> HIDE DEF t
    <3> QED
      BY <1>9, <2>2, <3>2, <3>3 DEF Lost, Same
  <2>3. \A r \in Reqs : ~(r \in InFlight \/ req[r].left # {}) => req'[r] = req[r]
    BY <2>1
  <2> QED
    BY <2>1, <2>2, <2>3 DEF ReqMoves
<1> QED
  BY <1>1, <1>2, <1>4, <1>6, <1>7, <1>8, <1>9 DEF Next, Step, PingMongo, Environment, vars

\* The stores after a step, session by session.
DocMoves(b, s) ==
    \/ doc'[b][s] = doc[b][s]
    \/ \E r \in Reqs :
          /\ req[r].session = s /\ impl = b
          /\ \/ /\ StoreMongo(r) /\ b = "mongo" /\ req[r].pc = "write"
                /\ doc'[b][s] = [nodes |-> NextNodes(r), version |-> NextVersion(r)]
                /\ written' = written \union {[session |-> s, graph |-> doc'[b][s]]}
             \/ /\ StorePostgres(r) /\ b = "postgres" /\ req[r].pc = "write"
                /\ doc'[b][s] = [nodes |-> NextNodes(r), version |-> 0]
             \/ Erase(r) /\ Erases(r) /\ doc'[b][s] = NoDoc

LEMMA DocsMove ==
    ASSUME TypeInv, [Next]_vars
    PROVE  /\ doc' = [b \in Stores |-> [s \in Sessions |-> doc'[b][s]]]
           /\ \A b \in Stores, s \in Sessions : DocMoves(b, s)
<1> DEFINE Shape == doc' = [b \in Stores |-> [s \in Sessions |-> doc'[b][s]]]
           Goal == Shape /\ \A b \in Stores, s \in Sessions : DocMoves(b, s)
<1>0. doc \in [Stores -> [Sessions -> Graph]]
  BY DEF TypeInv, TypeOK, Stores
<1>1. UNCHANGED doc => Goal
  BY <1>0 DEF DocMoves
<1>2. ASSUME NEW r \in Reqs, StoreMongo(r) PROVE Goal
  <2>1. req[r].session \in Sessions /\ req[r].pc = "write" /\ impl = "mongo"
    BY <1>2 DEF TypeInv, TypeOK, StoreMongo
  <2> DEFINE s == req[r].session
             g == [nodes |-> NextNodes(r), version |-> NextVersion(r)]
  <2>2. doc' = [doc EXCEPT !["mongo"][s] = g] /\ written' = written \union {[session |-> s, graph |-> g]}
    BY <1>2 DEF StoreMongo
  <2>3. Shape /\ doc'["mongo"][s] = g
        /\ \A b \in Stores, x \in Sessions : b # "mongo" \/ x # s => doc'[b][x] = doc[b][x]
    <3> HIDE DEF g
    <3> QED
      BY <1>0, <2>1, <2>2 DEF Stores
  <2> QED
    BY <1>2, <2>1, <2>2, <2>3 DEF DocMoves
<1>3. ASSUME NEW r \in Reqs, StorePostgres(r) PROVE Goal
  <2>1. req[r].session \in Sessions /\ req[r].pc = "write" /\ impl = "postgres"
    BY <1>3 DEF TypeInv, TypeOK, StorePostgres
  <2> DEFINE s == req[r].session
             g == [nodes |-> NextNodes(r), version |-> 0]
  <2>2. doc' = [doc EXCEPT !["postgres"][s] = g]
    BY <1>3 DEF StorePostgres
  <2>3. Shape /\ doc'["postgres"][s] = g
        /\ \A b \in Stores, x \in Sessions : b # "postgres" \/ x # s => doc'[b][x] = doc[b][x]
    <3> HIDE DEF g
    <3> QED
      BY <1>0, <2>1, <2>2 DEF Stores
  <2> QED
    BY <1>3, <2>1, <2>2, <2>3 DEF DocMoves
<1>4. ASSUME NEW r \in Reqs, Erase(r) PROVE Goal
  <2>1. req[r].left # {}
    BY <1>4 DEF Erase
  <2>2. req[r].session \in Sessions /\ impl \in Stores
    BY <2>1, IdleType DEF TypeInv, TypeOK, Held, Stores
  <2> DEFINE s == req[r].session
  <2>3. doc' = [doc EXCEPT ![impl][s] = NoDoc] \/ doc' = doc
    BY <1>4 DEF Erase
  <2>4. Erases(r)
    BY <1>4, ErasesOne DEF TypeInv
  <2> QED
    BY <1>0, <1>4, <2>2, <2>3, <2>4 DEF DocMoves
<1>5. UNCHANGED doc \/ \E r \in Reqs : StoreMongo(r) \/ StorePostgres(r) \/ Erase(r)
  BY BeginStarts DEF TypeInv, Next, Step, FindVersion, AuditUpsert, AuditAppend, SnapLoad, SnapWrite,
     Fail, EraseFails, SnapFails, PingMongo, Environment, Crash, vars
<1> QED
  BY <1>1, <1>2, <1>3, <1>4, <1>5

\* The snapshot of a request after a step.
SnapMoves(r) ==
    \/ snap'[r] = snap[r]
    \/ /\ snap'[r] \in Task /\ snap'[r].pc = "load" /\ snap'[r].session \in Sessions
       /\ snap'[r].graph = NoDoc
       /\ \/ /\ req[r].pc = "idle" /\ req'[r].pc = "snapshot" /\ impl' = "mongo"
             /\ snap'[r].session = req'[r].session /\ snap'[r].trigger = "manual"
          \/ /\ AuditAppend(r) /\ Milestone(NextVersion(r))
             /\ snap'[r].session = req[r].session /\ snap'[r].trigger = "auto"
    \/ /\ snap'[r] \in Task /\ snap'[r].session = snap[r].session /\ UNCHANGED <<req, doc, written>>
       /\ snap[r].pc = "load" /\ snap'[r].pc = "write"
       /\ snap'[r].graph = doc["mongo"][snap[r].session] /\ snap'[r].graph # NoDoc
    \/ /\ snap'[r] \in Task /\ snap'[r].session = snap[r].session
       /\ snap[r].pc # "none" /\ snap'[r].pc = "done" /\ snap'[r].graph = snap[r].graph

LEMMA SnapsMove ==
    ASSUME TypeInv, [Next]_vars
    PROVE  snap' = [r \in Reqs |-> snap'[r]] /\ \A r \in Reqs : SnapMoves(r)
<1> DEFINE Shape == snap' = [r \in Reqs |-> snap'[r]]
           Goal == Shape /\ \A r \in Reqs : SnapMoves(r)
<1>0. req \in [Reqs -> Request] /\ snap \in [Reqs -> Task]
  BY DEF TypeInv, TypeOK
<1>1. UNCHANGED snap => Goal
  BY <1>0 DEF SnapMoves
<1>2. ASSUME NEW r \in Reqs, Begin(r) PROVE Goal
  <2>1. PICK t : Started(t) /\ req' = [req EXCEPT ![r] = t] /\ Triggered(r, t)
    BY <1>2, BeginStarts DEF TypeInv
  <2>2. CASE UNCHANGED snap
    BY <1>1, <2>2
  <2>3. CASE t.op = "snapshot" /\ impl' = "mongo"
    <3> DEFINE k == [NoTask EXCEPT !.pc = "load", !.session = t.session]
    <3>1. snap' = [snap EXCEPT ![r] = k]
      BY <2>1, <2>3 DEF Triggered
    <3>2. k \in Task /\ k.pc = "load" /\ k.session = t.session /\ k.trigger = "manual"
          /\ k.graph = NoDoc
      BY <2>1, TaskType DEF Started, NoTask, Task
    <3>3. req[r].pc = "idle" /\ req'[r] = t /\ t.pc = "snapshot" /\ t.session \in Sessions
      BY <1>0, <1>2, <2>1, <2>3, BeginStarts DEF Started, Arrive, TypeInv
    <3> HIDE DEF k
    <3>4. Shape /\ snap'[r] = k /\ \A x \in Reqs : x # r => snap'[x] = snap[x]
      BY <1>0, <3>1
    <3> QED
      BY <2>3, <3>2, <3>3, <3>4 DEF SnapMoves
  <2> QED
    BY <2>1, <2>2, <2>3 DEF Triggered
<1>3. ASSUME NEW r \in Reqs, AuditAppend(r) PROVE Goal
  <2>1. CASE UNCHANGED snap
    BY <1>1, <2>1
  <2>2. CASE Milestone(NextVersion(r)) /\ ~UNCHANGED snap
    <3> DEFINE k == [NoTask EXCEPT !.pc = "load", !.trigger = "auto", !.session = req[r].session]
    <3>1. snap' = [snap EXCEPT ![r] = k]
      BY <1>3, <2>2 DEF AuditAppend
    <3>2. req[r].session \in Sessions
      BY <1>3 DEF TypeInv, TypeOK, AuditAppend
    <3>3. k \in Task /\ k.pc = "load" /\ k.session = req[r].session /\ k.trigger = "auto"
          /\ k.graph = NoDoc
      BY <3>2, TaskType DEF NoTask, Task
    <3> HIDE DEF k
    <3>4. Shape /\ snap'[r] = k /\ \A x \in Reqs : x # r => snap'[x] = snap[x]
      BY <1>0, <3>1
    <3> QED
      BY <1>3, <2>2, <3>2, <3>3, <3>4 DEF SnapMoves
  <2> QED
    BY <1>3, <2>1, <2>2 DEF AuditAppend
<1>4. ASSUME NEW r \in Reqs, NEW answer \in {"ok", "refused", "failed"}, EndTask(r, answer),
             snap[r].pc # "none"
      PROVE  Goal
  BY <1>0, <1>4, TaskEnds DEF SnapMoves
<1>5. ASSUME NEW r \in Reqs, SnapLoad(r) PROVE Goal
  <2> DEFINE kept == doc["mongo"][snap[r].session]
  <2>1. CASE EndTask(r, "refused")
    BY <1>4, <1>5, <2>1 DEF SnapLoad
  <2>2. CASE kept # NoDoc /\ UNCHANGED req /\ snap' = [snap EXCEPT ![r] = [@ EXCEPT !.pc = "write", !.graph = kept]]
    <3> DEFINE k == [snap[r] EXCEPT !.pc = "write", !.graph = kept]
    <3>1. snap[r] \in Task /\ snap[r].pc = "load" /\ kept \in Graph
      BY <1>0, <1>5 DEF SnapLoad, TypeInv, TypeOK, Held
    <3>2. /\ k \in Task /\ k.pc = "write" /\ k.session = snap[r].session
          /\ k.graph = kept
      BY <3>1 DEF Task
    <3>3. snap' = [snap EXCEPT ![r] = k]
      BY <2>2
    <3> HIDE DEF k
    <3>4. Shape /\ snap'[r] = k /\ \A x \in Reqs : x # r => snap'[x] = snap[x]
      BY <1>0, <3>3
    <3> QED
      BY <1>5, <2>2, <3>1, <3>2, <3>4 DEF SnapMoves, SnapLoad
  <2> QED
    BY <1>5, <2>1, <2>2 DEF SnapLoad
<1>6. ASSUME NEW r \in Reqs, SnapWrite(r) \/ SnapFails(r) PROVE Goal
  BY <1>4, <1>6 DEF SnapWrite, SnapFails
<1>7. ASSUME Crash PROVE Goal
  <2>1. snap' = [r \in Reqs |-> IF snap[r].pc = "none" THEN snap[r] ELSE [snap[r] EXCEPT !.pc = "done"]]
    BY <1>7 DEF Crash
  <2>2. ASSUME NEW r \in Reqs, snap[r].pc # "none" PROVE SnapMoves(r)
    <3> DEFINE k == [snap[r] EXCEPT !.pc = "done"]
    <3>1. snap[r] \in Task
      BY <1>0
    <3>2. k \in Task /\ k.pc = "done" /\ k.session = snap[r].session /\ k.graph = snap[r].graph
      BY <3>1 DEF Task
    <3>3. snap'[r] = k
      BY <2>1, <2>2
    <3> HIDE DEF k
    <3> QED
      BY <2>2, <3>2, <3>3 DEF SnapMoves
  <2>3. \A r \in Reqs : snap[r].pc = "none" => snap'[r] = snap[r]
    BY <2>1
  <2> QED
    BY <2>1, <2>2, <2>3 DEF SnapMoves
<1>8. \/ UNCHANGED snap
      \/ \E r \in Reqs : \/ Begin(r) \/ AuditAppend(r) \/ SnapLoad(r)
                         \/ SnapWrite(r) \/ SnapFails(r)
      \/ Crash
  BY DEF Next, Step, FindVersion, StoreMongo, StorePostgres, AuditUpsert, Erase,
     Fail, EraseFails, PingMongo, Environment, vars
<1> QED
  BY <1>1, <1>2, <1>3, <1>5, <1>6, <1>7, <1>8

\* What a step does to the audit.
Audited(e, r) ==
    /\ e \in Entry /\ e.by = r
    /\ \/ /\ AuditUpsert(r) /\ req[r].pc = "auditUpsert" /\ e.session = req[r].session
          /\ e.action \in {"create", "replace"} /\ e.after = NextVersion(r) /\ e.nodes = <<>>
       \/ /\ AuditAppend(r) /\ req[r].pc = "auditAppend" /\ e.session = req[r].session
          /\ e.action = "append" /\ e.after = NextVersion(r) /\ e.nodes = <<>>
       \/ /\ SnapWrite(r) /\ snap[r].pc = "write" /\ e.session = snap[r].session
          /\ e.action \in {"manual", "auto"} /\ e.after = snap[r].graph.version
          /\ e.nodes = snap[r].graph.nodes

Expunged(r) ==
    /\ Erases(r) /\ "audit" \in req[r].left
    /\ audit' = {e \in audit : e.session # req[r].session}

LEMMA AuditMoves ==
    ASSUME TypeInv, [Next]_vars
    PROVE  \/ audit' = audit /\ ~(\E r \in Reqs : AuditUpsert(r) \/ AuditAppend(r))
           \/ \E r \in Reqs : \E e : audit' = audit \union {e} /\ Audited(e, r)
           \/ \E r \in Reqs : Expunged(r)
<1> DEFINE Goal == \/ audit' = audit /\ ~(\E r \in Reqs : AuditUpsert(r) \/ AuditAppend(r))
                   \/ \E r \in Reqs : \E e : audit' = audit \union {e} /\ Audited(e, r)
                   \/ \E r \in Reqs : Expunged(r)
<1>1. ASSUME NEW r \in Reqs, AuditUpsert(r) PROVE Goal
  <2> DEFINE e == [session |-> req[r].session, by |-> r,
             action |-> IF req[r].found = NoDoc THEN "create" ELSE "replace",
             before |-> req[r].found.version, after |-> NextVersion(r), nodes |-> <<>>]
  <2>1. req[r].session \in Sessions /\ req[r].found.version \in Nat /\ req[r].pc = "auditUpsert"
    BY <1>1 DEF TypeInv, TypeOK, AuditUpsert, Request, Graph
  <2>2. NextVersion(r) \in Nat /\ <<>> \in Seq(Reqs)
    <3>1. <<>> \in Seq(Reqs)
      OBVIOUS
    <3> QED
      BY <3>1, NextType DEF TypeInv
  <2>3. /\ e \in Entry /\ e.by = r /\ e.session = req[r].session
        /\ e.action \in {"create", "replace"} /\ e.after = NextVersion(r) /\ e.nodes = <<>>
    BY <2>1, <2>2 DEF Entry
  <2>4. audit' = audit \union {e}
    BY <1>1 DEF AuditUpsert
  <2> HIDE DEF e
  <2> QED
    BY <1>1, <2>1, <2>3, <2>4 DEF Audited
<1>2. ASSUME NEW r \in Reqs, AuditAppend(r) PROVE Goal
  <2> DEFINE e == [session |-> req[r].session, by |-> r, action |-> "append",
             before |-> req[r].graph.version, after |-> NextVersion(r), nodes |-> <<>>]
  <2>1. req[r].session \in Sessions /\ req[r].graph.version \in Nat /\ req[r].pc = "auditAppend"
    BY <1>2 DEF TypeInv, TypeOK, AuditAppend, Request, Graph
  <2>2. NextVersion(r) \in Nat /\ <<>> \in Seq(Reqs)
    <3>1. <<>> \in Seq(Reqs)
      OBVIOUS
    <3> QED
      BY <3>1, NextType DEF TypeInv
  <2>3. /\ e \in Entry /\ e.by = r /\ e.session = req[r].session
        /\ e.action = "append" /\ e.after = NextVersion(r) /\ e.nodes = <<>>
    BY <2>1, <2>2 DEF Entry
  <2>4. audit' = audit \union {e}
    BY <1>2 DEF AuditAppend
  <2> HIDE DEF e
  <2> QED
    BY <1>2, <2>1, <2>3, <2>4 DEF Audited
<1>3. ASSUME NEW r \in Reqs, SnapWrite(r) PROVE Goal
  <2> DEFINE e == [session |-> snap[r].session, by |-> r, action |-> snap[r].trigger,
             before |-> 0, after |-> snap[r].graph.version, nodes |-> snap[r].graph.nodes]
  <2>1. /\ snap[r].session \in Sessions /\ snap[r].trigger \in {"manual", "auto"} /\ snap[r].pc = "write"
        /\ snap[r].graph.version \in Nat /\ snap[r].graph.nodes \in Seq(Reqs)
    BY <1>3 DEF TypeInv, TypeOK, Held, SnapWrite, Task, Graph
  <2>2. e \in Entry
    BY <2>1 DEF Entry
  <2> QED
    BY <1>3, <2>1, <2>2 DEF SnapWrite, Audited
<1>4. ASSUME NEW r \in Reqs, Erase(r), ~(\E x \in Reqs : AuditUpsert(x) \/ AuditAppend(x)) PROVE Goal
  <2>1. Erases(r)
    BY <1>4, ErasesOne DEF TypeInv
  <2>2. PICK x \in req[r].left :
           audit' = IF x = "audit" THEN {e \in audit : e.session # req[r].session} ELSE audit
    BY <1>4 DEF Erase
  <2> QED
    BY <1>4, <2>1, <2>2 DEF Expunged
<1>5. audit' = audit \/ \E r \in Reqs : AuditUpsert(r) \/ AuditAppend(r) \/ SnapWrite(r) \/ Erase(r)
  BY BeginStarts DEF TypeInv, Next, Step, FindVersion, StoreMongo, StorePostgres, SnapLoad,
     Fail, EraseFails, SnapFails, PingMongo, Environment, Crash, vars
<1> QED
  BY <1>1, <1>2, <1>3, <1>4, <1>5

\* What a step stores in Mongo.
LEMMA WrittenMoves ==
    ASSUME TypeInv, [Next]_vars
    PROVE  \/ written' = written
           \/ \E r \in Reqs :
                 /\ StoreMongo(r) /\ req[r].pc = "write" /\ req[r].session \in Sessions
                 /\ written' = written \union {[session |-> req[r].session,
                       graph |-> [nodes |-> NextNodes(r), version |-> NextVersion(r)]]}
<1>1. ASSUME NEW r \in Reqs, StoreMongo(r)
      PROVE  /\ req[r].pc = "write" /\ req[r].session \in Sessions
             /\ written' = written \union {[session |-> req[r].session,
                       graph |-> [nodes |-> NextNodes(r), version |-> NextVersion(r)]]}
  BY <1>1 DEF StoreMongo, TypeInv, TypeOK
<1>2. written' = written \/ \E r \in Reqs : StoreMongo(r)
  BY BeginStarts DEF TypeInv, Next, Step, FindVersion, StorePostgres, AuditUpsert, AuditAppend, SnapLoad,
     SnapWrite, Erase, Fail, EraseFails, SnapFails, PingMongo, Environment, Crash, vars
<1> QED
  BY <1>1, <1>2

LEMMA ImplMoves ==
    ASSUME TypeInv, [Next]_vars
    PROVE  /\ conf' = conf /\ LinkTypeOK' /\ impl' \in {None, "mongo", "postgres"}
           /\ \/ impl' = impl
              \/ impl = None /\ impl' \in Stores
              \/ impl' = None /\ Crash /\ "crash" \in Faults
<1>0. LinkTypeOK /\ impl \in {None, "mongo", "postgres"}
  BY DEF TypeInv, TypeOK
<1>1. conf' = conf
  BY DEF Next, Recorded, vars
<1>2. ASSUME NEW r \in Reqs, Begin(r)
      PROVE LinkTypeOK' /\ impl' \in Stores /\ (impl # None => impl' = impl)
  BY <1>2, BeginStarts, Resolved DEF TypeInv, Arrive
<1>3. GetMongo \/ Blip \/ CloseMongo => LinkTypeOK'
  BY <1>0 DEF LinkTypeOK, GetMongo, Blip, ServerDown, ServerUp, Disconnected, CloseMongo
<1>4. \/ \E r \in Reqs : Begin(r)
      \/ Crash /\ "crash" \in Faults
      \/ impl' = impl /\ (GetMongo \/ Blip \/ UNCHANGED <<up, conn, available>>)
  BY DEF Next, Step, FindVersion, StoreMongo, StorePostgres, AuditUpsert, AuditAppend, SnapLoad,
     SnapWrite, Erase, Fail, EraseFails, SnapFails, PingMongo, Environment, vars
<1>5. Crash => CloseMongo /\ impl' = None
  BY DEF Crash
<1>6. UNCHANGED <<up, conn, available>> => LinkTypeOK'
  BY <1>0 DEF LinkTypeOK
<1> QED
  BY <1>0, <1>1, <1>2, <1>3, <1>4, <1>5, <1>6 DEF Stores

\* Who has met stays noted, and so does everyone who meets in a step.
LEMMA BesideGrows ==
    ASSUME TypeInv, [Next]_vars
    PROVE  /\ beside' \in [Reqs -> SUBSET Reqs] /\ \A r \in Reqs : beside[r] \subseteq beside'[r]
           /\ UNCHANGED vars \/ \A r \in Reqs : Meets(r)' \subseteq beside'[r]
<1>1. beside \in [Reqs -> SUBSET Reqs]
  BY DEF TypeInv, TypeOK
<1>2. CASE UNCHANGED vars
  BY <1>1, <1>2 DEF vars
<1>3. CASE beside' = [r \in Reqs |-> beside[r] \union Meets(r)']
  <2>1. \A r \in Reqs : Meets(r)' \subseteq Reqs
    BY DEF Meets
  <2>2. \A r \in Reqs : beside'[r] = beside[r] \union Meets(r)'
    BY <1>3
  <2> QED
    BY <1>1, <1>3, <2>1, <2>2
<1> QED
  BY <1>2, <1>3 DEF Next, Recorded

LEMMA TypesKept == ASSUME TypeInv, [Next]_vars PROVE TypeInv'
<1>1. conf' \in Configurations /\ LinkTypeOK' /\ impl' \in {None, "mongo", "postgres"}
  BY ImplMoves DEF TypeInv, TypeOK
<1>2. doc' \in [Stores -> [Sessions -> Graph]]
  <2>1. ASSUME NEW b \in Stores, NEW s \in Sessions PROVE doc'[b][s] \in Graph
    <3>1. DocMoves(b, s) /\ doc[b][s] \in Graph
      BY DocsMove DEF TypeInv, TypeOK, Stores
    <3>2. \A r \in Reqs : /\ [nodes |-> NextNodes(r), version |-> NextVersion(r)] \in Graph
                          /\ [nodes |-> NextNodes(r), version |-> 0] \in Graph
      BY NextType DEF TypeInv, Graph
    <3> QED
      BY <3>1, <3>2, GraphType DEF DocMoves
  <2> QED
    BY <2>1, DocsMove
<1>3. audit' \subseteq Entry
  BY AuditMoves DEF Audited, Expunged, TypeInv, TypeOK
<1>4. written' \subseteq [session : Sessions, graph : Graph]
  <2>1. \A r \in Reqs : [nodes |-> NextNodes(r), version |-> NextVersion(r)] \in Graph
    BY NextType DEF TypeInv
  <2> QED
    BY <2>1, WrittenMoves DEF TypeInv, TypeOK
<1>5. ASSUME NEW r \in Reqs
      PROVE  /\ req'[r] \in Request
             /\ req'[r].pc # "idle" => req'[r].session \in Sessions
             /\ req'[r].pc = "idle" => req'[r] = Idle
             /\ req'[r].pc \in {"version", "write", "auditUpsert", "auditAppend"} => req'[r].op = "append"
             /\ req'[r].pc = "snapshot" => req'[r].op = "snapshot"
             /\ req'[r].left # {} => req'[r].op = "purge" /\ impl' # None
             /\ req'[r].pc \in {"version", "write"} => impl' # None
             /\ req'[r].pc = "erase" => req'[r].left # {}
  <2>0. /\ req[r] \in Request
        /\ req[r].pc # "idle" => req[r].session \in Sessions
        /\ req[r].pc = "idle" => req[r] = Idle
        /\ req[r].pc \in {"version", "write", "auditUpsert", "auditAppend"} => req[r].op = "append"
        /\ req[r].pc = "snapshot" => req[r].op = "snapshot"
        /\ req[r].left # {} => req[r].op = "purge" /\ impl # None
        /\ req[r].pc \in {"version", "write"} => impl # None
        /\ req[r].pc = "erase" => req[r].left # {}
    BY DEF TypeInv, TypeOK, Held
  <2>1. ReqMoves(r)
    BY ReqsMove DEF TypeInv
  <2>2. Crash => req'[r].left = {} /\ req'[r].pc \notin {"version", "write"}
    <3>1. [req[r] EXCEPT !.pc = "lost", !.left = {}].left = {}
          /\ [req[r] EXCEPT !.pc = "lost", !.left = {}].pc = "lost"
      BY <2>0 DEF Request
    <3> QED
      BY <3>1 DEF Crash, InFlight, Answered
  <2>3. impl' = impl \/ impl = None \/ Crash
    BY ImplMoves
  <2>4. CASE req'[r] = req[r]
    BY <2>0, <2>2, <2>3, <2>4, ImplMoves, NoneAssumption DEF Stores
  <2>5. CASE req[r].pc = "idle" /\ Started(req'[r]) /\ Arrive(r)
    <3>1. impl' \in Stores /\ Purged(impl') # {}
      BY <2>5, Resolved DEF Arrive, TypeInv, Purged
    <3>2. impl' # None
      BY <3>1, NoneAssumption DEF Stores
    <3> QED
      BY <2>5, <3>1, <3>2 DEF Started
  <2>6. CASE Answers(r)
    BY <2>0, <2>2, <2>3, <2>6, IdleType, ImplMoves, NoneAssumption DEF Answers, Same, Stores
  <2>7. CASE Finds(r)
    BY <2>0, <2>2, <2>3, <2>7, IdleType, ImplMoves, NoneAssumption DEF Finds, Same, Stores
  <2>8. CASE Erases(r)
    BY <2>0, <2>2, <2>3, <2>8, IdleType, ImplMoves, NoneAssumption DEF Erases, Same, Stores
  <2>9. CASE Lost(r)
    BY <2>0, <2>9, IdleType DEF Lost, Same, InFlight, Answered
  <2> QED
    BY <2>1, <2>4, <2>5, <2>6, <2>7, <2>8, <2>9 DEF ReqMoves
<1>6. req' \in [Reqs -> Request]
  BY <1>5, ReqsMove DEF TypeInv
<1>7. ASSUME NEW r \in Reqs
      PROVE  snap'[r] \in Task /\ (snap'[r].pc # "none" => snap'[r].session \in Sessions)
  BY SnapsMove DEF SnapMoves, TypeInv, TypeOK, Held
<1>8. snap' \in [Reqs -> Task]
  BY <1>7, SnapsMove
<1>9. beside' \in [Reqs -> SUBSET Reqs]
  BY BesideGrows
<1> QED
  BY <1>1, <1>2, <1>3, <1>4, <1>5, <1>6, <1>7, <1>8, <1>9 DEF TypeInv, TypeOK, Held, Stores

LEMMA TypesBegin == Init => TypeInv
<1> SUFFICES ASSUME Init PROVE TypeInv
  OBVIOUS
<1>1. LinkTypeOK
  BY DEF Init, LinkInit, LinkTypeOK
<1> QED
  BY <1>1, IdleType, TaskType, GraphType DEF Init, TypeInv, TypeOK, Held

\* Every state is well typed: versions count, graphs hold requests, a task has a session.
THEOREM TypeCorrect == Spec => []TypeOK
<1>1. Init => TypeInv
  BY TypesBegin
<1>2. TypeInv /\ [Next]_vars => TypeInv'
  BY TypesKept
<1>3. TypeInv => TypeOK
  BY DEF TypeInv
<1> QED
  BY <1>1, <1>2, <1>3, PTL DEF Spec

(***************************************************************************)
(* One home                                                                *)
(***************************************************************************)

\* While the process lives, what a session has is where the proxy looks.
Home ==
    "crash" \notin Faults =>
        \A b \in Stores, s \in Sessions : doc[b][s] # NoDoc => impl = b

LEMMA HomeKept == ASSUME TypeInv, Home, [Next]_vars PROVE Home'
<1>1. conf' = conf /\ (impl' = impl \/ impl = None \/ Crash)
  BY ImplMoves
<1> SUFFICES ASSUME "crash" \notin Faults, NEW b \in Stores, NEW s \in Sessions, doc'[b][s] # NoDoc
               PROVE  impl' = b
  BY <1>1 DEF Home, Faults
<1>3. impl # None => impl' = impl
  BY ImplMoves
<1>4. DocMoves(b, s)
  BY DocsMove
<1>5. b # None
  BY NoneAssumption DEF Stores
<1>6. doc[b][s] # NoDoc \/ impl = b
  BY <1>4 DEF DocMoves
<1>7. impl = b
  BY <1>6 DEF Home
<1> QED
  BY <1>3, <1>5, <1>7

\* A session has its graph in one of the two stores as long as the process lives:
\* resolve() of intent-map.repository.ts is latched.
THEOREM SessionsHaveOneHome == Spec => []OneHome
<1>1. Init => TypeInv /\ Home
  BY TypesBegin DEF Init, Home, Stores
<1>2. (TypeInv /\ Home) /\ [Next]_vars => (TypeInv /\ Home)'
  BY TypesKept, HomeKept
<1>3. TypeInv /\ Home => OneHome
  BY DEF Home, OneHome, Stores
<1> QED
  BY <1>1, <1>2, <1>3, PTL DEF Spec

(***************************************************************************)
(* The timeline                                                            *)
(***************************************************************************)

\* Whatever Mongo keeps, a task holds, or a request has yet to note, was stored.
Truthful ==
    /\ \A s \in Sessions : doc["mongo"][s] # NoDoc =>
          [session |-> s, graph |-> doc["mongo"][s]] \in written
    /\ \A r \in Reqs : snap[r].pc = "write" =>
          [session |-> snap[r].session, graph |-> snap[r].graph] \in written
    /\ \A r \in Reqs : req[r].pc \in {"auditUpsert", "auditAppend"} =>
          [session |-> req[r].session,
           graph |-> [nodes |-> NextNodes(r), version |-> NextVersion(r)]] \in written

LEMMA WrittenGrows == ASSUME TypeInv, [Next]_vars PROVE written \subseteq written'
BY WrittenMoves

LEMMA TruthfulKept == ASSUME TypeInv, Truthful, [Next]_vars PROVE Truthful'
<1>1. ASSUME NEW s \in Sessions, doc'["mongo"][s] # NoDoc
      PROVE  [session |-> s, graph |-> doc'["mongo"][s]] \in written'
  <2>1. DocMoves("mongo", s)
    BY DocsMove DEF Stores
  <2>2. CASE doc'["mongo"][s] = doc["mongo"][s]
    BY <1>1, <2>2, WrittenGrows DEF Truthful
  <2>3. CASE written' = written \union {[session |-> s, graph |-> doc'["mongo"][s]]}
    BY <2>3
  <2> QED
    BY <1>1, <2>1, <2>2, <2>3 DEF DocMoves
<1>2. ASSUME NEW r \in Reqs, snap'[r].pc = "write"
      PROVE  [session |-> snap'[r].session, graph |-> snap'[r].graph] \in written'
  <2>1. SnapMoves(r)
    BY SnapsMove
  <2>2. CASE snap'[r] = snap[r]
    BY <1>2, <2>2, WrittenGrows DEF Truthful
  <2>3. CASE /\ snap[r].pc = "load" /\ snap'[r].session = snap[r].session
             /\ snap'[r].graph = doc["mongo"][snap[r].session] /\ snap'[r].graph # NoDoc
    <3>1. snap[r].session \in Sessions
      BY <2>3 DEF TypeInv, Held
    <3> QED
      BY <2>3, <3>1, WrittenGrows DEF Truthful
  <2> QED
    BY <1>2, <2>1, <2>2, <2>3 DEF SnapMoves
<1>3. ASSUME NEW r \in Reqs, req'[r].pc \in {"auditUpsert", "auditAppend"}
      PROVE  [session |-> req'[r].session,
              graph |-> [nodes |-> Append(req'[r].graph.nodes, r),
                         version |-> req'[r].found.version + 1]] \in written'
  <2> DEFINE w == [session |-> req[r].session,
                   graph |-> [nodes |-> NextNodes(r), version |-> NextVersion(r)]]
  <2>1. /\ w \in written'
        /\ req'[r].session = req[r].session /\ req'[r].graph = req[r].graph
        /\ req'[r].found = req[r].found
    <3>1. ReqMoves(r)
      BY ReqsMove DEF TypeInv
    <3>2. CASE req'[r] = req[r]
      BY <1>3, <3>2, WrittenGrows DEF Truthful
    <3>3. CASE Answers(r) /\ StoreMongo(r)
      BY <3>3 DEF Answers, Same, StoreMongo
    <3>4. CASE Answers(r) /\ req[r].pc \in {"auditUpsert", "auditAppend"}
      BY <3>4, WrittenGrows DEF Answers, Same, Truthful
    <3>5. CASE Erases(r)
      <4>1. req[r].pc = req'[r].pc
        BY <1>3, <3>5 DEF Erases
      <4> QED
        BY <1>3, <3>5, <4>1, WrittenGrows DEF Erases, Same, Truthful
    <3> HIDE DEF w
    <3> QED
      BY <1>3, <3>1, <3>2, <3>3, <3>4, <3>5 DEF ReqMoves, Answers, Started, Finds, Lost
  <2> QED
    BY <2>1 DEF NextNodes, NextVersion
<1> QED
  BY <1>1, <1>2, <1>3 DEF Truthful, NextNodes, NextVersion

LEMMA AuditKept == ASSUME TypeInv, Truthful, AuditTrue, [Next]_vars PROVE AuditTrue'
<1> SUFFICES ASSUME NEW e \in audit'
             PROVE  IF e.action \in {"manual", "auto"}
                      THEN [session |-> e.session,
                            graph |-> [nodes |-> e.nodes, version |-> e.after]] \in written'
                      ELSE \E w \in written' : /\ w.session = e.session
                                               /\ w.graph.version = e.after
                                               /\ Last(w.graph.nodes) = e.by
  BY DEF AuditTrue
<1>1. CASE e \in audit
  BY <1>1, WrittenGrows DEF AuditTrue
<1>2. ASSUME NEW r \in Reqs, Audited(e, r), AuditUpsert(r) \/ AuditAppend(r),
             e.action \notin {"manual", "auto"}
      PROVE  \E w \in written' : /\ w.session = e.session
                                 /\ w.graph.version = e.after
                                 /\ Last(w.graph.nodes) = e.by
  <2> DEFINE w == [session |-> req[r].session,
                   graph |-> [nodes |-> NextNodes(r), version |-> NextVersion(r)]]
  <2>1. w \in written'
    BY <1>2, WrittenGrows DEF AuditUpsert, AuditAppend, Truthful
  <2>2. w.session = e.session /\ w.graph.version = e.after /\ Last(w.graph.nodes) = e.by
    <3>1. e.session = req[r].session /\ e.after = NextVersion(r) /\ e.by = r
      BY <1>2 DEF Audited
    <3>2. Last(NextNodes(r)) = r
      BY NextType DEF TypeInv
    <3> QED
      BY <3>1, <3>2
  <2> QED
    BY <2>1, <2>2
<1>3. ASSUME NEW r \in Reqs, Audited(e, r), e.action \in {"manual", "auto"}
      PROVE  [session |-> e.session, graph |-> [nodes |-> e.nodes, version |-> e.after]] \in written'
  <2>1. /\ snap[r].pc = "write" /\ e.session = snap[r].session
        /\ e.nodes = snap[r].graph.nodes /\ e.after = snap[r].graph.version
    BY <1>3 DEF Audited
  <2>2. snap[r].graph \in Graph
    BY DEF TypeInv, TypeOK, Task
  <2>3. snap[r].graph = [nodes |-> e.nodes, version |-> e.after]
    BY <2>1, <2>2 DEF Graph
  <2> QED
    BY <2>1, <2>3, WrittenGrows DEF Truthful
<1> QED
  BY <1>1, <1>2, <1>3, AuditMoves DEF Audited, Expunged

\* The timeline tells the truth: an entry of an upsert or an append is about a graph
\* that was stored, a snapshot is one that was stored, whatever fails in between.
THEOREM TimelineIsTrue == Spec => []AuditTrue
<1> DEFINE Inv == TypeInv /\ Truthful /\ AuditTrue
<1>1. Init => Inv
  BY TypesBegin, IdleType, TaskType DEF Init, Truthful, AuditTrue
<1>2. Inv /\ [Next]_vars => Inv'
  BY TypesKept, TruthfulKept, AuditKept
<1>3. Inv => AuditTrue
  OBVIOUS
<1> HIDE DEF Inv
<1> QED
  BY <1>1, <1>2, <1>3, PTL DEF Spec

(***************************************************************************)
(* Answered appends                                                        *)
(***************************************************************************)

Upserted(r) == \E e \in audit : e.by = r /\ e.action \in {"create", "replace"}
Appended(r) == \E e \in audit : e.by = r /\ e.action = "append"
Reached(r) == \E w \in written : Last(w.graph.nodes) = r

\* Who is the last of a stored graph has stored it; an entry is of the session of the
\* request that left it; an append on its way has its first entry, until a purge.
Noted ==
    /\ \A r \in Reqs : Reached(r) => req[r].pc \notin {"idle", "version", "write"}
    /\ \A e \in audit : e.action \in {"create", "replace", "append"} =>
          req[e.by].pc # "idle" /\ e.session = req[e.by].session
    /\ \A r \in Reqs :
          req[r].pc = "auditAppend" => PurgeBegun(req[r].session) \/ Upserted(r)

\* A purge that has begun has begun for good, and so has every request.
LEMMA PurgeStays ==
    ASSUME TypeInv, [Next]_vars
    PROVE  /\ \A r \in Reqs : req[r].pc # "idle" =>
                 /\ req'[r].pc # "idle" /\ req'[r].op = req[r].op
                 /\ req'[r].session = req[r].session
           /\ \A s : PurgeBegun(s) => \E r \in Reqs : req'[r].op = "purge" /\ req'[r].session = s
<1>1. ASSUME NEW r \in Reqs, req[r].pc # "idle"
      PROVE  /\ req'[r].pc # "idle" /\ req'[r].op = req[r].op
             /\ req'[r].session = req[r].session
  BY <1>1, ReqsMove DEF TypeInv, ReqMoves, Answers, Finds, Erases, Lost, Same
<1>2. \A r \in Reqs : req[r].pc = "idle" => req[r].op # "purge"
  BY IdleType DEF TypeInv, Held
<1> QED
  BY <1>1, <1>2 DEF PurgeBegun

\* Only a purge of the session takes an entry away.
LEMMA EntriesStay ==
    ASSUME TypeInv, Noted, [Next]_vars, NEW e \in audit,
           e.action \in {"create", "replace", "append"},
           ~ \E x \in Reqs : req'[x].op = "purge" /\ req'[x].session = req[e.by].session
    PROVE  e \in audit'
<1>1. e.session = req[e.by].session
  BY DEF Noted
<1>2. ASSUME NEW x \in Reqs, Expunged(x) PROVE e.session # req[x].session
  <2>1. req[x].op = "purge" /\ req[x].pc # "idle"
    BY <1>2, IdleType DEF Expunged, TypeInv, Held
  <2> QED
    BY <1>1, <2>1, PurgeStays
<1> QED
  BY <1>2, AuditMoves DEF Expunged

LEMMA NotedKept ==
    ASSUME TypeInv, Noted, AckedAudited, [Next]_vars PROVE Noted' /\ AckedAudited'
<1> DEFINE PurgeNext(s) == \E x \in Reqs : req'[x].op = "purge" /\ req'[x].session = s
           ReachedNext(r) == \E w \in written' : Last(w.graph.nodes) = r
           UpsertedNext(r) == \E e \in audit' : e.by = r /\ e.action \in {"create", "replace"}
           AppendedNext(r) == \E e \in audit' : e.by = r /\ e.action = "append"
<1>0. \A r \in Reqs : ReqMoves(r)
  BY ReqsMove DEF TypeInv
<1>1. ASSUME NEW r \in Reqs, ReachedNext(r) PROVE req'[r].pc \notin {"idle", "version", "write"}
  <2>1. CASE Reached(r)
    BY <1>0, <2>1 DEF Noted, ReqMoves, Answers, Finds, Erases, Lost
  <2>2. CASE StoreMongo(r)
    BY <2>2, NewPc DEF StoreMongo, TypeInv, TypeOK
  <2>3. ASSUME NEW x \in Reqs, StoreMongo(x),
               written' = written \union {[session |-> req[x].session,
                       graph |-> [nodes |-> NextNodes(x), version |-> NextVersion(x)]]}
        PROVE  Reached(r) \/ x = r
    BY <1>1, <2>3, NextType DEF Reached, TypeInv
  <2> QED
    BY <1>1, <2>1, <2>2, <2>3, WrittenMoves DEF Reached
<1>2. ASSUME NEW e \in audit', e.action \in {"create", "replace", "append"}
      PROVE  req'[e.by].pc # "idle" /\ e.session = req'[e.by].session
  <2>1. e.by \in Reqs
    BY TypesKept DEF TypeInv, TypeOK, Entry
  <2>2. req[e.by].pc # "idle" /\ e.session = req[e.by].session
    BY <1>2, AuditMoves DEF Audited, Expunged, Noted
  <2> QED
    BY <2>1, <2>2, PurgeStays
<1>3. ASSUME NEW r \in Reqs, req[r].pc # "idle", ~PurgeNext(req'[r].session)
      PROVE  /\ ~PurgeBegun(req[r].session)
             /\ Upserted(r) => UpsertedNext(r)
             /\ Appended(r) => AppendedNext(r)
  <2>1. req'[r].session = req[r].session
    BY <1>3, PurgeStays
  <2>2. ~PurgeBegun(req[r].session)
    BY <1>3, <2>1, PurgeStays
  <2>3. \A e \in audit : e.by = r /\ e.action \in {"create", "replace", "append"} => e \in audit'
    BY <1>3, <2>1, EntriesStay
  <2> QED
    BY <2>2, <2>3 DEF Upserted, Appended
<1>4. ASSUME NEW r \in Reqs
      PROVE  /\ AuditUpsert(r) => UpsertedNext(r)
             /\ AuditAppend(r) => AppendedNext(r) /\ audit \subseteq audit'
  <2>1. ASSUME AuditUpsert(r) PROVE UpsertedNext(r)
    <3> DEFINE e == [session |-> req[r].session, by |-> r,
             action |-> IF req[r].found = NoDoc THEN "create" ELSE "replace",
             before |-> req[r].found.version, after |-> NextVersion(r), nodes |-> <<>>]
    <3>1. e \in audit' /\ e.by = r /\ e.action \in {"create", "replace"}
      BY <2>1 DEF AuditUpsert
    <3> QED
      BY <3>1
  <2>2. ASSUME AuditAppend(r) PROVE AppendedNext(r)
    <3> DEFINE e == [session |-> req[r].session, by |-> r, action |-> "append",
             before |-> req[r].graph.version, after |-> NextVersion(r), nodes |-> <<>>]
    <3>1. e \in audit' /\ e.by = r /\ e.action = "append"
      BY <2>2 DEF AuditAppend
    <3> QED
      BY <3>1
  <2>3. AuditAppend(r) => audit \subseteq audit'
    BY DEF AuditAppend
  <2> QED
    BY <2>1, <2>2, <2>3
<1>5. ASSUME NEW r \in Reqs, req'[r].pc = "auditAppend", ~PurgeNext(req'[r].session)
      PROVE  UpsertedNext(r)
  <2>1. CASE req[r].pc = "auditAppend"
    BY <1>3, <1>5, <2>1 DEF Noted
  <2>2. CASE req[r].pc # "auditAppend"
    <3>1. AuditUpsert(r)
      BY <1>0, <1>5, <2>2 DEF ReqMoves, Answers, Finds, Erases, Lost, Started
    <3> QED
      BY <1>4, <3>1
  <2> QED
    BY <2>1, <2>2
<1>6. ASSUME NEW r \in Reqs, req'[r].op = "append", req'[r].pc = "ok", ReachedNext(r),
             ~PurgeNext(req'[r].session)
      PROVE  UpsertedNext(r) /\ AppendedNext(r)
  <2>1. Reached(r)
    <3>1. ASSUME NEW x \in Reqs, StoreMongo(x) PROVE x # r
      BY <1>6, <3>1, NewPc DEF StoreMongo, TypeInv, TypeOK
    <3>2. ASSUME NEW x \in Reqs, StoreMongo(x), x # r,
                 written' = written \union {[session |-> req[x].session,
                         graph |-> [nodes |-> NextNodes(x), version |-> NextVersion(x)]]}
          PROVE  Reached(r)
      BY <1>6, <3>2, NextType DEF Reached, TypeInv
    <3> QED
      BY <1>6, <3>1, <3>2, WrittenMoves DEF Reached
  <2>2. req[r].pc \notin {"idle", "version", "write"}
    BY <2>1 DEF Noted
  <2>3. ~PurgeBegun(req[r].session) /\ req[r].op = "append"
    BY <1>3, <1>6, <2>2, PurgeStays
  <2>4. req[r].left = {} /\ req[r].pc # "snapshot"
    BY <2>3 DEF TypeInv, Held
  <2>5. CASE req[r].pc = "ok"
    BY <1>3, <1>6, <2>1, <2>2, <2>3, <2>5 DEF AckedAudited, Reached, Upserted, Appended
  <2>6. CASE AuditAppend(r) /\ req[r].pc = "auditAppend"
    BY <1>3, <1>4, <1>6, <2>2, <2>3, <2>6 DEF Noted
  <2>7. req'[r] = req[r] \/ (AuditAppend(r) /\ req[r].pc = "auditAppend")
    BY <1>0, <1>6, <2>2, <2>4 DEF ReqMoves, Answers, Finds, Erases, Lost
  <2> QED
    BY <1>6, <2>5, <2>6, <2>7
<1> QED
  BY <1>1, <1>2, <1>5, <1>6
  DEF Noted, AckedAudited, PurgeBegun, Upserted, Reached

\* An append that was answered is in the timeline, as the upsert and as the append it
\* is, until its session is purged: the answer comes after both entries.
THEOREM AnsweredIsAudited == Spec => []AckedAudited
<1> DEFINE Inv == TypeInv /\ Noted /\ AckedAudited
<1>1. Init => Inv
  BY TypesBegin, IdleType DEF Init, Noted, AckedAudited, Reached
<1>2. Inv /\ [Next]_vars => Inv'
  BY TypesKept, NotedKept
<1>3. Inv => AckedAudited
  OBVIOUS
<1> HIDE DEF Inv
<1> QED
  BY <1>1, <1>2, <1>3, PTL DEF Spec

(***************************************************************************)
(* Requests side by side                                                   *)
(***************************************************************************)

\* Two that have something of one session in hand at once know of each other.
Company ==
    \A r, x \in Reqs :
        r # x /\ AtWork(r) /\ AtWork(x) /\ req[x].session = req[r].session => x \in beside[r]

\* The store a request has read or reached is the proxy's as long as the request lives, and
\* without outages every append has read one.
Homes ==
    \A r \in Reqs :
        /\ (req[r].pc \in {"version", "write"} \/ req[r].left # {}) /\ req[r].home # None
              => req[r].home = impl
        /\ req[r].op = "purge" /\ req[r].pc = "ok" /\ req[r].home # None => req[r].left = {}
        /\ req[r].left # {} => req[r].pc \in {"erase", "ok"}
        /\ "blip" \notin Faults /\ req[r].pc \in {"version", "write"} => req[r].home # None

\* Without outages the flag is up once there is a connection.
Sound == "blip" \notin Faults => up /\ (conn => available)

\* A task has no graph before it has loaded one, and is about the session of the request.
Tasks ==
    \A r \in Reqs :
        /\ snap[r].pc \in {"none", "load"} => snap[r].graph = NoDoc
        /\ snap[r].pc # "none" =>
              /\ req[r].pc \notin {"idle", "version", "write", "auditUpsert", "auditAppend"}
              /\ snap[r].session = req[r].session /\ req[r].op # "purge"

Base == TypeInv /\ Company /\ Homes /\ Sound /\ Tasks

LEMMA NodesType ==
    /\ ToSet(<<>>) = {} /\ ToSet(NoDoc.nodes) = {}
    /\ \A s \in Seq(Reqs) : ToSet(s) \subseteq Reqs
<1>1. ToSet(<<>>) = {}
  BY DEF ToSet
<1>2. \A s \in Seq(Reqs) : ToSet(s) \subseteq Reqs
  BY DEF ToSet
<1> QED
  BY <1>1, <1>2, GraphType

\* An append stays one, and its answer stays.
LEMMA FragmentsStay ==
    ASSUME TypeInv, [Next]_vars, NEW s, NEW a \in Fragments(s)
    PROVE  /\ a \in Reqs /\ req'[a].op = "append" /\ req'[a].session = s
           /\ req[a].pc = "ok" => req'[a].pc = "ok"
<1>1. a \in Reqs /\ req[a].op = "append" /\ req[a].session = s
  BY DEF Fragments
<1>2. req[a].pc # "idle" /\ req[a].left = {}
  BY <1>1, IdleType DEF TypeInv, Held
<1>3. ReqMoves(a)
  BY <1>1, ReqsMove DEF TypeInv
<1>4. req[a].pc = "ok" => a \notin InFlight
  BY DEF InFlight, Answered
<1>5. req[a].pc = "ok" => req'[a] = req[a]
  BY <1>2, <1>3, <1>4 DEF ReqMoves, Answers, Finds, Erases, Lost
<1> QED
  BY <1>1, <1>2, <1>5, PurgeStays

LEMMA CompanyKept == ASSUME TypeInv, Company, [Next]_vars PROVE Company'
<1>1. CASE UNCHANGED vars
  BY <1>1 DEF Company, AtWork, vars
<1>2. CASE \A r \in Reqs : Meets(r)' \subseteq beside'[r]
  BY <1>2 DEF Company, Meets
<1> QED
  BY <1>1, <1>2, BesideGrows

\* Where the proxy arrives, with and without outages.
LEMMA ArriveSound ==
    ASSUME TypeInv, Sound, NEW r, Arrive(r), "blip" \notin Faults
    PROVE  up' /\ (conn' => available') /\ (impl' = "mongo" => available')
<1>1. up /\ (conn => available)
  BY DEF Sound
<1>2. GetMongo => up' /\ available'
  BY <1>1 DEF GetMongo, TypeInv, TypeOK, LinkTypeOK
<1>3. Resolve
  BY DEF Arrive
<1>4. GetMongo \/ (UNCHANGED link /\ impl' = "postgres")
  BY <1>3 DEF Resolve
<1>5. UNCHANGED link => up' /\ (conn' => available')
  BY <1>1 DEF link
<1> QED
  BY <1>2, <1>4, <1>5

LEMMA SoundKept == ASSUME TypeInv, Sound, [Next]_vars PROVE Sound'
<1>1. conf' = conf
  BY ImplMoves
<1> SUFFICES ASSUME "blip" \notin Faults PROVE up' /\ (conn' => available')
  BY <1>1 DEF Sound, Faults
<1>2. up /\ (conn => available)
  BY DEF Sound
<1>3. GetMongo => up' /\ (conn' => available')
  BY <1>2 DEF GetMongo
<1>4. UNCHANGED <<up, conn, available>> => up' /\ (conn' => available')
  BY <1>2
<1>5. CloseMongo => up' /\ (conn' => available')
  BY <1>2 DEF CloseMongo
<1>6. ASSUME NEW r \in Reqs, Begin(r) PROVE up' /\ (conn' => available')
  BY <1>6, BeginStarts, ArriveSound DEF TypeInv
<1>7. \/ \E r \in Reqs : Begin(r)
      \/ GetMongo \/ CloseMongo \/ UNCHANGED <<up, conn, available>>
  BY DEF Next, Step, FindVersion, StoreMongo, StorePostgres, AuditUpsert, AuditAppend, SnapLoad,
     SnapWrite, Erase, Fail, EraseFails, SnapFails, PingMongo, Environment, Crash, vars
<1> QED
  BY <1>3, <1>4, <1>5, <1>6, <1>7

LEMMA HomesKept == ASSUME TypeInv, Homes, Sound, [Next]_vars PROVE Homes'
<1>0. conf' = conf /\ (impl' = impl \/ impl = None \/ Crash)
  BY ImplMoves
<1> SUFFICES ASSUME NEW r \in Reqs
             PROVE  /\ (req'[r].pc \in {"version", "write"} \/ req'[r].left # {}) /\ req'[r].home # None
                          => req'[r].home = impl'
                    /\ req'[r].op = "purge" /\ req'[r].pc = "ok" /\ req'[r].home # None
                          => req'[r].left = {}
                    /\ req'[r].left # {} => req'[r].pc \in {"erase", "ok"}
                    /\ "blip" \notin Faults /\ req'[r].pc \in {"version", "write"}
                          => req'[r].home # None
  BY <1>0 DEF Homes, Faults
<1>1. ReqMoves(r)
  BY ReqsMove DEF TypeInv
<1>2. /\ req[r] \in Request /\ (req[r].pc = "idle" => req[r] = Idle)
      /\ req[r].pc \in {"version", "write", "auditUpsert", "auditAppend"} => req[r].op = "append"
      /\ req[r].pc = "snapshot" => req[r].op = "snapshot"
      /\ req[r].left # {} => req[r].op = "purge" /\ impl # None
      /\ req[r].pc \in {"version", "write"} => impl # None
  BY DEF TypeInv, TypeOK, Held
<1>3. /\ (req[r].pc \in {"version", "write"} \/ req[r].left # {}) /\ req[r].home # None
            => req[r].home = impl
      /\ req[r].op = "purge" /\ req[r].pc = "ok" /\ req[r].home # None => req[r].left = {}
      /\ req[r].left # {} => req[r].pc \in {"erase", "ok"}
      /\ "blip" \notin Faults /\ req[r].pc \in {"version", "write"} => req[r].home # None
  BY DEF Homes
<1>4. ASSUME Crash PROVE req'[r].left = {} /\ req'[r].pc \notin {"version", "write"}
  <2>1. req' = [x \in Reqs |-> IF x \in InFlight \/ req[x].left # {}
             THEN [req[x] EXCEPT !.pc = "lost", !.left = {}] ELSE req[x]]
    BY <1>4 DEF Crash
  <2>2. /\ [req[r] EXCEPT !.pc = "lost", !.left = {}].left = {}
        /\ [req[r] EXCEPT !.pc = "lost", !.left = {}].pc = "lost"
    BY <1>2 DEF Request
  <2> QED
    BY <2>1, <2>2 DEF InFlight, Answered
<1>5. CASE req'[r] = req[r]
  BY <1>0, <1>2, <1>3, <1>4, <1>5
<1>6. CASE req[r].pc = "idle" /\ Started(req'[r]) /\ Arrive(r)
  <2>1. impl' \in Stores /\ impl' # None
    BY <1>6, Resolved, NoneAssumption DEF Arrive, TypeInv, Stores
  <2>2. StoreAsked \in {None, impl'} /\ (~Offline /\ ~QueryFails <=> StoreAsked # None)
    BY <2>1 DEF StoreAsked
  <2>3. "blip" \notin Faults => ~Offline /\ ~QueryFails
    BY <1>6, ArriveSound DEF Offline, QueryFails, TypeInv, TypeOK, LinkTypeOK, Sound
  <2> QED
    BY <1>6, <2>1, <2>2, <2>3 DEF Started
<1>7. CASE Answers(r)
  BY <1>0, <1>2, <1>3, <1>4, <1>7 DEF Answers, Same
<1>8. CASE Finds(r)
  BY <1>0, <1>2, <1>3, <1>4, <1>8 DEF Finds, Same
<1>9. CASE Erases(r)
  <2>1. impl' = impl
    BY <1>9 DEF Erases, Erase, EraseFails
  <2>2. req[r].op = "purge" /\ req'[r].op = "purge" /\ req[r].pc \notin {"version", "write"}
    BY <1>2, <1>9 DEF Erases, Same
  <2> QED
    BY <1>2, <1>3, <1>9, <2>1, <2>2 DEF Erases
<1>10. CASE Lost(r)
  BY <1>10 DEF Lost
<1> QED
  BY <1>1, <1>5, <1>6, <1>7, <1>8, <1>9, <1>10 DEF ReqMoves

LEMMA TasksKept == ASSUME TypeInv, Tasks, [Next]_vars PROVE Tasks'
<1> SUFFICES ASSUME NEW r \in Reqs
             PROVE  /\ snap'[r].pc \in {"none", "load"} => snap'[r].graph = NoDoc
                    /\ snap'[r].pc # "none" =>
                          /\ req'[r].pc \notin {"idle", "version", "write", "auditUpsert", "auditAppend"}
                          /\ snap'[r].session = req'[r].session /\ req'[r].op # "purge"
  BY DEF Tasks
<1> DEFINE Writing == {"idle", "version", "write", "auditUpsert", "auditAppend"}
<1>1. SnapMoves(r) /\ ReqMoves(r)
  BY SnapsMove, ReqsMove DEF TypeInv
<1>2. /\ snap[r].pc \in {"none", "load"} => snap[r].graph = NoDoc
      /\ snap[r].pc # "none" => /\ req[r].pc \notin Writing /\ snap[r].session = req[r].session
                               /\ req[r].op # "purge"
  BY DEF Tasks
<1>3. req[r].pc # "idle" => /\ req'[r].pc # "idle" /\ req'[r].session = req[r].session
                           /\ req'[r].op = req[r].op
  BY PurgeStays
<1>4. req[r].pc \notin Writing => req'[r].pc \notin Writing
  BY <1>1 DEF ReqMoves, Answers, Finds, Erases, Lost
<1>5. AuditAppend(r) => req[r].pc = "auditAppend" /\ req'[r].pc = "ok" /\ req[r].op = "append"
  BY NewPc DEF AuditAppend, TypeInv, TypeOK, Held
<1>6. req'[r].pc = "snapshot" => req'[r].op = "snapshot"
  BY TypesKept DEF TypeInv, Held
<1> QED
  BY <1>1, <1>2, <1>3, <1>4, <1>5, <1>6 DEF SnapMoves

LEMMA BaseKept == ASSUME Base, [Next]_vars PROVE Base'
BY TypesKept, CompanyKept, HomesKept, SoundKept, TasksKept DEF Base

LEMMA BaseBegins == Init => Base
<1>1. Init => Company /\ Homes /\ Tasks
  BY IdleType, TaskType DEF Init, Company, AtWork, Homes, Tasks
<1>2. Init => Sound
  BY DEF Init, LinkInit, Sound
<1> QED
  BY <1>1, <1>2, TypesBegin DEF Base

\* A store gains a graph from an append that is about to write.
LEMMA Writes ==
    ASSUME TypeInv, [Next]_vars, NEW b \in Stores, NEW s \in Sessions,
           doc'[b][s] \notin {NoDoc, doc[b][s]}
    PROVE  \E r \in Reqs :
              /\ req[r].session = s /\ impl = b /\ req[r].pc = "write" /\ req[r].op = "append"
              /\ doc'[b][s].nodes = NextNodes(r) /\ ToSet(NextNodes(r)) = Carries(r)
              /\ Last(doc'[b][s].nodes) = r
              /\ b = "mongo" => StoreMongo(r) /\ doc'[b][s].version = NextVersion(r)
<1>1. DocMoves(b, s)
  BY DocsMove
<1>2. PICK r \in Reqs :
         /\ req[r].session = s /\ impl = b /\ req[r].pc = "write"
         /\ \/ StoreMongo(r) /\ doc'[b][s] = [nodes |-> NextNodes(r), version |-> NextVersion(r)]
            \/ b = "postgres" /\ doc'[b][s] = [nodes |-> NextNodes(r), version |-> 0]
  BY <1>1 DEF DocMoves
<1>3. doc'[b][s].nodes = NextNodes(r) /\ (b = "mongo" => doc'[b][s].version = NextVersion(r))
  BY <1>2
<1>4. req[r].op = "append" /\ Last(NextNodes(r)) = r /\ ToSet(NextNodes(r)) = Carries(r)
  BY <1>2, NextType DEF TypeInv, Held, Carries
<1> QED
  BY <1>2, <1>3, <1>4

\* What an append has in hand grows only when it begins, what a task has when it loads.
LEMMA HandsGrow ==
    ASSUME Base, [Next]_vars, NEW r \in Reqs
    PROVE  /\ Carries(r) \subseteq ToSet(req'[r].graph.nodes) \union {r}
           /\ ToSet(snap[r].graph.nodes) \subseteq ToSet(snap'[r].graph.nodes)
           /\ req[r].op = "append" => req'[r].op = "append"
           /\ req[r].pc # "idle" => req'[r].graph = req[r].graph
<1>1. ReqMoves(r) /\ SnapMoves(r)
  BY ReqsMove, SnapsMove DEF Base, TypeInv
<1>2. req[r].pc = "idle" => req[r] = Idle
  BY DEF Base, TypeInv, Held
<1>3. req[r].pc # "idle" => req'[r].graph = req[r].graph /\ req'[r].op = req[r].op
  BY <1>1 DEF ReqMoves, Answers, Finds, Erases, Lost, Same
<1>4. req[r].pc = "idle" => req[r].op # "append" /\ ToSet(req[r].graph.nodes) = {}
  BY <1>2, IdleType, NodesType
<1>5. ToSet(snap[r].graph.nodes) \subseteq ToSet(snap'[r].graph.nodes)
  <2>1. snap[r].pc \in {"none", "load"} => ToSet(snap[r].graph.nodes) = {}
    BY NodesType DEF Base, Tasks
  <2>2. CASE snap'[r] = snap[r] \/ snap[r].pc \in {"none", "load"}
    BY <2>1, <2>2
  <2>3. CASE snap'[r].graph = snap[r].graph
    BY <2>3
  <2>4. AuditAppend(r) => req[r].pc = "auditAppend" /\ req[r].op = "append"
    BY DEF AuditAppend, Base, TypeInv, Held
  <2>5. CASE snap'[r].pc = "load" /\ snap[r].pc \notin {"none", "load"}
    BY <1>1, <2>4, <2>5 DEF SnapMoves, Base, Tasks
  <2> QED
    BY <1>1, <2>2, <2>3, <2>5 DEF SnapMoves
<1> QED
  BY <1>3, <1>4, <1>5 DEF Carries

(***************************************************************************)
(* What an append keeps                                                    *)
(***************************************************************************)

\* What the store holds an append has read, or another that is at work beside it has stored;
\* the version it has found is the store's, or the store has been written beside it.
Kept ==
    \A r \in Reqs :
        /\ req[r].pc \in {"version", "write"} /\ req[r].home # None =>
              \A x \in ToSet(doc[impl][req[r].session].nodes) :
                  \/ x \in Carries(r)
                  \/ \E y \in beside[r] : req[y].op = "append" /\ x \in Carries(y)
        /\ req[r].pc = "write" /\ impl = "mongo" =>
              \/ doc["mongo"][req[r].session] \in {NoDoc, req[r].found}
              \/ \E y \in beside[r] : req[y].op = "append"

LEMMA KeptKept == ASSUME Base, Kept, [Next]_vars PROVE Kept'
<1>0. TypeInv /\ TypeInv' /\ Base'
  BY BaseKept DEF Base
<1> SUFFICES ASSUME NEW r \in Reqs, req'[r].pc \in {"version", "write"}
             PROVE  /\ req'[r].home # None =>
                          \A x \in ToSet(doc'[impl'][req'[r].session].nodes) :
                              \/ x \in ToSet(req'[r].graph.nodes) \union {r}
                              \/ \E y \in beside'[r] : /\ req'[y].op = "append"
                                                       /\ x \in ToSet(req'[y].graph.nodes) \union {y}
                    /\ req'[r].pc = "write" /\ impl' = "mongo" =>
                          \/ doc'["mongo"][req'[r].session] \in {NoDoc, req'[r].found}
                          \/ \E y \in beside'[r] : req'[y].op = "append"
  BY DEF Kept, Carries
<1> DEFINE s == req'[r].session
<1>1. ReqMoves(r) /\ beside[r] \subseteq Reqs /\ beside[r] \subseteq beside'[r]
  BY <1>0, ReqsMove, BesideGrows DEF TypeInv, TypeOK
<1>2. /\ s \in Sessions /\ impl' \in Stores
      /\ \A b \in Stores : DocMoves(b, s)
  BY <1>0, DocsMove DEF TypeInv, TypeOK, Held, Stores
<1>3. \A y \in Reqs : /\ Carries(y) \subseteq ToSet(req'[y].graph.nodes) \union {y}
                      /\ req[y].op = "append" => req'[y].op = "append"
  BY HandsGrow
<1>4. ~Crash
  <2>1. ASSUME Crash, r \in InFlight PROVE req'[r].pc = "lost"
    <3>1. req'[r] = [req[r] EXCEPT !.pc = "lost", !.left = {}] /\ req[r] \in Request
      BY <1>0, <2>1 DEF Crash, TypeInv, TypeOK
    <3> QED
      BY <3>1 DEF Request
  <2>2. ASSUME Crash, r \notin InFlight PROVE req'[r].pc \notin {"version", "write"}
    <3>1. /\ req'[r] \in {req[r], [req[r] EXCEPT !.pc = "lost", !.left = {}]}
          /\ req[r] \in Request /\ req[r].pc \notin {"version", "write"}
      BY <1>0, <2>2 DEF Crash, TypeInv, TypeOK, InFlight, Answered
    <3> QED
      BY <3>1 DEF Request
  <2> QED
    BY <2>1, <2>2
<1>5. CASE req[r].pc = "idle" /\ Started(req'[r]) /\ Arrive(r) /\ UNCHANGED <<doc, audit, written>>
  <2>1. req'[r].graph = Seen(s) /\ req'[r].home = StoreAsked /\ (req'[r].pc = "write" => impl' # "mongo")
    BY <1>5, <1>2 DEF Started
  <2>2. req'[r].home # None => req'[r].graph = doc'[impl'][s]
    BY <1>5, <2>1 DEF StoreAsked, Seen
  <2> QED
    BY <2>1, <2>2
<1>6. ASSUME req[r].pc \in {"version", "write"}, Same(r), req'[r].home = req[r].home
      PROVE  req'[r].home # None =>
                \A x \in ToSet(doc'[impl'][s].nodes) :
                    \/ x \in ToSet(req'[r].graph.nodes) \union {r}
                    \/ \E y \in beside'[r] : /\ req'[y].op = "append"
                                             /\ x \in ToSet(req'[y].graph.nodes) \union {y}
  <2> SUFFICES ASSUME req'[r].home # None, NEW x \in ToSet(doc'[impl'][s].nodes),
                      x \notin ToSet(req'[r].graph.nodes) \union {r}
               PROVE  \E y \in beside'[r] : /\ req'[y].op = "append"
                                            /\ x \in ToSet(req'[y].graph.nodes) \union {y}
    OBVIOUS
  <2>1. impl' = impl /\ s = req[r].session
    BY <1>0, <1>4, <1>6, ImplMoves DEF TypeInv, Held, Same
  <2>2. CASE x \in ToSet(doc[impl][s].nodes)
    <3>1. x \notin Carries(r)
      BY <1>3
    <3>2. PICK y \in beside[r] : req[y].op = "append" /\ x \in Carries(y)
      BY <1>6, <2>1, <2>2, <3>1 DEF Kept
    <3> QED
      BY <1>1, <1>3, <3>2
  <2>3. CASE x \notin ToSet(doc[impl][s].nodes)
    <3>1. doc'[impl][s] # doc[impl][s] /\ doc'[impl][s] # NoDoc
      BY <2>1, <2>3, NodesType
    <3>2. PICK y \in Reqs : /\ req[y].session = s /\ req[y].pc = "write" /\ req[y].op = "append"
                            /\ doc'[impl][s].nodes = NextNodes(y) /\ ToSet(NextNodes(y)) = Carries(y)
      BY <1>0, <1>2, <2>1, <3>1, Writes
    <3>3. req[y].op = "append" /\ x \in Carries(y) /\ y # r
      <4>1. x \in Carries(y)
        BY <2>1, <3>2
      <4>2. x \notin Carries(r)
        BY <1>3
      <4> QED
        BY <3>2, <4>1, <4>2
    <3>4. AtWork(y) /\ AtWork(r)
      BY <1>0, <1>6, <3>2, <3>3 DEF AtWork, TypeInv, Held
    <3>5. y \in beside[r]
      BY <2>1, <3>2, <3>3, <3>4 DEF Base, Company
    <3> QED
      BY <1>1, <1>3, <3>3, <3>5
  <2> QED
    BY <2>2, <2>3
<1>7. ASSUME req[r].pc = "write", req'[r] = req[r], impl' = "mongo"
      PROVE  \/ doc'["mongo"][s] \in {NoDoc, req'[r].found}
             \/ \E y \in beside'[r] : req'[y].op = "append"
  <2>1. impl = "mongo" /\ s = req[r].session
    BY <1>0, <1>4, <1>7, ImplMoves DEF TypeInv, Held
  <2>2. CASE doc'["mongo"][s] = doc["mongo"][s]
    BY <1>1, <1>3, <1>7, <2>1, <2>2 DEF Kept
  <2>3. ASSUME NEW y \in Reqs, req[y].session = s, req[y].pc = "write", StoreMongo(y)
        PROVE  \E z \in beside'[r] : req'[z].op = "append"
    <3>1. req'[y].pc = "auditUpsert"
      BY <1>0, <2>3, NewPc DEF StoreMongo, TypeInv, TypeOK
    <3>2. y # r /\ req[y].op = "append" /\ AtWork(y) /\ AtWork(r)
      BY <1>0, <1>7, <2>3, <3>1 DEF AtWork, TypeInv, Held
    <3>3. y \in beside[r]
      BY <2>1, <2>3, <3>2 DEF Base, Company
    <3> QED
      BY <1>1, <1>3, <3>2, <3>3
  <2> QED
    BY <1>2, <2>2, <2>3 DEF DocMoves, Stores
<1>8. CASE Finds(r)
  <2>1. doc' = doc /\ req'[r].found = doc["mongo"][s] /\ Same(r) /\ req'[r].home = req[r].home
    BY <1>8 DEF Finds, FindVersion, Same
  <2>2. req[r].pc \in {"version", "write"}
    BY <1>8 DEF Finds
  <2> QED
    BY <1>6, <2>1, <2>2
<1>9. CASE req'[r] = req[r]
  <2>1. Same(r)
    BY <1>0, <1>9 DEF Same, TypeInv, TypeOK
  <2> QED
    BY <1>6, <1>7, <1>9, <2>1
<1>10. ~Answers(r) /\ ~Erases(r) /\ ~Lost(r)
  BY <1>0 DEF Answers, Erases, Lost, Same, TypeInv, Held
<1> QED
  BY <1>1, <1>5, <1>8, <1>9, <1>10 DEF ReqMoves

LEMMA KeptHolds == Spec => [](Base /\ Kept)
<1>1. Init => Kept
  BY IdleType DEF Init, Kept
<1>2. Base /\ Kept /\ [Next]_vars => Base' /\ Kept'
  BY BaseKept, KeptKept
<1> QED
  BY <1>1, <1>2, BaseBegins, PTL DEF Spec

\* An append takes an intent out of the graph only if it read while the flag was down, or if
\* another append that had the intent was at work beside it.
THEOREM NodesAreKept == Spec => KeepsNodes
<1>1. ASSUME Base, Kept, [Next]_vars, NEW b \in Stores, NEW s \in Sessions,
             NEW x \in ToSet(doc[b][s].nodes) \ ToSet(doc'[b][s].nodes), doc'[b][s] # NoDoc
      PROVE  LET r == Last(doc'[b][s].nodes)
             IN  \/ req[r].home = None /\ "blip" \in Faults
                 \/ \E y \in beside[r] : req[y].op = "append" /\ x \in Carries(y)
  <2>1. doc'[b][s] # doc[b][s]
    BY <1>1
  <2>2. PICK r \in Reqs : /\ req[r].session = s /\ impl = b /\ req[r].pc = "write"
                          /\ doc'[b][s].nodes = NextNodes(r) /\ ToSet(NextNodes(r)) = Carries(r)
                          /\ Last(doc'[b][s].nodes) = r
    BY <1>1, <2>1, Writes DEF Base
  <2>3. req[r].home = None => "blip" \in Faults
    BY <1>1, <2>2 DEF Base, Homes
  <2>4. req[r].home # None => \E y \in beside[r] : req[y].op = "append" /\ x \in Carries(y)
    BY <1>1, <2>2 DEF Kept
  <2> QED
    BY <2>2, <2>3, <2>4
<1>2. Base /\ Kept /\ [Next]_vars =>
         [\A b \in {"mongo", "postgres"}, s \in Sessions :
            \A x \in ToSet(doc[b][s].nodes) \ ToSet(doc'[b][s].nodes) :
                LET r == Last(doc'[b][s].nodes)
                IN \/ doc'[b][s] = NoDoc
                   \/ req[r].home = None /\ "blip" \in Faults
                   \/ \E y \in beside[r] : req[y].op = "append" /\ x \in Carries(y)]_doc
  BY <1>1 DEF Stores
<1> QED
  BY <1>2, KeptHolds, PTL DEF Spec, KeepsNodes

\* A version names one graph: another is stored under it, or a lower one, only by an append
\* that was not alone at work on the session.
THEOREM VersionsNameGraphs == Spec => VersionNamesGraph
<1>1. ASSUME Base, Kept, [Next]_vars, NEW s \in Sessions, doc["mongo"][s] # NoDoc,
             doc'["mongo"][s] \notin {NoDoc, doc["mongo"][s]},
             doc'["mongo"][s].version <= doc["mongo"][s].version
      PROVE  \E y \in beside[Last(doc'["mongo"][s].nodes)] : req[y].op = "append"
  <2>1. PICK r \in Reqs : /\ req[r].session = s /\ impl = "mongo" /\ req[r].pc = "write"
                          /\ doc'["mongo"][s].version = NextVersion(r)
                          /\ Last(doc'["mongo"][s].nodes) = r
    BY <1>1, Writes DEF Base, Stores
  <2>2. doc'["mongo"][s].version = req[r].found.version + 1 /\ req[r].found.version \in Nat
    BY <1>1, <2>1 DEF NextVersion, Base, TypeInv, TypeOK, Request, Graph
  <2>3. doc["mongo"][s] # req[r].found
    BY <1>1, <2>2
  <2> QED
    BY <1>1, <2>1, <2>3 DEF Kept
<1>2. Base /\ Kept /\ [Next]_vars =>
         [\A s \in Sessions :
            (/\ doc["mongo"][s] # NoDoc
             /\ doc'["mongo"][s] \notin {NoDoc, doc["mongo"][s]}
             /\ doc'["mongo"][s].version <= doc["mongo"][s].version)
               => \E y \in beside[Last(doc'["mongo"][s].nodes)] : req[y].op = "append"]_doc
  BY <1>1
<1> QED
  BY <1>2, KeptHolds, PTL DEF Spec, VersionNamesGraph

(***************************************************************************)
(* Erasure                                                                 *)
(***************************************************************************)

\* A purge that has reached a store, and has not failed or been lost since.
Reaches(p) == req[p].op = "purge" /\ req[p].pc \in {"erase", "ok"} /\ req[p].home # None

\* Someone at work beside the purge had the intent in hand.
Beside(x, p) == \E r \in beside[p] : x \in Carries(r) \union ToSet(snap[r].graph.nodes)

\* What a purge has deleted in a store has not come back but from beside it.
GraphGone(p) ==
    "graph" \notin req[p].left =>
        \A x \in req[p].acked \intersect ToSet(doc[req[p].home][req[p].session].nodes) : Beside(x, p)

TimelineGone(p) ==
    "audit" \notin req[p].left /\ req[p].home = "mongo" =>
        \A e \in audit : e.session = req[p].session =>
            \A x \in req[p].acked : e.by = x \/ x \in ToSet(e.nodes) => Beside(x, p)

\* Nor is it in hand of an append or of a snapshot task, but from beside the purge.
OutOfHand(p) ==
    /\ \A y \in Reqs :
          (/\ req[y].pc \in {"version", "write"} /\ req[y].session = req[p].session
           /\ impl = req[p].home)
             => \A x \in req[p].acked \intersect ToSet(req[y].graph.nodes) : Beside(x, p)
    /\ \A r \in Reqs :
          req[p].home = "mongo" /\ snap[r].pc = "write" /\ snap[r].session = req[p].session
             => \A x \in req[p].acked \intersect ToSet(snap[r].graph.nodes) : Beside(x, p)
    /\ \A r \in req[p].acked : snap[r].pc \in {"load", "write"} => r \in beside[p]

Gone(p) == GraphGone(p) /\ TimelineGone(p) /\ OutOfHand(p)

Forgotten == \A p \in Reqs : Reaches(p) => Gone(p)

\* What a purge knows as acknowledged are appends of its session, answered for good.
Acked ==
    \A p \in Reqs : \A a \in req[p].acked :
        req[a].op = "append" /\ req[a].session = req[p].session /\ req[a].pc = "ok"

LEMMA AckedKept == ASSUME TypeInv, Acked, [Next]_vars PROVE Acked'
<1> SUFFICES ASSUME NEW p \in Reqs, NEW a \in req'[p].acked
             PROVE  req'[a].op = "append" /\ req'[a].session = req'[p].session /\ req'[a].pc = "ok"
  BY DEF Acked
<1>1. ReqMoves(p)
  BY ReqsMove DEF TypeInv
<1>2. \A s : \A x \in Reqs : req[x].op = "append" /\ req[x].session = s /\ req[x].pc = "ok"
         => req'[x].op = "append" /\ req'[x].session = s /\ req'[x].pc = "ok"
  <2> TAKE s
  <2> TAKE x \in Reqs
  <2> HAVE req[x].op = "append" /\ req[x].session = s /\ req[x].pc = "ok"
  <2>1. x \in Fragments(s)
    BY DEF Fragments
  <2> QED
    BY <2>1, FragmentsStay
<1>3. CASE Started(req'[p])
  BY <1>2, <1>3 DEF Started
<1>4. CASE req'[p].acked = req[p].acked /\ req'[p].session = req[p].session
  <2>1. a \in Reqs /\ req[a].op = "append" /\ req[a].session = req[p].session /\ req[a].pc = "ok"
    BY <1>4 DEF Acked, TypeInv, TypeOK, Request
  <2> QED
    BY <1>2, <1>4, <2>1
<1> QED
  BY <1>1, <1>3, <1>4 DEF ReqMoves, Answers, Finds, Erases, Lost, Same

LEMMA BesideStays ==
    ASSUME Base, [Next]_vars, NEW p \in Reqs, NEW x, Beside(x, p) PROVE Beside(x, p)'
<1>1. PICK r \in beside[p] : x \in Carries(r) \union ToSet(snap[r].graph.nodes)
  BY DEF Beside
<1>2. r \in Reqs /\ r \in beside'[p]
  BY BesideGrows DEF Base, TypeInv, TypeOK
<1>3. x \in (ToSet(req'[r].graph.nodes) \union {r}) \union ToSet(snap'[r].graph.nodes)
  BY <1>1, <1>2, HandsGrow
<1> QED
  BY <1>2, <1>3 DEF Beside, Carries

\* As long as a purge is at work, whoever has something in hand is beside it.
LEMMA Accompanied ==
    ASSUME Base', Acked', NEW p \in Reqs, req'[p].op = "purge", req'[p].left # {}
    PROVE  OutOfHand(p)'
<1>1. ASSUME NEW r \in Reqs, r # p, AtWork(r)', req'[r].session = req'[p].session
      PROVE  r \in beside'[p]
  <2>1. AtWork(p)'
    BY DEF AtWork
  <2> QED
    BY <1>1, <2>1 DEF Base, Company
<1>3. ASSUME NEW y \in Reqs, req'[y].pc \in {"version", "write"}, req'[y].session = req'[p].session,
             NEW x \in req'[p].acked \intersect ToSet(req'[y].graph.nodes)
      PROVE  Beside(x, p)'
  <2>1. req'[y].op = "append"
    BY <1>3 DEF Base, TypeInv, Held
  <2>2. y \in beside'[p]
    BY <1>1, <1>3, <2>1 DEF AtWork
  <2> QED
    BY <1>3, <2>2 DEF Beside, Carries
<1>4. ASSUME NEW r \in Reqs, snap'[r].pc = "write", snap'[r].session = req'[p].session,
             NEW x \in req'[p].acked \intersect ToSet(snap'[r].graph.nodes)
      PROVE  Beside(x, p)'
  <2>1. AtWork(r)' /\ req'[r].session = req'[p].session
    BY <1>4 DEF AtWork, Base, Tasks
  <2>2. r # p
    BY <1>4 DEF Base, Tasks
  <2>3. r \in beside'[p]
    BY <1>1, <2>1, <2>2
  <2> QED
    BY <1>4, <2>3 DEF Beside
<1>5. ASSUME NEW r \in req'[p].acked, snap'[r].pc \in {"load", "write"} PROVE r \in beside'[p]
  <2>1. r \in Reqs /\ r # p /\ req'[r].session = req'[p].session
    BY DEF Base, TypeInv, TypeOK, Request, Acked
  <2> QED
    BY <1>1, <1>5, <2>1 DEF AtWork
<1> QED
  BY <1>3, <1>4, <1>5 DEF OutOfHand

\* A purge that has reached a store goes on, or it has just begun and has all to do.
LEMMA ReachesMove ==
    ASSUME Base, [Next]_vars, NEW p \in Reqs, Reaches(p)'
    PROVE  \/ /\ req'[p].left = Purged(req'[p].home) /\ req[p].pc = "idle"
           \/ /\ Reaches(p) /\ req'[p].home = req[p].home /\ req'[p].session = req[p].session
              /\ req'[p].acked = req[p].acked
              /\ req'[p].left = req[p].left \/ (Erase(p) /\ Erases(p))
<1>1. ReqMoves(p)
  BY ReqsMove DEF Base, TypeInv
<1>2. CASE Started(req'[p]) /\ req[p].pc = "idle"
  <2>1. req'[p].home = StoreAsked /\ req'[p].home # None
        /\ req'[p].left = IF Offline \/ QueryFails THEN {} ELSE Purged(impl')
    BY <1>2 DEF Started, Reaches
  <2> QED
    BY <1>2, <2>1 DEF StoreAsked
<1>3. CASE req'[p] = req[p]
  BY <1>3 DEF Reaches
<1>4. CASE Erases(p)
  <2>1. Erase(p) /\ req'[p].home = req[p].home
    BY <1>4 DEF Erases, Reaches
  <2>2. req[p].pc \in {"erase", "ok"}
    BY <1>4 DEF Erases, Base, Homes
  <2> QED
    BY <1>4, <2>1, <2>2 DEF Erases, Same, Reaches
<1>5. ~Answers(p) /\ ~Finds(p) /\ ~Lost(p)
  BY DEF Answers, Finds, Lost, Same, Reaches, Base, TypeInv, Held
<1> QED
  BY <1>1, <1>2, <1>3, <1>4, <1>5 DEF ReqMoves

LEMMA ForgottenKept == ASSUME Base, Acked, Forgotten, [Next]_vars PROVE Forgotten'
<1>0. Base' /\ Acked' /\ TypeInv /\ TypeInv'
  BY BaseKept, AckedKept DEF Base
<1> SUFFICES ASSUME NEW p \in Reqs, Reaches(p)' PROVE Gone(p)'
  BY DEF Forgotten
<1>1. CASE req'[p].left = Purged(req'[p].home) /\ req[p].pc = "idle"
  <2>1. OutOfHand(p)'
    BY <1>0, <1>1, Accompanied DEF Reaches, Purged
  <2>2. GraphGone(p)' /\ TimelineGone(p)'
    BY <1>1 DEF GraphGone, TimelineGone, Purged
  <2> QED
    BY <2>1, <2>2 DEF Gone
<1>2. ASSUME Reaches(p), req'[p].home = req[p].home, req'[p].session = req[p].session,
             req'[p].acked = req[p].acked, req'[p].left = req[p].left \/ (Erase(p) /\ Erases(p))
      PROVE  Gone(p)'
  <2> DEFINE s == req[p].session
             h == req[p].home
  <2>1. Gone(p) /\ h \in Stores /\ s \in Sessions /\ req[p].acked \subseteq Reqs
    BY <1>0, <1>2 DEF Forgotten, Reaches, TypeInv, TypeOK, Request, Stores
  <2>2. \A x \in req[p].acked : Beside(x, p) => Beside(x, p)'
    BY BesideStays
  <2>3. \A a \in req[p].acked : req[a].pc = "ok"
    BY DEF Acked
  <2>4. ASSUME "graph" \notin req[p].left, NEW x \in req[p].acked, x \in ToSet(doc'[h][s].nodes)
        PROVE  Beside(x, p)'
    <3>1. CASE doc'[h][s] \in {NoDoc, doc[h][s]}
      <4>1. x \in ToSet(doc[h][s].nodes)
        BY <2>4, <3>1, NodesType
      <4> QED
        BY <2>1, <2>2, <2>4, <4>1 DEF Gone, GraphGone
    <3>2. CASE doc'[h][s] \notin {NoDoc, doc[h][s]}
      <4>1. PICK y \in Reqs : /\ req[y].session = s /\ impl = h /\ req[y].pc = "write"
                              /\ doc'[h][s].nodes = NextNodes(y) /\ ToSet(NextNodes(y)) = Carries(y)
        BY <1>0, <2>1, <3>2, Writes
      <4>2. x \in ToSet(req[y].graph.nodes)
        BY <2>3, <2>4, <4>1 DEF Carries
      <4> QED
        BY <2>1, <2>2, <4>1, <4>2 DEF Gone, OutOfHand
    <3> QED
      BY <3>1, <3>2
  <2>5. ASSUME "audit" \notin req[p].left, h = "mongo", NEW e \in audit', e.session = s,
               NEW x \in req[p].acked, e.by = x \/ x \in ToSet(e.nodes)
        PROVE  Beside(x, p)'
    <3>1. CASE e \in audit
      BY <2>1, <2>2, <2>5, <3>1 DEF Gone, TimelineGone
    <3>2. CASE e \notin audit
      <4>1. PICK r \in Reqs : Audited(e, r)
        BY <1>0, <3>2, <2>5, AuditMoves DEF Expunged
      <4>2. CASE req[r].pc \in {"auditUpsert", "auditAppend"} /\ e.nodes = <<>>
        BY <2>3, <2>5, <4>1, <4>2, NodesType DEF Audited
      <4>3. CASE snap[r].pc = "write" /\ e.session = snap[r].session /\ e.nodes = snap[r].graph.nodes
        <5>1. CASE e.by = x
          <6>1. r = x /\ r \in beside[p]
            BY <2>1, <4>1, <4>3, <5>1 DEF Audited, Gone, OutOfHand
          <6>2. Beside(x, p)
            BY <6>1 DEF Beside, Carries
          <6> QED
            BY <2>2, <6>2
        <5>2. CASE x \in ToSet(e.nodes)
          BY <2>1, <2>2, <2>5, <4>3, <5>2 DEF Gone, OutOfHand
        <5> QED
          BY <2>5, <5>1, <5>2
      <4> QED
        BY <4>1, <4>2, <4>3 DEF Audited
    <3> QED
      BY <3>1, <3>2
  <2>6. ASSUME Erase(p), Erases(p), req'[p].left # req[p].left
        PROVE  /\ "graph" \notin req'[p].left /\ "graph" \in req[p].left => doc'[h][s] = NoDoc
               /\ "audit" \notin req'[p].left /\ "audit" \in req[p].left =>
                     \A e \in audit' : e.session # s
    <3>1. PICK x \in req[p].left :
             /\ req'[p].left = req[p].left \ {x}
             /\ doc' = IF x = "graph" THEN [doc EXCEPT ![impl][s] = NoDoc] ELSE doc
             /\ audit' = IF x = "audit" THEN {e \in audit : e.session # s} ELSE audit
      <4>1. req'[p].home # None
        BY DEF Reaches
      <4> QED
        BY <2>6, <4>1 DEF Erases
    <3>2. h = impl
      BY <1>2, <3>1 DEF Base, Homes, Reaches
    <3>3. doc \in [Stores -> [Sessions -> Graph]]
      BY <1>0 DEF TypeInv, TypeOK, Stores
    <3> QED
      BY <2>1, <3>1, <3>2, <3>3
  <2>7. GraphGone(p)'
    <3> SUFFICES ASSUME "graph" \notin req'[p].left, NEW x \in req[p].acked, x \in ToSet(doc'[h][s].nodes)
                 PROVE  Beside(x, p)'
      BY <1>2 DEF GraphGone
    <3> QED
      BY <1>2, <2>4, <2>6, NodesType
  <2>8. TimelineGone(p)'
    <3> SUFFICES ASSUME "audit" \notin req'[p].left, h = "mongo", NEW e \in audit', e.session = s,
                        NEW x \in req[p].acked, e.by = x \/ x \in ToSet(e.nodes)
                 PROVE  Beside(x, p)'
      BY <1>2 DEF TimelineGone
    <3> QED
      BY <1>2, <2>5, <2>6
  <2>9. CASE req'[p].left # {}
    BY <1>0, <2>7, <2>8, <2>9, Accompanied DEF Gone, Reaches
  <2>10. ASSUME req'[p].left = {}, NEW y \in Reqs, req'[y].pc \in {"version", "write"},
                req'[y].session = s, impl' = h, NEW x \in req[p].acked, x \in ToSet(req'[y].graph.nodes)
         PROVE  Beside(x, p)'
    <3>1. ReqMoves(y)
      BY <1>0, ReqsMove DEF TypeInv
    <3>2. CASE req[y].pc = "idle" /\ Started(req'[y]) /\ UNCHANGED doc
               /\ \A z \in Reqs : z # y => req'[z] = req[z]
      <4>1. p # y /\ req[p].left = {}
        BY <1>2, <2>10, <3>2 DEF Reaches
      <4>2. x \in ToSet(doc[h][s].nodes)
        BY <2>10, <3>2, NodesType DEF Started, Seen
      <4> QED
        BY <2>1, <2>2, <4>1, <4>2 DEF Gone, GraphGone
    <3>3. CASE req[y].pc \in {"version", "write"} /\ Same(y)
      <4>1. ~Crash
        <5>1. Crash => req'[y] = [req[y] EXCEPT !.pc = "lost", !.left = {}] /\ req[y] \in Request
          BY <1>0, <3>3 DEF Crash, InFlight, Answered, TypeInv, TypeOK
        <5>2. req[y] \in Request => [req[y] EXCEPT !.pc = "lost", !.left = {}].pc = "lost"
          BY DEF Request
        <5> QED
          BY <2>10, <5>1, <5>2
      <4>2. impl = h
        BY <1>0, <2>10, <3>3, <4>1, ImplMoves DEF TypeInv, Held
      <4> QED
        BY <2>1, <2>2, <2>10, <3>3, <4>2 DEF Same, Gone, OutOfHand
    <3>4. req'[y] = req[y] => Same(y)
      BY <1>0 DEF Same, TypeInv, TypeOK
    <3> QED
      BY <2>10, <3>1, <3>2, <3>3, <3>4, IdleType
      DEF ReqMoves, Answers, Finds, Erases, Lost, TypeInv, Held
  <2>11. ASSUME req'[p].left = {}, h = "mongo", NEW r \in Reqs, snap'[r].pc = "write",
                snap'[r].session = s, NEW x \in req[p].acked, x \in ToSet(snap'[r].graph.nodes)
         PROVE  Beside(x, p)'
    <3>1. SnapMoves(r)
      BY <1>0, SnapsMove
    <3>2. CASE snap'[r] = snap[r]
      BY <2>1, <2>2, <2>11, <3>2 DEF Gone, OutOfHand
    <3>3. CASE UNCHANGED req /\ snap'[r].graph = doc["mongo"][s]
      BY <2>1, <2>2, <2>11, <3>3 DEF Gone, GraphGone
    <3> QED
      BY <2>11, <3>1, <3>2, <3>3 DEF SnapMoves
  <2>12. ASSUME NEW r \in req[p].acked, snap'[r].pc \in {"load", "write"} PROVE r \in beside'[p]
    <3>1. SnapMoves(r) /\ req[r].pc = "ok"
      BY <1>0, <2>1, <2>3, SnapsMove
    <3>2. snap[r].pc \in {"load", "write"}
      BY <2>12, <3>1 DEF SnapMoves, AuditAppend
    <3> QED
      BY <1>0, <2>1, <3>2, BesideGrows DEF Gone, OutOfHand
  <2> QED
    BY <1>2, <2>7, <2>8, <2>9, <2>10, <2>11, <2>12 DEF Gone, OutOfHand
<1> QED
  BY <1>1, <1>2, ReachesMove

\* Once erasure has been answered and has gone through, an intent that had been acknowledged
\* before it began is left only if an append or a snapshot that was at work beside the erasure
\* had it in hand: for any clients at once, with automatic snapshots, outages, failing
\* queries and restarts.
THEOREM PurgesErase == Spec => []PurgeErases
<1>1. Init => Acked /\ Forgotten
  BY IdleType DEF Init, Acked, Forgotten, Reaches
<1>2. Base /\ Acked /\ Forgotten /\ [Next]_vars => Base' /\ Acked' /\ Forgotten'
  BY BaseKept, AckedKept, ForgottenKept DEF Base
<1>3. Base /\ Acked /\ Forgotten => PurgeErases
  <2> SUFFICES ASSUME Base, Forgotten, NEW p \in Reqs,
                      req[p].op = "purge", req[p].pc = "ok", req[p].home # None,
                      NEW x \in req[p].acked, Survives(x, p)
               PROVE  Beside(x, p)
    BY DEF PurgeErases, Beside
  <2>1. req[p].left = {} /\ Gone(p)
    BY DEF Base, Homes, Forgotten, Reaches
  <2> QED
    BY <2>1 DEF Survives, Gone, GraphGone, TimelineGone
<1> QED
  BY <1>1, <1>2, <1>3, BaseBegins, PTL DEF Spec

=============================================================================
