------------------------------ MODULE IntentMap ------------------------------
(***************************************************************************)
(* The map of intents of a session: the proxy that chooses a repository    *)
(* once (intent-map.repository.ts), the Mongo repository with its audit    *)
(* and snapshots (intent-map.mongo.repository.ts), and the Postgres one.   *)
(*                                                                         *)
(* Every request is a process, cut at each query.  A graph is the sequence *)
(* of its nodes, named by the request that appended them; the edges link   *)
(* each node to the one before and add nothing.  A snapshot is a task of   *)
(* its own, because append() starts one without waiting for it.            *)
(***************************************************************************)
EXTENDS MongoLink, Naturals, FiniteSets, SequencesExt

CONSTANTS
    Sessions,
    Reqs,           \* the requests the process ever receives
    Configurations, \* the settings and circumstances to look at
    None            \* null

ASSUME ConfigurationAssumption ==
    \A c \in Configurations :
        /\ c.mode \in {"mongo", "postgres", "auto"}
        /\ c.every \in Nat
        /\ c.inFlight \in Nat
        /\ c.faults \subseteq {"blip", "error", "crash"}
ASSUME NoneAssumption == None \notin Sessions /\ None \notin {"mongo", "postgres"}

VARIABLES
    conf,     \* the configuration of this behaviour; it never changes
    impl,     \* the repository the proxy has resolved, None before
    doc,      \* doc[b][s]: the graph of session s kept by repository b
    audit,    \* the collection intent_audit
    req,      \* req[r]: what the handler of request r holds
    snap,     \* snap[r]: the snapshot request r asked for, or set off
    written,  \* history: every graph ever stored in Mongo
    beside    \* history: beside[r]: who was at work on the session of r while r was

vars == <<conf, up, conn, available, impl, doc, audit, req, snap, written, beside>>

Mode == conf.mode              \* MEMORY_BACKEND
SnapshotEvery == conf.every    \* AUDIT_SNAPSHOT_EVERY
MaxInFlight == conf.inFlight   \* how many requests the clients keep in flight
Faults == conf.faults          \* which of "blip", "error" and "crash" happen

Graph == [nodes : Seq(Reqs), version : Nat]

\* No document, and what current?.graph ?? emptyGraph and ?.version ?? 0 make of it.
NoDoc == [nodes |-> <<>>, version |-> 0]

Op == {"read", "append", "snapshot", "purge"}

Request ==
    [pc      : {"idle",
                "version",    \* next: FindVersion, the findOne of upsert
                "write",      \* next: StoreMongo or StorePostgres
                "auditUpsert", "auditAppend",
                "snapshot",   \* waits for snap[r]
                "erase",      \* next: Erase
                "ok", "refused", "failed",   \* answered
                "lost"},      \* the process died before it answered
     op      : Op,
     session : Sessions \union {None},
     graph   : Graph,         \* what get() returned
     found   : Graph,         \* what the findOne of upsert returned
     left    : SUBSET {"graph", "audit"},   \* deletes still to be done
     home    : {None, "mongo", "postgres"}, \* history: the store an append has read, or
                                            \* a purge has reached; None when it did not
     acked   : SUBSET Reqs]   \* history, purge only: appends answered before it

Idle == [pc |-> "idle", op |-> "read", session |-> None, graph |-> NoDoc,
         found |-> NoDoc, left |-> {}, home |-> None, acked |-> {}]

Task == [pc : {"none", "load", "write", "done"}, trigger : {"manual", "auto"},
         session : Sessions \union {None}, graph : Graph]

NoTask == [pc |-> "none", trigger |-> "manual", session |-> None, graph |-> NoDoc]

Entry == [session : Sessions, by : Reqs,
          action : {"create", "replace", "append", "manual", "auto"},
          before : Nat, after : Nat, nodes : Seq(Reqs)]

\* Types.
TypeOK ==
    /\ LinkTypeOK
    /\ conf \in Configurations
    /\ impl \in {None, "mongo", "postgres"}
    /\ doc \in [{"mongo", "postgres"} -> [Sessions -> Graph]]
    /\ audit \subseteq Entry
    /\ req \in [Reqs -> Request]
    /\ \A r \in Reqs : req[r].pc # "idle" => req[r].session \in Sessions
    /\ snap \in [Reqs -> Task]
    /\ written \subseteq [session : Sessions, graph : Graph]
    /\ beside \in [Reqs -> SUBSET Reqs]

Init ==
    /\ conf \in Configurations
    /\ LinkInit
    /\ "blip" \notin Faults => up
    /\ impl = None
    /\ doc = [b \in {"mongo", "postgres"} |-> [s \in Sessions |-> NoDoc]]
    /\ audit = {}
    /\ req = [r \in Reqs |-> Idle]
    /\ snap = [r \in Reqs |-> NoTask]
    /\ written = {}
    /\ beside = [r \in Reqs |-> {}]

----------------------------------------------------------------------------

Answered == {"ok", "refused", "failed", "lost"}
InFlight == {r \in Reqs : req[r].pc \notin Answered \union {"idle"}}

\* A query fails: it cannot reach the server, or the server refuses it.
Failing == "error" \in Faults \/ (impl = "mongo" /\ ~Reachable)

----------------------------------------------------------------------------
\* Slips in the code below that the runs must notice.

\* The proxy asks again on every call.
ResolveAnew ==
    \/ Mode = "postgres" /\ impl' = "postgres" /\ UNCHANGED link
    \/ Mode = "mongo" /\ impl' = "mongo" /\ GetMongo
    \/ Mode = "auto" /\ GetMongo /\ impl' = IF available' THEN "mongo" ELSE "postgres"

\* upsert writes the intent alone.
IntentAlone(r) == <<r>>

\* The version stays what it was.
VersionKept(r) == IF req[r].found = NoDoc THEN 1 ELSE req[r].found.version

\* The version is counted down.
VersionDown(r) == req[r].found.version - 1

\* The audit is kept when a session is erased.
PurgeGraphOnly(b) == {"graph"}

\* The audit of an append is left to the upsert.
AuditAppendNot(r) ==
    /\ req[r].pc = "auditAppend"
    /\ req' = [req EXCEPT ![r].pc = "ok"]
    /\ UNCHANGED <<up, conn, available, impl, doc, audit, snap, written>>

\* An error of the database is swallowed and the handler goes on.
FailSwallowed(r) ==
    /\ Failing
    /\ req[r].pc = "write"
    /\ req' = [req EXCEPT ![r].pc = "auditUpsert"]
    /\ UNCHANGED <<up, conn, available, impl, doc, audit, snap, written>>

\* The automatic snapshot one version late.
MilestoneLate(v) == SnapshotEvery > 0 /\ v % SnapshotEvery = 1

----------------------------------------------------------------------------
(***************************************************************************)
(* The proxy.  resolve() is latched; the adapter then calls getMongo()     *)
(* itself, at the start of every operation.                                *)
(***************************************************************************)
Resolve ==
    \/ impl = "postgres" /\ UNCHANGED <<impl, link>>
    \/ impl = "mongo" /\ GetMongo /\ UNCHANGED impl
    \/ /\ impl = None
       /\ \/ Mode = "postgres" /\ impl' = "postgres" /\ UNCHANGED link
          \/ Mode = "mongo" /\ impl' = "mongo" /\ GetMongo
          \/ Mode = "auto" /\ GetMongo /\ impl' = IF available' THEN "mongo" ELSE "postgres"

\* A request arrives; its first query is answered unless the server is gone and
\* the flag does not know yet.
Arrive(r) ==
    /\ req[r].pc = "idle"
    /\ Cardinality(InFlight) < MaxInFlight
    /\ Resolve

Offline == impl' = "mongo" /\ ~available'
QueryFails == impl' = "mongo" /\ available' /\ ~up

StoreAsked == IF Offline \/ QueryFails THEN None ELSE impl'

\* What get() returns: null when the flag is down, whatever the collection holds.
Seen(s) == IF Offline THEN NoDoc ELSE doc[impl'][s]

(***************************************************************************)
(* GET /api/memory/intent-map and /graph, the chat and the GDPR export.    *)
(***************************************************************************)
Read(r, s) ==
    /\ Arrive(r)
    /\ req' = [req EXCEPT ![r] =
           [Idle EXCEPT !.pc = IF QueryFails THEN "failed" ELSE "ok",
                        !.op = "read", !.session = s, !.graph = Seen(s)]]
    /\ UNCHANGED <<doc, audit, snap, written>>

(***************************************************************************)
(* POST /api/memory/intent-map/update: get, then upsert of what it         *)
(* returned with one node more.                                            *)
(***************************************************************************)
BeginAppend(r, s) ==
    /\ Arrive(r)
    /\ req' = [req EXCEPT ![r] =
           [Idle EXCEPT !.pc = IF QueryFails THEN "failed"
                               ELSE IF impl' = "mongo" THEN "version" ELSE "write",
                        !.op = "append", !.session = s, !.graph = Seen(s),
                        !.home = StoreAsked]]
    /\ UNCHANGED <<doc, audit, snap, written>>

\* upsert does not look at the flag.
FindVersion(r) ==
    /\ req[r].pc = "version"
    /\ GetMongo
    /\ Reachable'
    /\ req' = [req EXCEPT ![r] = [@ EXCEPT !.pc = "write",
                                           !.found = doc["mongo"][req[r].session]]]
    /\ UNCHANGED <<impl, doc, audit, snap, written>>

\* appendIntent on the graph that was read.
NextNodes(r) == Append(req[r].graph.nodes, r)
NextVersion(r) == req[r].found.version + 1

\* findOneAndUpdate: the whole graph is replaced.
StoreMongo(r) ==
    LET s == req[r].session
        graph == [nodes |-> NextNodes(r), version |-> NextVersion(r)]
    IN
    /\ req[r].pc = "write"
    /\ impl = "mongo"
    /\ Reachable
    /\ doc' = [doc EXCEPT !["mongo"][s] = graph]
    /\ written' = written \union {[session |-> s, graph |-> graph]}
    /\ req' = [req EXCEPT ![r].pc = "auditUpsert"]
    /\ UNCHANGED <<up, conn, available, impl, audit, snap>>

\* INSERT ... ON CONFLICT: the same, with no version and no audit.
StorePostgres(r) ==
    /\ req[r].pc = "write"
    /\ impl = "postgres"
    /\ doc' = [doc EXCEPT !["postgres"][req[r].session] =
                  [nodes |-> NextNodes(r), version |-> 0]]
    /\ req' = [req EXCEPT ![r].pc = "ok"]
    /\ UNCHANGED <<up, conn, available, impl, audit, snap, written>>

\* upsert's own entry.
AuditUpsert(r) ==
    /\ req[r].pc = "auditUpsert"
    /\ Reachable
    /\ audit' = audit \union
           {[session |-> req[r].session, by |-> r,
             action |-> IF req[r].found = NoDoc THEN "create" ELSE "replace",
             before |-> req[r].found.version, after |-> NextVersion(r), nodes |-> <<>>]}
    /\ req' = [req EXCEPT ![r].pc = "auditAppend"]
    /\ UNCHANGED <<up, conn, available, impl, doc, snap, written>>

Milestone(v) == SnapshotEvery > 0 /\ v % SnapshotEvery = 0

\* append's entry; then the automatic snapshot is set off and the answer sent.
AuditAppend(r) ==
    LET s == req[r].session IN
    /\ req[r].pc = "auditAppend"
    /\ Reachable
    /\ audit' = audit \union
           {[session |-> s, by |-> r, action |-> "append",
             before |-> req[r].graph.version, after |-> NextVersion(r), nodes |-> <<>>]}
    /\ req' = [req EXCEPT ![r].pc = "ok"]
    /\ snap' = IF Milestone(NextVersion(r))
                 THEN [snap EXCEPT ![r] = [NoTask EXCEPT !.pc = "load",
                                              !.trigger = "auto", !.session = s]]
                 ELSE snap
    /\ UNCHANGED <<up, conn, available, impl, doc, written>>

(***************************************************************************)
(* POST /api/memory/snapshot, and the automatic snapshot.                  *)
(***************************************************************************)
BeginSnapshot(r, s) ==
    /\ Arrive(r)
    /\ req' = [req EXCEPT ![r] =
           [Idle EXCEPT !.pc = IF impl' = "mongo" THEN "snapshot" ELSE "refused",
                        !.op = "snapshot", !.session = s]]
    /\ snap' = IF impl' = "mongo"
                 THEN [snap EXCEPT ![r] = [NoTask EXCEPT !.pc = "load", !.session = s]]
                 ELSE snap
    /\ UNCHANGED <<doc, audit, written>>

\* The end of the task is an answer if a client waits for it.
EndTask(r, answer) ==
    /\ snap' = [snap EXCEPT ![r].pc = "done"]
    /\ req' = IF req[r].pc = "snapshot" THEN [req EXCEPT ![r].pc = answer] ELSE req

\* mongo_offline, graph_not_found, or the graph to be kept.
SnapLoad(r) ==
    LET kept == doc["mongo"][snap[r].session] IN
    /\ snap[r].pc = "load"
    /\ GetMongo
    /\ available' => up
    /\ IF ~available' \/ kept = NoDoc
         THEN EndTask(r, "refused")
         ELSE /\ snap' = [snap EXCEPT ![r] = [@ EXCEPT !.pc = "write", !.graph = kept]]
              /\ UNCHANGED req
    /\ UNCHANGED <<impl, doc, audit, written>>

SnapWrite(r) ==
    /\ snap[r].pc = "write"
    /\ Reachable
    /\ audit' = audit \union
           {[session |-> snap[r].session, by |-> r, action |-> snap[r].trigger,
             before |-> 0, after |-> snap[r].graph.version, nodes |-> snap[r].graph.nodes]}
    /\ EndTask(r, "ok")
    /\ UNCHANGED <<up, conn, available, impl, doc, written>>

(***************************************************************************)
(* purgeSession, called by DELETE /api/me, which takes an error for 0:     *)
(* two deletes side by side, the answer as soon as both are done or one    *)
(* has failed.                                                             *)
(***************************************************************************)
Purged(b) == IF b = "mongo" THEN {"graph", "audit"} ELSE {"graph"}

BeginPurge(r, s) ==
    /\ Arrive(r)
    /\ req' = [req EXCEPT ![r] =
           [Idle EXCEPT !.pc = IF Offline \/ QueryFails THEN "ok" ELSE "erase",
                        !.op = "purge", !.session = s,
                        !.left = IF Offline \/ QueryFails THEN {} ELSE Purged(impl'),
                        !.home = StoreAsked,
                        !.acked = {a \in Reqs : /\ req[a].op = "append"
                                                /\ req[a].session = s
                                                /\ req[a].pc = "ok"}]]
    /\ UNCHANGED <<doc, audit, snap, written>>

Erase(r) ==
    LET s == req[r].session IN
    /\ req[r].pc # "lost"
    /\ impl = "mongo" => Reachable
    /\ \E x \in req[r].left :
         /\ doc' = IF x = "graph" THEN [doc EXCEPT ![impl][s] = NoDoc] ELSE doc
         /\ audit' = IF x = "audit" THEN {e \in audit : e.session # s} ELSE audit
         /\ req' = [req EXCEPT ![r] =
                [req[r] EXCEPT !.left = @ \ {x}, !.pc = IF req[r].left = {x} THEN "ok" ELSE @]]
    /\ UNCHANGED <<up, conn, available, impl, snap, written>>

----------------------------------------------------------------------------
Fail(r) ==
    /\ Failing
    /\ req[r].pc \in {"version", "write", "auditUpsert", "auditAppend"}
    /\ req' = [req EXCEPT ![r].pc = "failed"]
    /\ UNCHANGED <<up, conn, available, impl, doc, audit, snap, written>>

EraseFails(r) ==
    /\ Failing
    /\ req[r].pc # "lost"
    /\ \E x \in req[r].left :
         req' = [req EXCEPT ![r] =
                    [req[r] EXCEPT !.left = @ \ {x}, !.pc = "ok", !.home = None]]
    /\ UNCHANGED <<up, conn, available, impl, doc, audit, snap, written>>

SnapFails(r) ==
    /\ Failing
    /\ snap[r].pc \in {"load", "write"}
    /\ EndTask(r, "failed")
    /\ UNCHANGED <<up, conn, available, impl, doc, audit, written>>

\* Other users of the connection: /health, /ready, the goals of the resolver.
PingMongo == GetMongo /\ UNCHANGED <<impl, doc, audit, req, snap, written>>

Environment == Blip /\ UNCHANGED <<impl, doc, audit, req, snap, written>>

Crash ==
    /\ CloseMongo
    /\ impl' = None
    /\ req' = [r \in Reqs |->
           IF r \in InFlight \/ req[r].left # {}
             THEN [req[r] EXCEPT !.pc = "lost", !.left = {}] ELSE req[r]]
    /\ snap' = [r \in Reqs |->
           IF snap[r].pc = "none" THEN snap[r] ELSE [snap[r] EXCEPT !.pc = "done"]]
    /\ UNCHANGED <<doc, audit, written>>

----------------------------------------------------------------------------

Begin(r) ==
    \E s \in Sessions :
        Read(r, s) \/ BeginAppend(r, s) \/ BeginSnapshot(r, s) \/ BeginPurge(r, s)

Step(r) ==
    \/ FindVersion(r) \/ StoreMongo(r) \/ StorePostgres(r)
    \/ AuditUpsert(r) \/ AuditAppend(r)
    \/ SnapLoad(r) \/ SnapWrite(r)
    \/ Erase(r)

\* Who has something of its session in hand: an append what it has read, a snapshot task
\* what it loads, a purge its deletes.
AtWork(r) ==
    \/ req[r].op = "append" /\ req[r].pc \in {"version", "write"}
    \/ snap[r].pc \in {"load", "write"}
    \/ req[r].left # {}

Meets(r) == {x \in Reqs \ {r} : AtWork(r) /\ AtWork(x) /\ req[x].session = req[r].session}

\* The histories; the configuration stays.
Recorded == UNCHANGED conf /\ beside' = [r \in Reqs |-> beside[r] \union Meets(r)']

Next ==
    /\ \/ \E r \in Reqs : Begin(r) \/ Step(r) \/ Fail(r) \/ EraseFails(r) \/ SnapFails(r)
       \/ PingMongo
       \/ "blip" \in Faults /\ Environment
       \/ "crash" \in Faults /\ Crash
    /\ Recorded

Spec == Init /\ [][Next]_vars

\* A handler and a snapshot that have begun go on.  Clients need not call.
FairSpec == Spec /\ \A r \in Reqs : WF_vars(Step(r) /\ Recorded)

----------------------------------------------------------------------------
(***************************************************************************)
(* Properties.                                                             *)
(***************************************************************************)

Fragments(s) == {r \in Reqs : req[r].op = "append" /\ req[r].session = s}
PurgeBegun(s) == \E r \in Reqs : req[r].op = "purge" /\ req[r].session = s

\* The timeline tells the truth: an entry of an upsert or an append is about a
\* graph that was stored, and a snapshot is a graph that was stored, whole.
AuditTrue ==
    \A e \in audit :
        IF e.action \in {"manual", "auto"}
          THEN [session |-> e.session,
                graph |-> [nodes |-> e.nodes, version |-> e.after]] \in written
          ELSE \E w \in written : /\ w.session = e.session
                                  /\ w.graph.version = e.after
                                  /\ Last(w.graph.nodes) = e.by

\* An append that was answered is in the timeline twice, as the upsert it made
\* and as the append, as long as its session has not been purged.
AckedAudited ==
    \A r \in Reqs :
        (/\ req[r].op = "append" /\ req[r].pc = "ok"
         /\ \E w \in written : Last(w.graph.nodes) = r
         /\ ~PurgeBegun(req[r].session))
            => /\ \E e \in audit : e.by = r /\ e.action = "append"
               /\ \E e \in audit : e.by = r /\ e.action \in {"create", "replace"}

\* What an append stores: what it has read, and its own intent.
Carries(r) == ToSet(req[r].graph.nodes) \union {r}

\* An append takes an intent out of the graph only if it read while the flag was down, or
\* if another append that had the intent was at work beside it.
KeepsNodes ==
    [][\A b \in {"mongo", "postgres"}, s \in Sessions :
         \A x \in ToSet(doc[b][s].nodes) \ ToSet(doc'[b][s].nodes) :
             LET r == Last(doc'[b][s].nodes)
             IN \/ doc'[b][s] = NoDoc
                \/ req[r].home = None /\ "blip" \in Faults
                \/ \E y \in beside[r] : req[y].op = "append" /\ x \in Carries(y)]_doc

\* A version names one graph: another is stored under it, or a lower one, only by an append
\* that was not alone at work on the session.
VersionNamesGraph ==
    [][\A s \in Sessions :
         (/\ doc["mongo"][s] # NoDoc
          /\ doc'["mongo"][s] \notin {NoDoc, doc["mongo"][s]}
          /\ doc'["mongo"][s].version <= doc["mongo"][s].version)
            => \E y \in beside[Last(doc'["mongo"][s].nodes)] : req[y].op = "append"]_doc

\* An intent that is still there: in the store a purge has reached, or in the timeline
\* that goes with it, in an entry or in a snapshot.
Survives(x, p) ==
    LET s == req[p].session IN
    \/ x \in ToSet(doc[req[p].home][s].nodes)
    \/ /\ req[p].home = "mongo"
       /\ \E e \in audit : e.session = s /\ (e.by = x \/ x \in ToSet(e.nodes))

\* Once erasure has been answered and has gone through, an intent that had been
\* acknowledged before it began is left only if an append or a snapshot that was at work
\* beside the erasure had it in hand.
PurgeErases ==
    \A p \in Reqs :
        (req[p].op = "purge" /\ req[p].pc = "ok" /\ req[p].home # None) =>
            \A x \in req[p].acked :
                Survives(x, p) =>
                    \E r \in beside[p] : x \in Carries(r) \union ToSet(snap[r].graph.nodes)

\* A session lives in one store while the process runs, through outages and failing
\* queries: the proxy does not move.
OneHome ==
    "crash" \notin Faults =>
        \A s \in Sessions : doc["mongo"][s] = NoDoc \/ doc["postgres"][s] = NoDoc

\* Whoever stores a version that is a multiple of SnapshotEvery has an automatic
\* snapshot taken, whatever the graph holds by then, unless the session is purged.
EveryNth(v) == SnapshotEvery > 0 /\ v % SnapshotEvery = 0

MilestoneReached ==
    \A r \in Reqs :
        (\E w \in written : Last(w.graph.nodes) = r /\ EveryNth(w.graph.version)) ~>
            \/ \E e \in audit : e.by = r /\ e.action = "auto"
            \/ PurgeBegun(req[r].session)

----------------------------------------------------------------------------
(***************************************************************************)
(* What the documentation says and the code does not keep.                 *)
(***************************************************************************)

\* "append do grafu": an append keeps what is there, whatever the circumstances.
NothingLost ==
    [][\A b \in {"mongo", "postgres"}, s \in Sessions :
         doc'[b][s] # NoDoc => ToSet(doc[b][s].nodes) \subseteq ToSet(doc'[b][s].nodes)]_doc

\* An erasure that was answered is complete.
Erased ==
    \A p \in Reqs :
        (req[p].op = "purge" /\ req[p].pc = "ok") =>
            /\ \A b \in {"mongo", "postgres"} :
                  ToSet(doc[b][req[p].session].nodes) \intersect req[p].acked = {}
            /\ \A e \in audit :
                  e.by \notin req[p].acked /\ ToSet(e.nodes) \intersect req[p].acked = {}

\* The version of a graph never goes back.
VersionMonotone ==
    [][\A s \in Sessions :
         doc'["mongo"][s] # NoDoc => doc'["mongo"][s].version >= doc["mongo"][s].version]_doc

\* Every mutation leaves an entry in intent_audit.
MutationsAudited ==
    \A s \in Sessions : \A r \in ToSet(doc["mongo"][s].nodes) :
        req[r].pc \in Answered =>
            PurgeBegun(s) \/ \E e \in audit : e.by = r /\ e.action = "append"

\* An automatic snapshot is of a milestone version.
AutoIsMilestone == \A e \in audit : e.action = "auto" => EveryNth(e.after)

\* With MEMORY_BACKEND=mongo a read that cannot reach Mongo is an error, never
\* the answer that there is nothing.
ReadsTrue ==
    [][\A r \in Reqs :
         (req'[r].op = "read" /\ req'[r].pc = "ok" /\ req[r].pc = "idle")
            => req'[r].graph = doc["mongo"][req'[r].session]]_req

=============================================================================
