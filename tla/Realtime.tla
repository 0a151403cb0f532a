------------------------------ MODULE Realtime ------------------------------
(***************************************************************************)
(* The conversation with LOGOS: clients on sockets (socket.gateway.ts) and *)
(* over HTTP (logos.routes.ts) ask; runStream and run (analyze-query.      *)
(* usecase.ts) read the memory, ask the provider through ExecuteService,   *)
(* publish what happens on the EventBus, and the gateway forwards every    *)
(* event of a session to the room of that session.  Around them: tokens,   *)
(* rooms and ownership (Access), the limiters (RateLimit), the body of the *)
(* answer (LineReader), the shutdown and a crash (server.ts).              *)
(***************************************************************************)
EXTENDS RateLimit, LineReader

CONSTANTS
    Sockets,   \* connections of Socket.IO, each used once
    Jobs,      \* analyses asked for, each once, in the order of their numbers
    Clients,   \* [token, ip] of the requests over HTTP
    Wires,     \* bodies a provider sends: [lines, tail]
    Settings   \* configurations, each with what may happen in it and who comes

VARIABLES
    setting,  \* the one that holds (it never changes)
    phase,    \* of the process: "up", "closing", "exit0", "exit1"
    socket,   \* [pc, token, user, rooms] of each connection
    job,      \* each analysis
    told,     \* told[j]: what was published about j, in order
    heard,    \* heard[k][j]: what of it reached socket k
    audited,  \* connections whose auth.failure is in the audit log
    spent     \* (history) requests of each user the AI limiter let past in its window

vars == <<setting, phase, socket, job, told, heard, audited, spent, hits>>

Flags == {"firebase", "anonymous", "production", "override", "redis", "mongo", "ollama",
          "leave", "refuse", "crash", "shutdown", "window"}

\* assertProductionSafety: no anonymous clients in production, unless SECURITY_OVERRIDE says so.
Safe(on) == {"production", "anonymous"} \subseteq on => "override" \in on

ASSUME SettingsAssumption ==
    /\ Settings \subseteq [on : SUBSET Flags, sockets : SUBSET Sockets,
                           streams : SUBSET Jobs, requests : SUBSET Jobs,
                           tokens : SUBSET (Tokens \union {None}), asked : SUBSET Sessions]
    /\ \A g \in Settings : Safe(g.on)
\* A body is split at its newlines.
ASSUME WiresAssumption ==
    \A w \in Wires :
        w # None /\ w.lines \in Seq(Seq(STRING \ {Newline})) /\ w.tail \in Seq(STRING \ {Newline})
\* A piece is told from the other events, and a connection from none.
ASSUME DeltasAssumption == Deltas \cap {"started", "done", "completed", "correlated"} = {}
ASSUME SocketsAssumption == None \notin Sockets
ASSUME JobsAssumption == Jobs \subseteq Nat
ASSUME ClientsAssumption == Clients \subseteq [token : Tokens \union {None}, ip : Ips]

On(flag) == flag \in setting.on

Event == {"started", "done", "completed", "correlated"} \union Deltas

Idle == [pc |-> "idle", socket |-> None, client |-> None, user |-> None, session |-> None,
         wire |-> None, pos |-> 0, reader |-> Fresh, full |-> <<>>, task |-> FALSE]

Init ==
    /\ setting \in Settings
    /\ phase = "up"
    /\ socket = [k \in Sockets |-> [pc |-> "out", token |-> None, user |-> None, rooms |-> {}]]
    /\ job = [j \in Jobs |-> Idle]
    /\ told = [j \in Jobs |-> <<>>]
    /\ heard = [k \in Sockets |-> [j \in Jobs |-> <<>>]]
    /\ audited = {}
    /\ spent = [u \in Uids |-> 0]
    /\ hits = NoHits

\* Redis fails while it counts, before or after it has counted: the error handler answers.
StoreFails(l, key) ==
    /\ {"redis", "refuse"} \subseteq setting.on
    /\ Hit(l, key) \/ UNCHANGED hits

NextOf(jobs) ==
    {j \in jobs : job[j].pc = "idle" /\ \A i \in jobs : job[i].pc = "idle" => j <= i}

Running == phase \in {"up", "closing"}

Listeners(s) == {k \in Sockets : socket[k].pc = "in" /\ s \in socket[k].rooms}

\* eventBus.publish and the gateway's subscription to '*', in one call.
Publish(j, event, listeners) ==
    /\ told' = [told EXCEPT ![j] = Append(@, event)]
    /\ heard' = [k \in Sockets |->
           IF k \in listeners THEN [heard[k] EXCEPT ![j] = Append(@, event)] ELSE heard[k]]

Tell(j, event) == Publish(j, event, Listeners(job[j].session))

-----------------------------------------------------------------------------
(* Connections                                                             *)

Enter(k, token, user) ==
    socket' = [socket EXCEPT ![k] = [@ EXCEPT !.pc = "in", !.token = token, !.user = user]]

\* The handshake, up to the first await.
Connect(k, token) ==
    /\ phase = "up" /\ k \in setting.sockets /\ socket[k].pc = "out"
    /\ \/ token = None /\ On("anonymous") /\ Enter(k, token, Nobody)
       \/ token # None /\ ~On("firebase") /\ Enter(k, token, Soft(token))
       \/ /\ token = None /\ ~On("anonymous")
          /\ socket' = [socket EXCEPT ![k].pc = "audit"]
       \/ /\ token # None /\ On("firebase")
          /\ socket' = [socket EXCEPT ![k] = [@ EXCEPT !.pc = "verify", !.token = token]]
    /\ UNCHANGED <<setting, phase, job, told, heard, audited, spent, hits>>

\* verifyIdToken answers.
Verified(k) ==
    /\ Running /\ socket[k].pc = "verify"
    /\ IF Identity[socket[k].token].genuine
         THEN Enter(k, socket[k].token, Decoded(socket[k].token))
         ELSE socket' = [socket EXCEPT ![k].pc = "audit"]
    /\ UNCHANGED <<setting, phase, job, told, heard, audited, spent, hits>>

\* securityAuditRepository.record returns, with or without Mongo, and the handshake is refused.
Audited(k) ==
    /\ Running /\ socket[k].pc = "audit"
    /\ socket' = [socket EXCEPT ![k].pc = "refused"]
    /\ audited' = IF On("mongo") THEN audited \union {k} ELSE audited
    /\ UNCHANGED <<setting, phase, job, told, heard, spent, hits>>

\* The client goes; its streams stay.
Leave(k) ==
    /\ Running /\ On("leave") /\ socket[k].pc = "in"
    /\ socket' = [socket EXCEPT ![k] = [@ EXCEPT !.pc = "gone", !.rooms = {}]]
    /\ UNCHANGED <<setting, phase, job, told, heard, audited, spent, hits>>

Subscribe(k, s) ==
    /\ Running /\ socket[k].pc = "in"
    /\ CanJoinRoom(socket[k].user, s)
    /\ socket' = [socket EXCEPT ![k].rooms = @ \union {s}]
    /\ UNCHANGED <<setting, phase, job, told, heard, audited, spent, hits>>

-----------------------------------------------------------------------------
(* Questions                                                               *)

Asked(j, k, s, pc) ==
    job' = [job EXCEPT ![j] = [Idle EXCEPT !.pc = pc, !.socket = k, !.session = s,
                                           !.user = socket[k].user]]

\* A slip: the socket joins the room when the stream is under way.
StreamThenJoin(k, j, s) ==
    /\ Running /\ j \in NextOf(setting.streams) /\ socket[k].pc = "in"
    /\ CanJoinRoom(socket[k].user, s)
    /\ Asked(j, k, s, "reads")
    /\ Publish(j, "started", Listeners(s))
    /\ socket' = [socket EXCEPT ![k].rooms = @ \union {s}]
    /\ UNCHANGED <<setting, phase, audited, spent, hits>>

\* 'logos.stream': the room, then runStream up to its first await.
Stream(k, j, s) ==
    /\ Running /\ j \in NextOf(setting.streams) /\ socket[k].pc = "in"
    /\ IF CanJoinRoom(socket[k].user, s)
         THEN /\ socket' = [socket EXCEPT ![k].rooms = @ \union {s}]
              /\ Asked(j, k, s, "reads")
              /\ Publish(j, "started", Listeners(s) \union {k})
         ELSE Asked(j, k, s, "refused") /\ UNCHANGED <<socket, told, heard>>
    /\ UNCHANGED <<setting, phase, audited, spent, hits>>

\* POST /logos/analyze: the global limiter knows no user yet.
Request(j, c, s) ==
    /\ phase = "up" /\ j \in NextOf(setting.requests) /\ c.token \in setting.tokens
    /\ LET key == LimitKey(None, c.ip)
           Goes(pc) == job' = [job EXCEPT ![j] =
                                  [Idle EXCEPT !.pc = pc, !.client = c, !.session = s]]
       IN  \/ Hit("global", key) /\ Goes(IF Passes("global", key) THEN "auth" ELSE "refused")
           \/ StoreFails("global", key) /\ Goes("failed")
    /\ UNCHANGED <<setting, phase, socket, told, heard, audited, spent>>

\* firebaseAuthMiddleware.
Bearer(c) ==
    IF c.token = None THEN IF On("anonymous") THEN Nobody ELSE None
    ELSE IF ~On("firebase") THEN IF On("production") THEN None ELSE Soft(c.token)
    ELSE IF Identity[c.token].genuine THEN Decoded(c.token) ELSE None

Authenticate(j) ==
    /\ Running /\ job[j].pc = "auth"
    /\ LET user == Bearer(job[j].client)
       IN  job' = [job EXCEPT ![j] =
               [@ EXCEPT !.pc = IF user = None THEN "refused" ELSE "limit", !.user = user]]
    /\ UNCHANGED <<setting, phase, socket, told, heard, audited, spent, hits>>

\* aiRateLimit, requireOwnership, and run up to its first await.
Admit(j) ==
    /\ Running /\ job[j].pc = "limit"
    /\ LET user == job[j].user
           key  == LimitKey(user, job[j].client.ip)
       IN  /\ Hit("ai", key)
           /\ spent' = IF Passes("ai", key) THEN [spent EXCEPT ![user.uid] = @ + 1] ELSE spent
           /\ IF Passes("ai", key) /\ Owns(user, job[j].session)
                THEN job' = [job EXCEPT ![j].pc = "reads"] /\ Tell(j, "started")
                ELSE /\ job' = [job EXCEPT ![j].pc =
                                   IF Passes("ai", key) THEN "refused" ELSE "limited"]
                     /\ UNCHANGED <<told, heard>>
    /\ UNCHANGED <<setting, phase, socket, audited>>

\* aiRateLimit without an answer from its store; the count may stand.
AdmitFails(j) ==
    /\ Running /\ job[j].pc = "limit"
    /\ LET user == job[j].user
           key  == LimitKey(user, job[j].client.ip)
       IN  /\ StoreFails("ai", key)
           /\ spent' = IF Passes("ai", key) /\ hits' # hits
                         THEN [spent EXCEPT ![user.uid] = @ + 1] ELSE spent
    /\ job' = [job EXCEPT ![j].pc = "failed"]
    /\ UNCHANGED <<setting, phase, socket, told, heard, audited>>

-----------------------------------------------------------------------------
(* Answers                                                                 *)

\* The map of intents and the context are read; each failure counts as nothing found.
ReadsBack(j) ==
    /\ Running /\ job[j].pc = "reads"
    /\ job' = [job EXCEPT ![j].pc = "ask"]
    /\ UNCHANGED <<setting, phase, socket, told, heard, audited, spent, hits>>

\* fireAutoCorrelate: the anonymous have no goals.
Correlates(user) == user.uid # Anonymous

\* What follows the answer: it is handed to the memory, completed is published, correlation begins.
Complete(j, text) ==
    /\ job' = [job EXCEPT ![j] =
           [@ EXCEPT !.pc = "ok", !.full = text, !.task = Correlates(job[j].user)]]
    /\ Tell(j, "completed")

\* The provider accepts a stream.
Accepted(j, wire) ==
    /\ Running /\ job[j].pc = "ask" /\ job[j].socket # None
    /\ job' = [job EXCEPT ![j] = [@ EXCEPT !.pc = "stream", !.wire = wire]]
    /\ UNCHANGED <<setting, phase, socket, told, heard, audited, spent, hits>>

\* The whole answer to a request over HTTP.
Answered(j) ==
    /\ Running /\ job[j].pc = "ask" /\ job[j].socket = None
    /\ Complete(j, <<>>)
    /\ UNCHANGED <<setting, phase, socket, audited, spent, hits>>

\* The provider refuses, or the body breaks: logos.stream.error, or the error handler.
Fails(j) ==
    /\ Running /\ On("refuse")
    /\ job[j].pc = "ask" \/ (job[j].pc = "stream" /\ job[j].reader.ready = <<>>)
    /\ job' = [job EXCEPT ![j].pc = "failed"]
    /\ UNCHANGED <<setting, phase, socket, told, heard, audited, spent, hits>>

Sent(j) == Body(job[j].wire.lines, job[j].wire.tail)

\* reader.read returns the next part of the body, cut anywhere.
Read(j) ==
    /\ Running /\ job[j].pc = "stream"
    /\ job[j].reader.ready = <<>> /\ ~job[j].reader.ended
    /\ \E to \in (job[j].pos + 1)..Len(Sent(j)) :
           job' = [job EXCEPT ![j] =
               [job[j] EXCEPT !.pos = to,
                              !.reader = Feed(@, SubSeq(Sent(j), job[j].pos + 1, to), On("ollama"))]]
    /\ UNCHANGED <<setting, phase, socket, told, heard, audited, spent, hits>>

\* A slip: the text collected is the last piece.
PieceAlone(j) ==
    /\ Running /\ job[j].pc = "stream" /\ job[j].reader.ready # <<>>
    /\ LET delta == Head(job[j].reader.ready)
       IN  /\ job' = [job EXCEPT ![j] = [job[j] EXCEPT !.reader.ready = Tail(@), !.full = <<delta>>]]
           /\ Tell(j, delta)
    /\ UNCHANGED <<setting, phase, socket, audited, spent, hits>>

\* One piece goes from the provider to the asker and to the room.
Piece(j) ==
    /\ Running /\ job[j].pc = "stream" /\ job[j].reader.ready # <<>>
    /\ LET delta == Head(job[j].reader.ready)
       IN  /\ job' = [job EXCEPT ![j] = [job[j] EXCEPT !.reader.ready = Tail(@),
                                                       !.full = Append(@, delta)]]
           /\ Tell(j, delta)
    /\ UNCHANGED <<setting, phase, socket, audited, spent, hits>>

\* A slip: a body that ends without its last line ends no stream.
LastPieceAsked(j) ==
    /\ Running /\ job[j].pc = "stream" /\ job[j].reader.ready = <<>> /\ job[j].reader.ended
    /\ job' = [job EXCEPT ![j].pc = "ending"]
    /\ Tell(j, "done")
    /\ UNCHANGED <<setting, phase, socket, audited, spent, hits>>

\* The last chunk.
LastPiece(j) ==
    /\ Running /\ job[j].pc = "stream" /\ job[j].reader.ready = <<>>
    /\ job[j].reader.ended \/ job[j].pos = Len(Sent(j))
    /\ job' = [job EXCEPT ![j].pc = "ending"]
    /\ Tell(j, "done")
    /\ UNCHANGED <<setting, phase, socket, audited, spent, hits>>

Finish(j) ==
    /\ Running /\ job[j].pc = "ending"
    /\ Complete(j, job[j].full)
    /\ UNCHANGED <<setting, phase, socket, audited, spent, hits>>

\* correlateActionUseCase publishes its result; without goals, or failing, it does not.
Correlated(j) ==
    /\ Running /\ job[j].task
    /\ job' = [job EXCEPT ![j].task = FALSE]
    /\ Tell(j, "correlated") \/ UNCHANGED <<told, heard>>
    /\ UNCHANGED <<setting, phase, socket, audited, spent, hits>>

-----------------------------------------------------------------------------
(* The process                                                             *)

Expire(l, key) ==
    /\ On("window") /\ WindowEnds(l, key)
    /\ spent' = IF l = "ai" /\ key[1] = "uid" THEN [spent EXCEPT ![key[2]] = 0] ELSE spent
    /\ UNCHANGED <<setting, phase, socket, job, told, heard, audited>>

Under == {"auth", "limit", "reads", "ask", "stream", "ending"}

\* Whatever was under way is cut.
Cut ==
    /\ socket' = [k \in Sockets |->
           IF socket[k].pc \in {"verify", "audit", "in"}
             THEN [socket[k] EXCEPT !.pc = "gone", !.rooms = {}] ELSE socket[k]]
    /\ job' = [j \in Jobs |->
           [job[j] EXCEPT !.pc = IF @ \in Under THEN "lost" ELSE @, !.task = FALSE]]

\* A crash and a new process; the counters outlive it in Redis.
Restart ==
    /\ On("crash") /\ phase = "up"
    /\ Cut
    /\ IF On("redis") THEN UNCHANGED <<hits, spent>>
       ELSE hits' = NoHits /\ spent' = [u \in Uids |-> 0]
    /\ UNCHANGED <<setting, phase, told, heard, audited>>

\* SIGTERM: server.close lets no one in.
Shutdown ==
    /\ On("shutdown") /\ phase = "up"
    /\ phase' = "closing"
    /\ UNCHANGED <<setting, socket, job, told, heard, audited, spent, hits>>

\* server.close calls back: every connection is closed.
Exit0 ==
    /\ phase = "closing"
    /\ \A k \in Sockets : socket[k].pc \notin {"verify", "audit", "in"}
    /\ \A j \in Jobs : job[j].client # None => job[j].pc \notin Under
    /\ phase' = "exit0"
    /\ Cut
    /\ UNCHANGED <<setting, told, heard, audited, spent, hits>>

\* A slip: the process waits for its clients and has no timer.
Exit1AfterAll ==
    /\ phase = "closing" /\ \A k \in Sockets : socket[k].pc # "in"
    /\ phase' = "exit1"
    /\ Cut
    /\ UNCHANGED <<setting, told, heard, audited, spent, hits>>

\* The five seconds are over.
Exit1 ==
    /\ phase = "closing"
    /\ phase' = "exit1"
    /\ Cut
    /\ UNCHANGED <<setting, told, heard, audited, spent, hits>>

-----------------------------------------------------------------------------
Arrive(k) == (\E t \in setting.tokens : Connect(k, t)) \/ Verified(k) \/ Audited(k)

Question(j) ==
    \/ \E k \in Sockets, s \in setting.asked : Stream(k, j, s)
    \/ \E c \in Clients, s \in setting.asked : Request(j, c, s)

Step(j) ==
    \/ Authenticate(j) \/ Admit(j) \/ AdmitFails(j) \/ ReadsBack(j)
    \/ (\E w \in Wires : Accepted(j, w)) \/ Answered(j) \/ Fails(j)
    \/ Read(j)
    \/ Piece(j) \/ LastPiece(j) \/ Finish(j) \/ Correlated(j)

Next ==
    \/ \E k \in Sockets : Arrive(k) \/ Leave(k) \/ \E s \in setting.asked : Subscribe(k, s)
    \/ \E j \in Jobs : Question(j) \/ Step(j)
    \/ \E l \in Limiters, key \in LimitKeys : Expire(l, key)
    \/ Restart \/ Shutdown \/ Exit0 \/ Exit1

\* What is under way goes on, and the timer of the shutdown fires.
Fairness == (\A j \in Jobs : WF_vars(Step(j))) /\ WF_vars(Exit1)

Spec == Init /\ [][Next]_vars /\ Fairness

-----------------------------------------------------------------------------
(* Properties                                                              *)

TypeOK ==
    /\ setting \in Settings
    /\ phase \in {"up", "closing", "exit0", "exit1"}
    /\ socket \in [Sockets -> [pc : {"out", "verify", "audit", "in", "refused", "gone"},
                               token : Tokens \union {None}, user : User \union {None},
                               rooms : SUBSET Sessions]]
    /\ \A j \in Jobs :
           /\ job[j].pc \in Under \union {"idle", "ok", "failed", "refused", "limited", "lost"}
           /\ job[j].socket \in Sockets \union {None} /\ job[j].client \in Clients \union {None}
           /\ job[j].user \in User \union {None} /\ job[j].session \in Sessions \union {None}
           /\ job[j].full \in Seq(Deltas) /\ job[j].task \in BOOLEAN
           /\ told[j] \in Seq(Event)
           /\ \A k \in Sockets : heard[k][j] \in Seq(Event)
    /\ audited \subseteq Sockets
    /\ spent \in [Uids -> Nat] /\ hits \in [Limiters -> [LimitKeys -> Nat]]

\* One uid is the other, or the other continued after a colon.
Kin(u, v) == u \in Within[v] \/ v \in Within[u]

\* An unprivileged client hears of an analysis only in a session of its own,
\* and only if it was asked by a client of its own uid (of one of its kin,
\* where uids have colons) or by a privileged one (canJoinRoom and the rooms of
\* the gateway against requireOwnership of the requests: the rule of the one
\* must contain that of the other).
HearsOwn ==
    \A k \in Sockets, j \in Jobs :
        heard[k][j] # <<>> /\ socket[k].user.role \notin Privileged =>
            /\ socket[k].user.uid \in Within[job[j].session]
            /\ Kin(job[j].user.uid, socket[k].user.uid) \/ job[j].user.role \in Privileged

\* The client of a stream, while it is connected, has heard all that was
\* published of it, whoever else streams in the room (the socket joins the
\* room before the stream says its first word, and never leaves it).
AskerHearsAll ==
    \A k \in Sockets, j \in Jobs :
        socket[k].pc = "in" /\ job[j].socket = k => heard[k][j] = told[j]

\* All that is published of a stream, in order: what the body says by its
\* lines, however the reads cut it.
Story(j) ==
    <<"started">> \o (IF job[j].wire = None THEN <<>>
                      ELSE Meaning(job[j].wire.lines, On("ollama")) \o <<"done">>)
                  \o <<"completed", "correlated">>

\* The events of an analysis are those of its story in its order; of one that
\* failed or was cut none says that it is completed, and none is published of
\* one that was refused.
ToldInOrder ==
    \A j \in Jobs :
        /\ IsPrefix(told[j], Story(j))
        /\ "completed" \in ToSet(told[j]) <=> job[j].pc = "ok"
        /\ job[j].pc \in {"refused", "limited"} => told[j] = <<>>

\* The text handed to the memory after a stream is the whole answer, and is
\* handed over only then (runStream collects what it passes on).
RemembersWhole ==
    \A j \in Jobs :
        job[j].pc = "ok" /\ job[j].wire # None =>
            job[j].full = Meaning(job[j].wire.lines, On("ollama"))

\* A client that is logged in is refused by the AI limiter exactly when it
\* has had its own limit of requests in its window: no other client's count,
\* not even at its address, no restart with Redis and no error of the store
\* on another request matter (LimitKey).  A store that fails gives no verdict.
BudgetExact ==
    [][\A j \in Jobs :
          job[j].pc = "limit" /\ job'[j].pc \notin {"limit", "lost", "failed"}
              /\ job[j].user.uid # Anonymous =>
                  (job'[j].pc = "limited" <=> spent[job[j].user.uid] >= Limit["ai"])]_vars

\* A question that is under way comes to an answer or an error, or the
\* process ends (the provider's bodies end, and each step is taken).
AnswerComes ==
    \A j \in Jobs : job[j].pc \in Under ~> job[j].pc \in {"ok", "failed", "refused", "limited", "lost"}

\* After SIGTERM the process ends, whoever stays connected.
ShutsDown == phase = "closing" ~> phase \in {"exit0", "exit1"}

=============================================================================
