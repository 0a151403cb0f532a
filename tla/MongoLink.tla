----------------------------- MODULE MongoLink -----------------------------
(***************************************************************************)
(* The connection to MongoDB every repository shares (mongo.ts): the       *)
(* cached Connection, and the flag isMongoReady() returns.  The server     *)
(* goes away and comes back on its own; mongoose reconnects the cached     *)
(* Connection by itself, but only the event `disconnected` has a listener. *)
(* MONGO_URL is set: without it nothing here is ever called.               *)
(***************************************************************************)

VARIABLES
    up,         \* the server can be reached
    conn,       \* getMongo has cached a Connection
    available   \* the flag

link == <<up, conn, available>>

LinkTypeOK == up \in BOOLEAN /\ conn \in BOOLEAN /\ available \in BOOLEAN

LinkInit == up \in BOOLEAN /\ conn = FALSE /\ available = FALSE

\* getMongo: callers that arrive while it dials share the promise, so that one
\* dial has one outcome for all of them.
GetMongo ==
    /\ conn' = (conn \/ up)
    /\ available' = IF conn THEN available ELSE up
    /\ UNCHANGED up

\* A query goes through: mongoose buffers it while it is disconnected.
Reachable == up /\ conn

\* The environment.  An outage may end before the driver notices it.
ServerDown == up /\ up' = FALSE /\ UNCHANGED <<conn, available>>
ServerUp == ~up /\ up' = TRUE /\ UNCHANGED <<conn, available>>
Disconnected == ~up /\ available /\ available' = FALSE /\ UNCHANGED <<up, conn>>

Blip == ServerDown \/ ServerUp \/ Disconnected

\* closeMongo, or the end of the process: module variables start afresh.
CloseMongo == conn' = FALSE /\ available' = FALSE /\ UNCHANGED up

=============================================================================
