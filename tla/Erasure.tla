------------------------------ MODULE Erasure -------------------------------
(***************************************************************************)
(* The data of an account: erasure and export (gdpr.service.ts) over the   *)
(* profile, the inventory, quests, goals and the map of intents, beside    *)
(* the requests that write them and the memory of fragments.               *)
(*                                                                         *)
(* Quests and goals have modules of their own; here each is the set of the *)
(* calls that have created a row, with its owner.  A goal is in Mongo, or  *)
(* in the Map of the process when the flag of the connection was down, and *)
(* each call asks the one repository the flag names at that moment.  Of    *)
(* the intents only the place of their purge in the cascade is kept: an    *)
(* append that straddles an erasure writes back what it has read           *)
(* (IntentMap).                                                            *)
(***************************************************************************)
EXTENDS Embeddings, MongoLink

VARIABLES
    item, removal, gone,   \* of Inventory
    profile,   \* the users with a row in users
    written,   \* written[s]: the rows <<call, user>> of the quests and of each repository of goals
    ensure,    \* ensure[c]: what GET /user/me holds
    erasure,   \* erasure[c]: what DELETE /me holds
    export,    \* export[c]: what GET /me/export holds
    audited    \* the collection security_audit: what was done, and by which call

INSTANCE Inventory

itemVars == <<item, removal, gone>>
accountVars == <<profile, written, ensure, erasure, export, audited>>
vars == <<setting, fragments, ingest, beside, item, removal, gone, up, conn, available,
          profile, written, ensure, erasure, export, audited>>

Repositories == {"mongo", "memory"}   \* of goals
Tables == Repositories \union {"quests"}
Cascade == {"quests", "goals", "inventory", "intents"}

\* The rows there are of a user, by store and call.
Inventoried(u) == {<<"inventory", x>> : x \in {y \in Calls : item[y].live /\ item[y].user = u}}
Rows(t, u) == {r[1] : r \in {q \in written[t] : q[2] = u}}
Goals(b, u) == {"goals"} \X Rows(b, u)
In(s, u) ==
    CASE s = "quests"    -> {"quests"} \X Rows("quests", u)
      [] s = "goals"     -> Goals("mongo", u) \union Goals("memory", u)
      [] s = "inventory" -> Inventoried(u)
      [] s = "intents"   -> {}
Records(u) == UNION {In(s, u) : s \in Cascade}

Record == Cascade \X Calls
Audit == {"user.deleted", "user.exported"} \X Calls

Erasing ==
    [pc     : {"idle", "cascade", "profile", "audit", "ok", "failed", "lost"},
     user   : Users \union {None},
     left   : SUBSET Cascade,       \* purges that are not back
     before : SUBSET Record]        \* history: what there was when it began

Exporting ==
    [pc     : {"idle", "read", "audit", "ok", "failed", "lost"},
     user   : Users \union {None},
     left   : SUBSET Cascade,       \* stores that have not answered
     before : SUBSET Record,
     got    : SUBSET Record]

NotErasing == [pc |-> "idle", user |-> None, left |-> {}, before |-> {}]
NotExporting == [pc |-> "idle", user |-> None, left |-> {}, before |-> {}, got |-> {}]
NotEnsuring == [pc |-> "idle", user |-> None]

\* Types.
TypeOK ==
    /\ MemoryTypeOK
    /\ InventoryTypeOK
    /\ LinkTypeOK
    /\ profile \subseteq Users
    /\ written \in [Tables -> SUBSET (Calls \X Users)]
    /\ ensure \in [Calls -> [pc : {"idle", "upsert", "ok", "failed", "lost"},
                             user : Users \union {None}]]
    /\ erasure \in [Calls -> Erasing]
    /\ export \in [Calls -> Exporting]
    /\ audited \subseteq Audit

Init ==
    /\ MemoryInit
    /\ InventoryInit
    /\ LinkInit
    /\ "outages" \notin setting => up
    /\ profile = {}
    /\ written = [t \in Tables |-> {}]
    /\ ensure = [c \in Calls |-> NotEnsuring]
    /\ erasure = [c \in Calls |-> NotErasing]
    /\ export = [c \in Calls |-> NotExporting]
    /\ audited = {}

\* Every call is one request.
Free(c) ==
    /\ ingest[c] = NoIngestion
    /\ item[c] = NoItem /\ removal[c] = NoRemoval
    /\ \A t \in Tables : \A r \in written[t] : r[1] # c
    /\ ensure[c] = NotEnsuring /\ erasure[c] = NotErasing /\ export[c] = NotExporting
    /\ ~\E x \in Calls, s \in Cascade : <<s, c>> \in erasure[x].before \union export[x].before

----------------------------------------------------------------------------
\* Whether a query may be refused, by the database it is for.
Refused(s) ==
    IF s \in {"goals", "audit"} THEN "outages" \in setting /\ available'
    ELSE "noPostgres" \in setting

\* The proxy of the goals dials and then asks the flag, on every call
\* (goals.repository.ts); a query in Mongo needs the server, one in the Map nothing.
Picked == IF available' THEN "mongo" ELSE "memory"
Pick == GetMongo /\ (available' => up)

\* What a call for store s does to the connection, and how it goes on.
Asks(s) == IF s = "goals" THEN Pick ELSE UNCHANGED link
AsksInVain(s) == (IF s = "goals" THEN GetMongo ELSE UNCHANGED link) /\ Refused(s)
TableOf(s) == IF s = "goals" THEN Picked ELSE s

\* A quest started (an export holds no branches), a goal created.
Write(c, s, u) ==
    /\ Asks(s)
    /\ written' = [written EXCEPT ![TableOf(s)] = @ \union {<<c, u>>}]
    /\ UNCHANGED <<profile, ensure, erasure, export>>

\* UserRepository.ensure.
FindProfile(c, u) ==
    /\ ensure' = [ensure EXCEPT ![c] =
           [pc |-> IF u \in profile THEN "ok" ELSE "upsert", user |-> u]]
    /\ UNCHANGED <<profile, written, erasure, export>>

UpsertProfile(c) ==
    /\ ensure[c].pc = "upsert"
    /\ \/ /\ profile' = profile \union {ensure[c].user}
          /\ ensure' = [ensure EXCEPT ![c].pc = "ok"]
       \/ /\ Refused("profile")
          /\ ensure' = [ensure EXCEPT ![c].pc = "failed"]
          /\ UNCHANGED profile
    /\ UNCHANGED <<written, erasure, export>>

----------------------------------------------------------------------------
(***************************************************************************)
(* purgeUser: four purges at once, then the profile.                       *)
(***************************************************************************)
BeginErase(c, u) ==
    /\ erasure' = [erasure EXCEPT ![c] =
           [pc |-> "cascade", user |-> u, left |-> Cascade, before |-> Records(u)]]
    /\ UNCHANGED <<profile, written, ensure, export>>

\* questRepository.purgeUser and goalsRepository.purgeUser: the latter empties the
\* repository it picks and knows nothing of the other.
EraseOther(c, s) ==
    /\ s \in {"quests", "goals"} \intersect erasure[c].left
    /\ Asks(s)
    /\ written' = [written EXCEPT ![TableOf(s)] = {r \in @ : r[2] # erasure[c].user}]
    /\ erasure' = [erasure EXCEPT ![c].left = @ \ {s}]
    /\ UNCHANGED <<profile, ensure, export>>

EraseItems(c) ==
    /\ "inventory" \in erasure[c].left
    /\ PurgeItems(c, erasure[c].user)
    /\ erasure' = [erasure EXCEPT ![c].left = @ \ {"inventory"}]
    /\ UNCHANGED <<profile, written, ensure, export>>

\* The failure of this purge is caught and counted as zero.
EraseIntents(c) ==
    /\ "intents" \in erasure[c].left
    /\ erasure' = [erasure EXCEPT ![c].left = @ \ {"intents"}]
    /\ UNCHANGED <<profile, written, ensure, export>>

\* Any other failure rejects Promise.all and is answered at once; the rest go on.
EraseRefused(c, s) ==
    /\ AsksInVain(s)
    /\ s \in erasure[c].left \ {"intents"}
    /\ erasure' = [erasure EXCEPT ![c] =
           [erasure[c] EXCEPT !.left = @ \ {s}, !.pc = "failed"]]
    /\ UNCHANGED <<profile, written, ensure, export>>

\* A slip: the first answer is enough.
GatheredFirst(c) == erasure[c].left # Cascade

Gathered(c) == erasure[c].left = {}

EraseGathered(c) ==
    /\ erasure[c].pc = "cascade" /\ Gathered(c)
    /\ erasure' = [erasure EXCEPT ![c].pc = "profile"]
    /\ UNCHANGED <<profile, written, ensure, export>>

\* userRepository.delete.
EraseProfile(c) ==
    /\ erasure[c].pc = "profile"
    /\ \/ /\ profile' = profile \ {erasure[c].user}
          /\ erasure' = [erasure EXCEPT ![c].pc = "audit"]
       \/ /\ Refused("profile")
          /\ erasure' = [erasure EXCEPT ![c].pc = "failed"]
          /\ UNCHANGED profile
    /\ UNCHANGED <<written, ensure, export>>

\* securityAuditRepository.record: with the flag down, or when Mongo refuses, nothing is
\* written.
Recorded(action, c) ==
    /\ UNCHANGED link
    /\ \/ available /\ up /\ audited' = audited \union {<<action, c>>}
       \/ ~available /\ UNCHANGED audited
       \/ Refused("audit") /\ UNCHANGED audited

\* deleteMe: the audit, then the answer.
ErasureRecorded(c) ==
    /\ erasure[c].pc = "audit"
    /\ erasure' = [erasure EXCEPT ![c].pc = "ok"]
    /\ Recorded("user.deleted", c)
    /\ UNCHANGED <<profile, written, ensure, export>>

----------------------------------------------------------------------------
(***************************************************************************)
(* exportUser: the stores are read at once; a failure of the intents is    *)
(* caught.                                                                 *)
(***************************************************************************)
BeginExport(c, u) ==
    /\ export' = [export EXCEPT ![c] =
           [pc |-> "read", user |-> u, left |-> Cascade, before |-> Records(u), got |-> {}]]
    /\ UNCHANGED <<profile, written, ensure, erasure>>

\* What the answer of store s holds: of the goals, those of the repository picked.
Answered(s, u) == IF s = "goals" THEN Goals(Picked, u) ELSE In(s, u)

ExportReads(c, s) ==
    /\ export[c].pc = "read" /\ s \in export[c].left
    /\ Asks(s)
    /\ export' = [export EXCEPT ![c] = [export[c] EXCEPT
           !.left = @ \ {s}, !.got = @ \union Answered(s, export[c].user)]]
    /\ UNCHANGED <<profile, written, ensure, erasure>>

ExportRefused(c, s) ==
    /\ AsksInVain(s)
    /\ export[c].pc = "read" /\ s \in export[c].left \ {"intents"}
    /\ export' = [export EXCEPT ![c].pc = "failed"]
    /\ UNCHANGED <<profile, written, ensure, erasure>>

\* A slip: the answer is sent when the first store has been read.
ReadAny(c) == export[c].left # Cascade

ReadAll(c) == export[c].left = {}

ExportDone(c) ==
    /\ export[c].pc = "read" /\ ReadAll(c)
    /\ export' = [export EXCEPT ![c].pc = "audit"]
    /\ UNCHANGED <<profile, written, ensure, erasure>>

ExportRecorded(c) ==
    /\ export[c].pc = "audit"
    /\ export' = [export EXCEPT ![c].pc = "ok"]
    /\ Recorded("user.exported", c)
    /\ UNCHANGED <<profile, written, ensure, erasure>>

----------------------------------------------------------------------------
\* The Map of goals goes with the process, and so does the flag.
Restart ==
    LET Lost(f, pcs) == [c \in Calls |-> IF f[c].pc \in pcs THEN [f[c] EXCEPT !.pc = "lost"]
                                         ELSE f[c]]
    IN
    /\ "crash" \in setting
    /\ ForgetMemory
    /\ DropRemovals
    /\ CloseMongo
    /\ written' = [written EXCEPT !["memory"] = {}]
    /\ ensure' = Lost(ensure, {"upsert"})
    /\ erasure' = [c \in Calls |-> [Lost(erasure, {"cascade", "profile", "audit"})[c] EXCEPT !.left = {}]]
    /\ export' = Lost(export, {"read", "audit"})
    /\ UNCHANGED <<setting, profile, audited>>

Arrive(c) ==
    /\ Free(c)
    /\ \E u \in Users :
          \/ /\ \E texts \in Documents : Ingest(c, u, texts)
             /\ UNCHANGED <<itemVars, accountVars, link>>
          \/ /\ \/ \E soulbound \in BOOLEAN : AddItem(c, u, soulbound)
                \/ \E x \in Calls : LoadItem(c, u, x)
             /\ UNCHANGED <<memoryVars, accountVars, link>>
          \/ /\ \E s \in {"quests", "goals"} : Write(c, s, u)
             /\ UNCHANGED <<memoryVars, itemVars, audited>>
          \/ /\ FindProfile(c, u) \/ BeginErase(c, u) \/ BeginExport(c, u)
             /\ UNCHANGED <<memoryVars, itemVars, audited, link>>

Proceed(c) ==
    \/ IngestStep(c) /\ UNCHANGED <<itemVars, accountVars, link>>
    \/ /\ RemoveItem(c) \/ (Refused("inventory") /\ RemoveFails(c))
       /\ UNCHANGED <<memoryVars, accountVars, link>>
    \/ EraseItems(c) /\ UNCHANGED <<memoryVars, audited, link>>
    \/ /\ \E s \in Cascade : \/ EraseOther(c, s) \/ EraseRefused(c, s)
                             \/ ExportReads(c, s) \/ ExportRefused(c, s)
       /\ UNCHANGED <<memoryVars, itemVars, audited>>
    \/ /\ \/ UpsertProfile(c) \/ EraseIntents(c) \/ EraseGathered(c) \/ EraseProfile(c)
          \/ ExportDone(c)
       /\ UNCHANGED <<memoryVars, itemVars, audited, link>>
    \/ (ErasureRecorded(c) \/ ExportRecorded(c)) /\ UNCHANGED <<memoryVars, itemVars>>

\* The health check dials; the server goes away and comes back.
Link ==
    /\ GetMongo \/ ("outages" \in setting /\ Blip)
    /\ UNCHANGED <<memoryVars, itemVars, accountVars>>

Next ==
    \/ \E c \in Calls : (Arrive(c) \/ Proceed(c)) /\ UNCHANGED setting
    \/ Link /\ UNCHANGED setting
    \/ Restart

Spec == Init /\ [][Next]_vars

----------------------------------------------------------------------------
(***************************************************************************)
(* Properties.                                                             *)
(***************************************************************************)

\* What an erasure or an export may miss of a user: while Mongo stays reachable nothing,
\* else goals, and only those of the one repository it did not ask.
Missable(rows, u) ==
    /\ rows # {} => "outages" \in setting
    /\ \E b \in Repositories : rows \subseteq Goals(b, u)

\* An erasure that was answered, or of which the audit says that it was done, leaves no
\* quest and no item of those there were when it began, whatever was created, removed,
\* erased or refused beside it; no goal unless Mongo went away, and then of one repository
\* only.  The audit has all answered ones while Mongo stays reachable.
ErasedWhenAnswered ==
    \A c \in Calls :
        /\ erasure[c].pc = "ok" \/ <<"user.deleted", c>> \in audited =>
              Missable(erasure[c].before \intersect Records(erasure[c].user), erasure[c].user)
        /\ erasure[c].pc = "ok" => <<"user.deleted", c>> \in audited \/ "outages" \in setting

\* The profile goes last: when it does, somebody's erasure of that user has taken all else
\* it found but what it may miss, so that a user whose erasure failed can ask again.
ProfileLast ==
    [][\A u \in profile \ profile' : \E c \in Calls :
          erasure[c].user = u /\ Missable(erasure[c].before \intersect Records(u), u)]_profile

\* An export that was answered, or audited, holds all that was there when it was asked for
\* and has not been removed or erased since, although each store was read at its own time;
\* but for goals of a repository it did not ask, when Mongo has gone away.
ExportComplete ==
    \A c \in Calls : export[c].pc = "ok" \/ <<"user.exported", c>> \in audited =>
        Missable((export[c].before \intersect Records(export[c].user)) \ export[c].got,
                 export[c].user)

----------------------------------------------------------------------------
(***************************************************************************)
(* What the documentation says and the code does not keep.                 *)
(***************************************************************************)

\* "kaskadowe usuniecie wszystkich danych uzytkownika" (security.controller.ts:30): an
\* answered erasure has taken all it found.
AllErased ==
    \A c \in Calls : erasure[c].pc = "ok" =>
        erasure[c].before \intersect Records(erasure[c].user) = {}

=============================================================================
