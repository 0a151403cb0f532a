--------------------------- MODULE Erasure_proofs ---------------------------
(***************************************************************************)
(* Theorems about Erasure, for any users, calls, texts and documents.      *)
(***************************************************************************)
EXTENDS Erasure, TLAPS

USE NoneAssumption

(***************************************************************************)
(* Types                                                                   *)
(***************************************************************************)

\* An ingestion under way has a chunk left.
ChunkLeft ==
    \A c \in Calls :
        /\ Ingesting(c) => Len(ingest[c].out) < Len(ingest[c].texts) /\ ingest[c].session \in Users
        /\ ingest[c].pc = "idle" => ingest[c] = NoIngestion

MemoryInv == MemoryTypeOK /\ ChunkLeft

\* A removal under way has its item, an item that was ever added its user.
ItemInv ==
    /\ InventoryTypeOK
    /\ \A c \in Calls : removal[c].pc = "delete" =>
           removal[c].item \in Calls /\ item[removal[c].item].user \in Users
    /\ \A c \in Calls : item[c] # NoItem => item[c].user \in Users

AccountTypes ==
    /\ profile \subseteq Users
    /\ written \in [Tables -> SUBSET (Calls \X Users)]
    /\ ensure \in [Calls -> [pc : {"idle", "upsert", "ok", "failed", "lost"},
                             user : Users \union {None}]]
    /\ erasure \in [Calls -> Erasing]
    /\ export \in [Calls -> Exporting]
    /\ \A c \in Calls : ensure[c].pc = "upsert" => ensure[c].user \in Users

LEMMA RecordsType ==
    ASSUME ItemInv, AccountTypes, NEW u PROVE Records(u) \subseteq Record
BY DEF Records, Record, In, Goals, Rows, Inventoried, AccountTypes, Cascade, Tables, Repositories

LEMMA ItemStep ==
    ASSUME ItemInv, NEW c \in Calls,
           \/ \E u \in Users, soulbound \in BOOLEAN : AddItem(c, u, soulbound)
           \/ \E u \in Users, x \in Calls : LoadItem(c, u, x)
           \/ RemoveItem(c) \/ RemoveFails(c) \/ \E u : PurgeItems(c, u)
           \/ DropRemovals
    PROVE  ItemInv'
<1>1. ASSUME NEW u \in Users, NEW soulbound \in BOOLEAN, AddItem(c, u, soulbound) PROVE ItemInv'
  BY <1>1 DEF ItemInv, InventoryTypeOK, AddItem, Item, NoItem
<1>2. ASSUME NEW u \in Users, NEW x \in Calls, LoadItem(c, u, x) PROVE ItemInv'
  BY <1>2 DEF ItemInv, InventoryTypeOK, LoadItem, Removal
<1>3. CASE RemoveItem(c)
  <2>1. PICK x : x = removal[c].item
    OBVIOUS
  <2>2. x \in Calls /\ item[x] \in Item /\ item[x].user \in Users
    BY <1>3, <2>1 DEF ItemInv, InventoryTypeOK, RemoveItem
  <2>3. item' = [item EXCEPT ![x] = [item[x] EXCEPT !.live = FALSE]]
    BY <1>3, <2>1 DEF RemoveItem
  <2>4. /\ item' \in [Calls -> Item]
        /\ item'[x].user \in Users /\ \A d \in Calls : item'[d].user = item[d].user
        /\ \A d \in Calls : d # x => item'[d] = item[d]
    BY <2>2, <2>3 DEF ItemInv, InventoryTypeOK, Item
  <2>5. /\ removal' \in [Calls -> Removal]
        /\ \A d \in Calls : removal'[d].pc = "delete" =>
              removal[d].pc = "delete" /\ removal'[d].item = removal[d].item
    BY <1>3 DEF ItemInv, InventoryTypeOK, RemoveItem, Removal
  <2>6. gone' \subseteq Calls \X Calls
    BY <1>3, <2>1, <2>2 DEF ItemInv, InventoryTypeOK, RemoveItem
  <2> QED
    BY <2>4, <2>5, <2>6 DEF ItemInv, InventoryTypeOK
<1>4. CASE RemoveFails(c)
  BY <1>4 DEF ItemInv, InventoryTypeOK, RemoveFails, Removal
<1>5. ASSUME NEW u, PurgeItems(c, u) PROVE ItemInv'
  <2>1. ASSUME NEW d \in Calls
        PROVE  /\ item'[d] \in Item /\ item'[d].user = item[d].user
               /\ item'[d] = item[d] \/ item[d].live
    BY <1>5 DEF ItemInv, InventoryTypeOK, PurgeItems, Taken, Item
  <2>2. item' \in [Calls -> Item]
    BY <1>5, <2>1 DEF PurgeItems
  <2>3. gone' \subseteq Calls \X Calls /\ removal' = removal
    BY <1>5 DEF ItemInv, InventoryTypeOK, PurgeItems
  <2> QED
    BY <2>1, <2>2, <2>3 DEF ItemInv, InventoryTypeOK, NoItem
<1>6. CASE DropRemovals
  BY <1>6 DEF ItemInv, InventoryTypeOK, DropRemovals, Removal
<1> QED
  BY <1>1, <1>2, <1>3, <1>4, <1>5, <1>6

\* What Restart leaves of the calls under way.
LEMMA RestartShape ==
    ASSUME AccountTypes, Restart
    PROVE  /\ profile' = profile /\ audited' = audited
           /\ written' = [written EXCEPT !["memory"] = {}]
           /\ ensure' \in [Calls -> [pc : {"idle", "upsert", "ok", "failed", "lost"},
                                     user : Users \union {None}]]
           /\ \A c \in Calls : ensure'[c].pc # "upsert"
           /\ erasure' \in [Calls -> Erasing] /\ export' \in [Calls -> Exporting]
           /\ \A c \in Calls :
                 /\ erasure'[c].left = {} /\ erasure'[c].user = erasure[c].user
                 /\ erasure'[c].before = erasure[c].before
                 /\ erasure'[c].pc \notin {"cascade", "profile", "audit"}
                 /\ erasure'[c].pc = "ok" <=> erasure[c].pc = "ok"
           /\ \A c \in Calls :
                 /\ export'[c].left = export[c].left /\ export'[c].user = export[c].user
                 /\ export'[c].before = export[c].before /\ export'[c].got = export[c].got
                 /\ export'[c].pc \notin {"read", "audit"}
                 /\ export'[c].pc = "ok" <=> export[c].pc = "ok"
<1>1. /\ profile' = profile /\ audited' = audited
      /\ written' = [written EXCEPT !["memory"] = {}]
      /\ ensure' = [c \in Calls |-> IF ensure[c].pc \in {"upsert"}
                                      THEN [ensure[c] EXCEPT !.pc = "lost"] ELSE ensure[c]]
      /\ export' = [c \in Calls |-> IF export[c].pc \in {"read", "audit"}
                                      THEN [export[c] EXCEPT !.pc = "lost"] ELSE export[c]]
  BY DEF Restart
<1>2. erasure' = [c \in Calls |-> IF erasure[c].pc \in {"cascade", "profile", "audit"}
                                    THEN [erasure[c] EXCEPT !.pc = "lost", !.left = {}]
                                    ELSE [erasure[c] EXCEPT !.left = {}]]
  BY DEF Restart, AccountTypes, Erasing
<1>3. \A c \in Calls :
          /\ erasure'[c] \in Erasing
          /\ erasure'[c].left = {} /\ erasure'[c].user = erasure[c].user
          /\ erasure'[c].before = erasure[c].before
          /\ erasure'[c].pc \notin {"cascade", "profile", "audit"}
          /\ erasure'[c].pc = "ok" <=> erasure[c].pc = "ok"
  BY <1>2 DEF AccountTypes, Erasing
<1>4. \A c \in Calls :
          /\ export'[c] \in Exporting
          /\ export'[c].left = export[c].left /\ export'[c].user = export[c].user
          /\ export'[c].before = export[c].before /\ export'[c].got = export[c].got
          /\ export'[c].pc \notin {"read", "audit"}
          /\ export'[c].pc = "ok" <=> export[c].pc = "ok"
  BY <1>1 DEF AccountTypes, Exporting
<1>5. \A c \in Calls :
          /\ ensure'[c] \in [pc : {"idle", "upsert", "ok", "failed", "lost"},
                             user : Users \union {None}]
          /\ ensure'[c].pc # "upsert"
  BY <1>1 DEF AccountTypes
<1> QED
  BY <1>1, <1>2, <1>3, <1>4, <1>5

LEMMA AccountStep ==
    ASSUME ItemInv, AccountTypes, NEW c \in Calls,
           \/ \E u \in Users : \/ \E s \in {"quests", "goals"} : Write(c, s, u)
                               \/ FindProfile(c, u) \/ BeginErase(c, u) \/ BeginExport(c, u)
           \/ UpsertProfile(c)
           \/ \E s \in Cascade : \/ EraseOther(c, s) \/ EraseRefused(c, s)
                                 \/ ExportReads(c, s) \/ ExportRefused(c, s)
           \/ EraseIntents(c) \/ EraseGathered(c) \/ EraseProfile(c) \/ ExportDone(c)
           \/ EraseItems(c) \/ ErasureRecorded(c) \/ ExportRecorded(c)
    PROVE  AccountTypes'
<1>1. ASSUME NEW u \in Users, NEW s \in {"quests", "goals"}, Write(c, s, u) PROVE AccountTypes'
  <2>0. PICK t : t = TableOf(s)
    OBVIOUS
  <2>1. t \in Tables /\ written' = [written EXCEPT ![t] = @ \union {<<c, u>>}]
    BY <1>1, <2>0 DEF Write, TableOf, Picked, Tables, Repositories
  <2>2. written[t] \union {<<c, u>>} \in SUBSET (Calls \X Users)
    BY <2>1 DEF AccountTypes
  <2>3. written' \in [Tables -> SUBSET (Calls \X Users)]
    BY <2>1, <2>2 DEF AccountTypes
  <2> QED
    BY <1>1, <2>3 DEF AccountTypes, Write
<1>2. ASSUME NEW u \in Users, FindProfile(c, u) PROVE AccountTypes'
  BY <1>2 DEF AccountTypes, FindProfile
<1>3. ASSUME NEW u \in Users, BeginErase(c, u) PROVE AccountTypes'
  <2>1. Records(u) \in SUBSET Record
    BY RecordsType
  <2>2. [pc |-> "cascade", user |-> u, left |-> Cascade, before |-> Records(u)] \in Erasing
    BY <2>1 DEF Erasing
  <2> QED
    BY <1>3, <2>2 DEF AccountTypes, BeginErase
<1>4. ASSUME NEW u \in Users, BeginExport(c, u) PROVE AccountTypes'
  <2>1. Records(u) \in SUBSET Record
    BY RecordsType
  <2>2. [pc |-> "read", user |-> u, left |-> Cascade, before |-> Records(u), got |-> {}]
            \in Exporting
    BY <2>1 DEF Exporting
  <2> QED
    BY <1>4, <2>2 DEF AccountTypes, BeginExport
<1>5. CASE UpsertProfile(c)
  BY <1>5 DEF AccountTypes, UpsertProfile
<1>6. ASSUME NEW s \in Cascade, EraseOther(c, s) PROVE AccountTypes'
  <2>0. PICK t : t = TableOf(s)
    OBVIOUS
  <2>1. /\ t \in Tables
        /\ written' = [written EXCEPT ![t] = {r \in @ : r[2] # erasure[c].user}]
    BY <1>6, <2>0 DEF EraseOther, TableOf, Picked, Tables, Repositories
  <2>2. {r \in written[t] : r[2] # erasure[c].user} \in SUBSET (Calls \X Users)
    BY <2>1 DEF AccountTypes
  <2>3. written' \in [Tables -> SUBSET (Calls \X Users)]
    BY <2>1, <2>2 DEF AccountTypes
  <2>4. erasure' \in [Calls -> Erasing]
    BY <1>6 DEF AccountTypes, EraseOther, Erasing
  <2> QED
    BY <1>6, <2>3, <2>4 DEF AccountTypes, EraseOther
<1>7. ASSUME NEW s \in Cascade, EraseRefused(c, s) PROVE AccountTypes'
  <2> DEFINE e == [erasure[c] EXCEPT !.left = @ \ {s}, !.pc = "failed"]
  <2>1. erasure' = [erasure EXCEPT ![c] = e]
    BY <1>7 DEF EraseRefused
  <2>2. e \in Erasing
    BY DEF AccountTypes, Erasing
  <2> HIDE DEF e
  <2> QED
    BY <1>7, <2>1, <2>2 DEF AccountTypes, EraseRefused
<1>8. ASSUME NEW s \in Cascade, ExportReads(c, s) PROVE AccountTypes'
  <2>1. Answered(s, export[c].user) \subseteq Record
    BY DEF Answered, Picked, In, Goals, Rows, Inventoried, AccountTypes, Record, Cascade, Tables, Repositories
  <2> DEFINE e == [export[c] EXCEPT !.left = @ \ {s}, !.got = @ \union Answered(s, export[c].user)]
  <2>2. export' = [export EXCEPT ![c] = e]
    BY <1>8 DEF ExportReads
  <2>3. e \in Exporting
    BY <2>1 DEF AccountTypes, Exporting
  <2> HIDE DEF e
  <2> QED
    BY <1>8, <2>2, <2>3 DEF AccountTypes, ExportReads
<1>9. ASSUME NEW s \in Cascade, ExportRefused(c, s) PROVE AccountTypes'
  BY <1>9 DEF AccountTypes, ExportRefused, Exporting
<1>10. CASE EraseIntents(c) \/ EraseItems(c)
  <2>1. PICK s \in Cascade : erasure' = [erasure EXCEPT ![c].left = @ \ {s}]
    BY <1>10 DEF EraseIntents, EraseItems, Cascade
  <2> DEFINE e == [erasure[c] EXCEPT !.left = @ \ {s}]
  <2>2. erasure' = [erasure EXCEPT ![c] = e]
    BY <2>1
  <2>3. e \in Erasing
    BY DEF AccountTypes, Erasing
  <2> HIDE DEF e
  <2> QED
    BY <1>10, <2>2, <2>3 DEF AccountTypes, EraseIntents, EraseItems
<1>11. CASE EraseGathered(c) \/ EraseProfile(c) \/ ErasureRecorded(c)
  <2>1. PICK pc \in {"profile", "audit", "failed", "ok"} : erasure' = [erasure EXCEPT ![c].pc = pc]
    BY <1>11 DEF EraseGathered, EraseProfile, ErasureRecorded
  <2> DEFINE e == [erasure[c] EXCEPT !.pc = pc]
  <2>2. erasure' = [erasure EXCEPT ![c] = e] /\ e \in Erasing
    BY <2>1 DEF AccountTypes, Erasing
  <2>3. profile' \subseteq profile /\ UNCHANGED <<written, ensure, export>>
    BY <1>11 DEF EraseGathered, EraseProfile, ErasureRecorded
  <2> HIDE DEF e
  <2> QED
    BY <2>2, <2>3 DEF AccountTypes
<1>12. CASE ExportDone(c) \/ ExportRecorded(c)
  <2>1. PICK pc \in {"audit", "ok"} : export' = [export EXCEPT ![c].pc = pc]
    BY <1>12 DEF ExportDone, ExportRecorded
  <2> DEFINE e == [export[c] EXCEPT !.pc = pc]
  <2>2. export' = [export EXCEPT ![c] = e] /\ e \in Exporting
    BY <2>1 DEF AccountTypes, Exporting
  <2> HIDE DEF e
  <2> QED
    BY <1>12, <2>2 DEF AccountTypes, ExportDone, ExportRecorded
<1> QED
  BY <1>1, <1>2, <1>3, <1>4, <1>5, <1>6, <1>7, <1>8, <1>9, <1>10, <1>11, <1>12

(***************************************************************************)
(* The rows there are: an arriving call adds its own, nothing comes back.  *)
(***************************************************************************)

TypeInv == ItemInv /\ AccountTypes

\* Where rows are, a repository of goals apart from the other.
Bins == Tables \union {"inventory"}
Kind(k) == IF k \in Repositories THEN "goals" ELSE k
Held(k, u) == IF k = "inventory" THEN Inventoried(u) ELSE {Kind(k)} \X Rows(k, u)

LEMMA RecordsHeld ==
    ASSUME NEW u
    PROVE  /\ Records(u) = UNION {Held(k, u) : k \in Bins}
           /\ In("quests", u) = Held("quests", u)
           /\ In("inventory", u) = Held("inventory", u)
           /\ In("goals", u) = Held("mongo", u) \union Held("memory", u)
           /\ In("intents", u) = {}
           /\ \A b \in Repositories : Goals(b, u) = Held(b, u)
BY DEF Records, Cascade, In, Goals, Held, Kind, Bins, Tables, Repositories

LEMMA TableOfType ==
    ASSUME NEW s \in {"quests", "goals"} PROVE TableOf(s) \in Tables /\ Kind(TableOf(s)) = s
BY DEF TableOf, Picked, Tables, Kind, Repositories

LEMMA RowsArrive ==
    ASSUME TypeInv, NEW c \in Calls, Arrive(c), NEW k \in Bins, NEW u
    PROVE  Held(k, u)' \subseteq Held(k, u) \union {<<Kind(k), c>>}
<1>1. CASE item' = item /\ written' = written
  BY <1>1 DEF Held, Rows, Inventoried
<1>2. ASSUME NEW v \in Users, NEW soulbound \in BOOLEAN, AddItem(c, v, soulbound),
             written' = written
      PROVE  Held(k, u)' \subseteq Held(k, u) \union {<<Kind(k), c>>}
  <2>1. \A d \in Calls : d # c => item'[d] = item[d]
    BY <1>2 DEF AddItem, TypeInv, ItemInv, InventoryTypeOK
  <2> QED
    BY <1>2, <2>1 DEF Held, Rows, Inventoried, Kind, Repositories
<1>3. ASSUME NEW v \in Users, NEW s \in {"quests", "goals"}, Write(c, s, v), item' = item
      PROVE  Held(k, u)' \subseteq Held(k, u) \union {<<Kind(k), c>>}
  <2>0. PICK t : t = TableOf(s)
    OBVIOUS
  <2>1. t \in Tables /\ written' = [written EXCEPT ![t] = @ \union {<<c, v>>}]
    BY <1>3, <2>0, TableOfType DEF Write
  <2>2. \A q \in Tables : written'[q] \subseteq written[q] \union {<<c, v>>}
    BY <2>1 DEF TypeInv, AccountTypes
  <2>3. k # "inventory" => Rows(k, u)' \subseteq Rows(k, u) \union {c}
    BY <2>2 DEF Rows, Bins
  <2> QED
    BY <1>3, <2>3 DEF Held, Inventoried
<1> QED
  BY <1>1, <1>2, <1>3
     DEF Arrive, LoadItem, FindProfile, BeginErase, BeginExport, itemVars, accountVars

LEMMA RowsGo ==
    ASSUME TypeInv, \/ \E c \in Calls : Proceed(c)
                    \/ Link \/ Restart \/ UNCHANGED vars,
           NEW k \in Bins, NEW u
    PROVE  Held(k, u)' \subseteq Held(k, u)
<1>1. ASSUME item' = item, \A t \in Tables : written'[t] \subseteq written[t]
      PROVE  Held(k, u)' \subseteq Held(k, u)
  <2>1. k # "inventory" => Rows(k, u)' \subseteq Rows(k, u)
    BY <1>1 DEF Rows, Bins
  <2> QED
    BY <1>1, <2>1 DEF Held, Inventoried
<1>2. ASSUME NEW c \in Calls, NEW s \in Cascade, EraseOther(c, s), item' = item
      PROVE  Held(k, u)' \subseteq Held(k, u)
  <2>0. PICK t : t = TableOf(s)
    OBVIOUS
  <2>1. /\ t \in Tables
        /\ written' = [written EXCEPT ![t] = {r \in @ : r[2] # erasure[c].user}]
    BY <1>2, <2>0, TableOfType DEF EraseOther
  <2>2. \A q \in Tables : written'[q] \subseteq written[q]
    BY <2>1 DEF TypeInv, AccountTypes
  <2> QED
    BY <1>1, <1>2, <2>2
<1>3. ASSUME NEW c \in Calls, RemoveItem(c) \/ EraseItems(c), written' = written
      PROVE  Held(k, u)' \subseteq Held(k, u)
  <2>1. ASSUME NEW d \in Calls, item'[d].live PROVE item[d].live /\ item'[d].user = item[d].user
    <3>1. CASE RemoveItem(c)
      BY <2>1, <3>1 DEF RemoveItem, TypeInv, ItemInv, InventoryTypeOK, Item
    <3>2. CASE EraseItems(c)
      BY <2>1, <3>2 DEF EraseItems, PurgeItems, TypeInv, ItemInv, InventoryTypeOK, Item
    <3> QED
      BY <1>3, <3>1, <3>2
  <2> QED
    BY <1>3, <2>1 DEF Held, Rows, Inventoried
<1>4. CASE Restart
  <2>1. \A q \in Tables : written'[q] \subseteq written[q]
    BY <1>4 DEF Restart, TypeInv, AccountTypes
  <2> QED
    BY <1>1, <1>4, <2>1 DEF Restart, DropRemovals
<1>5. CASE Link \/ UNCHANGED vars
  BY <1>1, <1>5 DEF Link, itemVars, accountVars, vars
<1>6. ASSUME NEW c \in Calls, Proceed(c) PROVE Held(k, u)' \subseteq Held(k, u)
  <2>1. CASE IngestStep(c) /\ UNCHANGED <<itemVars, accountVars>>
    BY <1>1, <2>1 DEF itemVars, accountVars
  <2>2. CASE (RemoveItem(c) \/ RemoveFails(c)) /\ UNCHANGED <<memoryVars, accountVars>>
    BY <1>1, <1>3, <2>2 DEF accountVars, RemoveFails
  <2>3. CASE EraseItems(c)
    BY <1>3, <2>3 DEF EraseItems
  <2>4. ASSUME NEW s \in Cascade, EraseOther(c, s), UNCHANGED itemVars
        PROVE  Held(k, u)' \subseteq Held(k, u)
    BY <1>2, <2>4 DEF itemVars
  <2>5. ASSUME UNCHANGED itemVars,
               \/ UpsertProfile(c)
               \/ \E t \in Cascade : EraseRefused(c, t) \/ ExportReads(c, t) \/ ExportRefused(c, t)
               \/ EraseIntents(c) \/ EraseGathered(c) \/ EraseProfile(c) \/ ExportDone(c)
               \/ ErasureRecorded(c) \/ ExportRecorded(c)
        PROVE  Held(k, u)' \subseteq Held(k, u)
    BY <1>1, <2>5 DEF itemVars, UpsertProfile, EraseRefused, ExportReads, ExportRefused,
                      EraseIntents, EraseGathered, EraseProfile, ExportDone,
                      ErasureRecorded, ExportRecorded
  <2> QED
    BY <1>6, <2>1, <2>2, <2>3, <2>4, <2>5 DEF Proceed
<1> QED
  BY <1>4, <1>5, <1>6

\* What an erasure or an export has noted does not come back once it is gone.
LEMMA NothingReturns ==
    ASSUME TypeInv, [Next]_vars, NEW x \in Calls, NEW k \in Bins, NEW u
    PROVE  /\ erasure[x].before \intersect Held(k, u)' \subseteq Held(k, u)
           /\ export[x].before \intersect Held(k, u)' \subseteq Held(k, u)
<1>1. ASSUME NEW c \in Calls, Arrive(c)
      PROVE  /\ erasure[x].before \intersect Held(k, u)' \subseteq Held(k, u)
             /\ export[x].before \intersect Held(k, u)' \subseteq Held(k, u)
  <2>1. <<Kind(k), c>> \notin erasure[x].before \union export[x].before
    <3>1. Kind(k) \in Cascade
      BY DEF Kind, Bins, Tables, Repositories, Cascade
    <3> QED
      BY <1>1, <3>1 DEF Arrive, Free
  <2> QED
    BY <1>1, <2>1, RowsArrive
<1>2. CASE (\E c \in Calls : Proceed(c)) \/ Link \/ Restart \/ UNCHANGED vars
  BY <1>2, RowsGo
<1> QED
  BY <1>1, <1>2 DEF Next

(***************************************************************************)
(* The connection                                                          *)
(***************************************************************************)

\* While Mongo stays reachable the flag is up as soon as it has been dialled, and the Map
\* of goals stays empty.
Steady ==
    /\ LinkTypeOK
    /\ "outages" \notin setting => up /\ (conn => available) /\ written["memory"] = {}

LEMMA PickSteady ==
    ASSUME Steady, Pick, "outages" \notin setting
    PROVE  /\ up' /\ conn' /\ available' /\ Picked = "mongo"
BY DEF Steady, Pick, GetMongo, Picked, LinkTypeOK

LEMMA SteadyKept == TypeInv /\ Steady /\ [Next]_vars => Steady'
<1> SUFFICES ASSUME TypeInv, Steady, [Next]_vars PROVE Steady'
  OBVIOUS
<1>1. setting' = setting
  BY DEF Next, Restart, vars
<1>2. ASSUME UNCHANGED link \/ GetMongo, written'["memory"] = written["memory"] PROVE Steady'
  BY <1>1, <1>2 DEF Steady, LinkTypeOK, GetMongo, link
<1>3. ASSUME NEW s \in {"quests", "goals"}, Asks(s),
             \A t \in Tables : t # TableOf(s) => written'[t] = written[t]
      PROVE  Steady'
  <2>1. CASE s = "quests"
    BY <1>2, <1>3, <2>1 DEF Asks, TableOf, Tables, Repositories
  <2>2. CASE s = "goals"
    <3>1. LinkTypeOK'
      BY <1>3, <2>2 DEF Asks, Pick, GetMongo, Steady, LinkTypeOK
    <3>2. "outages" \notin setting => written'["memory"] = written["memory"]
      BY <1>3, <2>2, PickSteady DEF Asks, TableOf, Tables, Repositories
    <3> QED
      BY <1>1, <1>3, <2>2, <3>1, <3>2, PickSteady DEF Asks, Steady
  <2> QED
    BY <2>1, <2>2
<1>4. ASSUME NEW c \in Calls, Arrive(c) PROVE Steady'
  <2>1. ASSUME NEW s \in {"quests", "goals"}, NEW u \in Users, Write(c, s, u) PROVE Steady'
    BY <1>3, <2>1, TableOfType DEF Write, TypeInv, AccountTypes
  <2>2. CASE UNCHANGED link /\ written' = written
    BY <1>2, <2>2
  <2> QED
    BY <1>4, <2>1, <2>2 DEF Arrive, accountVars, FindProfile, BeginErase, BeginExport
<1>5. ASSUME NEW c \in Calls, Proceed(c) PROVE Steady'
  <2>1. ASSUME NEW s \in Cascade, EraseOther(c, s) PROVE Steady'
    BY <1>3, <2>1, TableOfType DEF EraseOther, TypeInv, AccountTypes
  <2>2. ASSUME NEW s \in Cascade, EraseRefused(c, s) \/ ExportReads(c, s) \/ ExportRefused(c, s)
        PROVE  Steady'
    BY <1>2, <2>2
       DEF EraseRefused, ExportReads, ExportRefused, AsksInVain, Asks, Pick
  <2>3. CASE UNCHANGED link /\ written' = written
    BY <1>2, <2>3
  <2> QED
    BY <1>5, <2>1, <2>2, <2>3
       DEF Proceed, accountVars, EraseItems, UpsertProfile, EraseIntents, EraseGathered,
           EraseProfile, ExportDone, ErasureRecorded, ExportRecorded, Recorded
<1>6. CASE Link
  <2>1. CASE GetMongo
    BY <1>2, <1>6, <2>1 DEF Link, accountVars
  <2>2. CASE "outages" \in setting /\ Blip
    BY <1>1, <2>2 DEF Blip, ServerDown, ServerUp, Disconnected, Steady, LinkTypeOK
  <2> QED
    BY <1>6, <2>1, <2>2 DEF Link
<1>7. CASE Restart
  BY <1>1, <1>7 DEF Restart, CloseMongo, Steady, LinkTypeOK, TypeInv, AccountTypes, Tables, Repositories
<1>8. CASE UNCHANGED vars
  BY <1>2, <1>8 DEF vars, link
<1> QED
  BY <1>4, <1>5, <1>6, <1>7, <1>8 DEF Next

(***************************************************************************)
(* The inductive invariants                                                *)
(***************************************************************************)

\* Of the stores an erasure has been through, what it had noted is gone; of the goals that
\* is so in the repository it has asked, Mongo while that stays reachable.
ErasedSoFar ==
    \A c \in Calls : erasure[c].pc \in {"cascade", "profile", "audit", "ok"} =>
        /\ \A k \in {"quests", "inventory"} \ erasure[c].left :
               erasure[c].before \intersect Held(k, erasure[c].user) = {}
        /\ "goals" \notin erasure[c].left =>
               \E b \in Repositories :
                   /\ erasure[c].before \intersect Held(b, erasure[c].user) = {}
                   /\ "outages" \notin setting => b = "mongo"
        /\ erasure[c].pc # "cascade" => erasure[c].left = {}
        /\ "outages" \notin setting /\ "goals" \notin erasure[c].left /\ erasure[c].pc # "ok" =>
               conn

\* Of the stores an export has read, what it had noted and is still there was read; of
\* the goals, those of the repository it has asked.
ReadSoFar ==
    \A c \in Calls : export[c].pc \in {"read", "audit", "ok"} =>
        /\ \A k \in {"quests", "inventory"} \ export[c].left :
               export[c].before \intersect Held(k, export[c].user) \subseteq export[c].got
        /\ "goals" \notin export[c].left =>
               \E b \in Repositories :
                   /\ export[c].before \intersect Held(b, export[c].user) \subseteq export[c].got
                   /\ "outages" \notin setting => b = "mongo"
        /\ export[c].pc # "read" => export[c].left = {}

\* The audit has what was answered, and of an erasure it has all, unless Mongo refused.
AuditTrue ==
    /\ audited \subseteq Audit
    /\ \A c \in Calls :
          /\ <<"user.deleted", c>> \in audited => erasure[c].pc = "ok"
          /\ <<"user.exported", c>> \in audited => export[c].pc = "ok"
          /\ erasure[c].pc = "ok" => <<"user.deleted", c>> \in audited \/ "outages" \in setting

\* Which calls are in the reports, and that an item in one was added.
ReportsTrue == ReportedOnce /\ \A r \in gone : item[r[2]].user \in Users

LEMMA TypesKept == TypeInv /\ [Next]_vars => TypeInv'
<1> SUFFICES ASSUME TypeInv, [Next]_vars PROVE TypeInv'
  OBVIOUS
<1>1. ASSUME UNCHANGED itemVars PROVE ItemInv'
  BY <1>1 DEF TypeInv, ItemInv, InventoryTypeOK, itemVars
<1>2. ASSUME UNCHANGED accountVars PROVE AccountTypes'
  BY <1>2 DEF TypeInv, AccountTypes, accountVars
<1>3. ASSUME NEW c \in Calls, Arrive(c) PROVE TypeInv'
  BY <1>1, <1>2, <1>3, ItemStep, AccountStep DEF Arrive, TypeInv
<1>4. ASSUME NEW c \in Calls, Proceed(c) PROVE TypeInv'
  <2>1. CASE EraseItems(c)
    BY <2>1, ItemStep, AccountStep DEF EraseItems, TypeInv
  <2>2. CASE (RemoveItem(c) \/ RemoveFails(c)) /\ UNCHANGED accountVars
    BY <1>2, <2>2, ItemStep DEF TypeInv
  <2> QED
    BY <1>1, <1>2, <1>4, <2>1, <2>2, AccountStep DEF Proceed, TypeInv
<1>5. CASE Restart
  <2>1. DropRemovals
    BY <1>5 DEF Restart
  <2>2. ItemInv'
    BY <2>1 DEF TypeInv, ItemInv, InventoryTypeOK, DropRemovals, Removal
  <2>3. AccountTypes'
    BY <1>5, RestartShape DEF TypeInv, AccountTypes
  <2> QED
    BY <2>2, <2>3 DEF TypeInv
<1>6. CASE UNCHANGED vars
  BY <1>1, <1>2, <1>6 DEF vars, itemVars, accountVars, TypeInv
<1>7. CASE Link
  BY <1>1, <1>2, <1>7 DEF Link, TypeInv
<1> QED
  BY <1>3, <1>4, <1>5, <1>6, <1>7 DEF Next

\* What ErasedSoFar says of one erasure.
ErasedBy(x) ==
    erasure[x].pc \in {"cascade", "profile", "audit", "ok"} =>
        /\ \A k \in {"quests", "inventory"} \ erasure[x].left :
               erasure[x].before \intersect Held(k, erasure[x].user) = {}
        /\ "goals" \notin erasure[x].left =>
               \E b \in Repositories :
                   /\ erasure[x].before \intersect Held(b, erasure[x].user) = {}
                   /\ "outages" \notin setting => b = "mongo"
        /\ erasure[x].pc # "cascade" => erasure[x].left = {}
        /\ "outages" \notin setting /\ "goals" \notin erasure[x].left /\ erasure[x].pc # "ok" =>
               conn

LEMMA ErasureKept == TypeInv /\ Steady /\ ErasedSoFar /\ [Next]_vars => ErasedSoFar'
<1> SUFFICES ASSUME TypeInv, Steady, ErasedSoFar, [Next]_vars, NEW x \in Calls PROVE ErasedBy(x)'
  BY DEF ErasedSoFar, ErasedBy
<1>0. ErasedBy(x) /\ setting' = setting /\ (conn /\ ~Restart => conn')
  <2>1. ErasedBy(x)
    BY DEF ErasedSoFar, ErasedBy
  <2>2. setting' = setting
    BY DEF Next, Restart, vars
  <2>3. ASSUME conn, ~Restart PROVE conn'
    BY <2>3 DEF Next, Link, vars, link, Blip, ServerDown, ServerUp, Disconnected, GetMongo,
                Arrive, Proceed, Write, EraseOther, EraseRefused, ExportReads, ExportRefused,
                AsksInVain, Asks, Pick, EraseItems, ErasureRecorded, ExportRecorded, Recorded
  <2> QED
    BY <2>1, <2>2, <2>3
<1>1. ASSUME NEW k \in Bins, NEW u, erasure[x].before \intersect Held(k, u) = {}
      PROVE  erasure[x].before \intersect Held(k, u)' = {}
  BY <1>1, NothingReturns
<1>k. "quests" \in Bins /\ "inventory" \in Bins /\ \A b \in Repositories : b \in Bins
  BY DEF Bins, Tables, Repositories
<1>u. PICK u : u = erasure[x].user
  OBVIOUS
<1>h. ASSUME erasure'[x].user = u
      PROVE  \A k \in Bins : Held(k, erasure[x].user)' = Held(k, u)'
  BY <1>h DEF Held, Kind, Rows, Inventoried
<1>2. ASSUME erasure'[x].user = erasure[x].user, erasure'[x].before = erasure[x].before,
             erasure'[x].left = erasure[x].left,
             erasure[x].pc \in {"cascade", "profile", "audit", "ok"},
             erasure'[x].pc # "cascade" => erasure'[x].left = {},
             erasure'[x].pc = erasure[x].pc \/ erasure[x].pc # "ok",
             ~Restart
      PROVE  ErasedBy(x)'
  BY <1>0, <1>1, <1>2, <1>k, <1>h, <1>u DEF ErasedBy
<1>3. CASE erasure'[x] = erasure[x] /\ ~Restart
  <2>1. CASE erasure[x].pc \in {"cascade", "profile", "audit", "ok"}
    BY <1>0, <1>2, <1>3, <2>1 DEF ErasedBy
  <2> QED
    BY <1>3, <2>1 DEF ErasedBy
<1>4. CASE Restart
  <2>1. /\ erasure'[x].left = {} /\ erasure'[x].user = erasure[x].user
        /\ erasure'[x].before = erasure[x].before
        /\ erasure'[x].pc \notin {"cascade", "profile", "audit"}
        /\ erasure'[x].pc = "ok" <=> erasure[x].pc = "ok"
    BY <1>4, RestartShape DEF TypeInv
  <2>2. ASSUME erasure[x].pc = "ok" PROVE ErasedBy(x)'
    <3>1. erasure[x].left = {}
      BY <1>0, <2>2 DEF ErasedBy
    <3>2. \A k \in {"quests", "inventory"} : erasure[x].before \intersect Held(k, u)' = {}
      BY <1>0, <1>1, <1>k, <1>u, <2>2, <3>1 DEF ErasedBy
    <3>3. \E b \in Repositories : /\ erasure[x].before \intersect Held(b, u)' = {}
                                  /\ "outages" \notin setting => b = "mongo"
      BY <1>0, <1>1, <1>k, <1>u, <2>2, <3>1 DEF ErasedBy
    <3>4. erasure'[x].pc = "ok"
      BY <2>1, <2>2
    <3> QED
      BY <1>0, <1>h, <1>u, <1>k, <2>1, <3>2, <3>3, <3>4 DEF ErasedBy
  <2> QED
    BY <2>1, <2>2 DEF ErasedBy
<1>5. ASSUME NEW v \in Users, BeginErase(x, v) PROVE ErasedBy(x)'
  <2>1. erasure'[x].left = Cascade /\ erasure'[x].pc = "cascade"
    BY <1>5 DEF BeginErase, TypeInv, AccountTypes
  <2> QED
    BY <2>1 DEF ErasedBy, Cascade
<1>6. ASSUME NEW s \in Cascade, s \in erasure[x].left,
             erasure'[x].left = erasure[x].left \ {s},
             erasure'[x].pc = erasure[x].pc, erasure'[x].user = erasure[x].user,
             erasure'[x].before = erasure[x].before, ~Restart,
             s \in {"quests", "inventory"} => Held(s, u)' = {},
             s = "goals" => \E b \in Repositories :
                                /\ Held(b, u)' = {}
                                /\ "outages" \notin setting => b = "mongo" /\ conn'
      PROVE  ErasedBy(x)'
  <2> SUFFICES ASSUME erasure[x].pc \in {"cascade", "profile", "audit", "ok"} PROVE ErasedBy(x)'
    BY <1>6 DEF ErasedBy
  <2>1. \A k \in {"quests", "inventory"} \ erasure'[x].left :
            erasure[x].before \intersect Held(k, u)' = {}
    BY <1>0, <1>1, <1>6, <1>k, <1>u DEF ErasedBy
  <2>2. "goals" \notin erasure'[x].left =>
            \E b \in Repositories : /\ erasure[x].before \intersect Held(b, u)' = {}
                                    /\ "outages" \notin setting => b = "mongo"
    BY <1>0, <1>1, <1>6, <1>k, <1>u DEF ErasedBy
  <2>3. /\ erasure'[x].pc # "cascade" => erasure'[x].left = {}
        /\ "outages" \notin setting /\ "goals" \notin erasure'[x].left /\ erasure'[x].pc # "ok" =>
               conn'
    BY <1>0, <1>6 DEF ErasedBy
  <2> QED
    BY <1>0, <1>6, <1>h, <1>u, <1>k, <2>1, <2>2, <2>3 DEF ErasedBy
<1>7. ASSUME NEW s \in Cascade, EraseOther(x, s), ~Restart PROVE ErasedBy(x)'
  <2>0. PICK t : t = TableOf(s)
    OBVIOUS
  <2>1. /\ erasure'[x].left = erasure[x].left \ {s} /\ s \in erasure[x].left
        /\ erasure'[x].pc = erasure[x].pc /\ erasure'[x].user = erasure[x].user
        /\ erasure'[x].before = erasure[x].before
        /\ s \in {"quests", "goals"} /\ Asks(s)
    BY <1>7 DEF EraseOther, TypeInv, AccountTypes, Erasing
  <2>2. t \in Tables /\ t # "inventory" /\ (s = "quests" => t = s)
        /\ (s = "goals" => t \in Repositories /\ t = Picked)
    BY <2>0, <2>1, TableOfType DEF TableOf, Picked, Tables, Repositories
  <2>3. written' = [written EXCEPT ![t] = {r \in @ : r[2] # u}]
    BY <1>7, <1>u, <2>0 DEF EraseOther
  <2>4. Held(t, u)' = {}
    <3>1. written'[t] = {r \in written[t] : r[2] # u}
      BY <2>2, <2>3 DEF TypeInv, AccountTypes
    <3>3. Rows(t, u)' = {}
      BY <3>1 DEF Rows
    <3> QED
      BY <2>2, <3>3 DEF Held
  <2>5. s = "goals" /\ "outages" \notin setting => t = "mongo" /\ conn'
    BY <2>1, <2>2, PickSteady DEF Asks
  <2> QED
    BY <1>6, <1>7, <2>1, <2>2, <2>4, <2>5
<1>8. ASSUME EraseItems(x), ~Restart PROVE ErasedBy(x)'
  <2>1. /\ erasure'[x].left = erasure[x].left \ {"inventory"}
        /\ "inventory" \in erasure[x].left
        /\ erasure'[x].pc = erasure[x].pc /\ erasure'[x].user = erasure[x].user
        /\ erasure'[x].before = erasure[x].before
    BY <1>8 DEF EraseItems, TypeInv, AccountTypes, Erasing
  <2>2. \A y \in Calls : ~ (item'[y].live /\ item'[y].user = u)
    BY <1>8, <1>u, <2>1 DEF EraseItems, PurgeItems, Taken, TypeInv, ItemInv, InventoryTypeOK, Item
  <2>3. Held("inventory", u)' = {}
    BY <2>1, <2>2 DEF Held, Inventoried
  <2> QED
    BY <1>6, <1>8, <2>1, <2>3 DEF Cascade
<1>9. ASSUME EraseIntents(x), ~Restart PROVE ErasedBy(x)'
  <2>1. /\ erasure'[x].left = erasure[x].left \ {"intents"}
        /\ "intents" \in erasure[x].left
        /\ erasure'[x].pc = erasure[x].pc /\ erasure'[x].user = erasure[x].user
        /\ erasure'[x].before = erasure[x].before
    BY <1>9 DEF EraseIntents, TypeInv, AccountTypes, Erasing
  <2> QED
    BY <1>6, <1>9, <2>1 DEF Cascade
<1>10. ASSUME NEW s \in Cascade, EraseRefused(x, s) PROVE ErasedBy(x)'
  <2> DEFINE e == [erasure[x] EXCEPT !.left = @ \ {s}, !.pc = "failed"]
  <2>1. erasure' = [erasure EXCEPT ![x] = e] /\ e.pc = "failed"
    BY <1>10 DEF EraseRefused, TypeInv, AccountTypes, Erasing
  <2> HIDE DEF e
  <2>2. erasure'[x].pc = "failed"
    BY <2>1 DEF TypeInv, AccountTypes
  <2> QED
    BY <2>2 DEF ErasedBy
<1>11. ASSUME EraseGathered(x) \/ EraseProfile(x) \/ ErasureRecorded(x), ~Restart PROVE ErasedBy(x)'
  <2>1. /\ erasure[x].pc \in {"cascade", "profile", "audit"} /\ erasure[x].left = {}
        /\ erasure'[x].left = {} /\ erasure'[x].before = erasure[x].before
        /\ erasure'[x].user = erasure[x].user
    BY <1>0, <1>11 DEF EraseGathered, Gathered, EraseProfile, ErasureRecorded, TypeInv, AccountTypes, Erasing, ErasedBy
  <2> QED
    BY <1>2, <1>11, <2>1
<1>12. ASSUME NEW c \in Calls, Arrive(c),
              ~ (c = x /\ \E v \in Users : BeginErase(x, v))
       PROVE  erasure'[x] = erasure[x]
  BY <1>12 DEF Arrive, accountVars, Write, FindProfile, BeginErase, BeginExport, TypeInv, AccountTypes
<1>13. ASSUME NEW c \in Calls, Proceed(c), c # x PROVE erasure'[x] = erasure[x]
  BY <1>13 DEF Proceed, accountVars, EraseItems, UpsertProfile, EraseOther, EraseRefused,
               ExportReads, ExportRefused, EraseIntents, EraseGathered, EraseProfile, ExportDone,
               ErasureRecorded, ExportRecorded, TypeInv, AccountTypes
<1>14. ASSUME Proceed(x),
              ~ \E s \in Cascade : EraseOther(x, s) \/ EraseRefused(x, s),
              ~ (EraseItems(x) \/ EraseIntents(x) \/ EraseGathered(x) \/ EraseProfile(x)),
              ~ ErasureRecorded(x)
       PROVE  erasure'[x] = erasure[x]
  BY <1>14 DEF Proceed, accountVars, UpsertProfile, ExportReads, ExportRefused, ExportDone,
               ExportRecorded
<1>15. CASE Proceed(x) /\ ~Restart
  BY <1>3, <1>7, <1>8, <1>9, <1>10, <1>11, <1>14, <1>15
<1>16. ASSUME NEW c \in Calls, Arrive(c) \/ Proceed(c), ~Restart PROVE ErasedBy(x)'
  BY <1>3, <1>5, <1>12, <1>13, <1>15, <1>16
<1>17. CASE (Link \/ UNCHANGED vars) /\ ~Restart
  BY <1>3, <1>17 DEF Link, accountVars, vars
<1> QED
  BY <1>4, <1>16, <1>17 DEF Next

\* What ReadSoFar says of one export.
ReadBy(x) ==
    export[x].pc \in {"read", "audit", "ok"} =>
        /\ \A k \in {"quests", "inventory"} \ export[x].left :
               export[x].before \intersect Held(k, export[x].user) \subseteq export[x].got
        /\ "goals" \notin export[x].left =>
               \E b \in Repositories :
                   /\ export[x].before \intersect Held(b, export[x].user) \subseteq export[x].got
                   /\ "outages" \notin setting => b = "mongo"
        /\ export[x].pc # "read" => export[x].left = {}

LEMMA ExportKept == TypeInv /\ Steady /\ ReadSoFar /\ [Next]_vars => ReadSoFar'
<1> SUFFICES ASSUME TypeInv, Steady, ReadSoFar, [Next]_vars, NEW x \in Calls PROVE ReadBy(x)'
  BY DEF ReadSoFar, ReadBy
<1>0. ReadBy(x) /\ setting' = setting
  BY DEF ReadSoFar, ReadBy, Next, Restart, vars
<1>1. ASSUME NEW k \in Bins, NEW u
      PROVE  export[x].before \intersect Held(k, u)' \subseteq export[x].before \intersect Held(k, u)
  BY NothingReturns
<1>k. "quests" \in Bins /\ "inventory" \in Bins /\ \A b \in Repositories : b \in Bins
  BY DEF Bins, Tables, Repositories
<1>u. PICK u : u = export[x].user
  OBVIOUS
<1>h. ASSUME export'[x].user = u
      PROVE  \A k \in Bins : Held(k, export[x].user)' = Held(k, u)'
  BY <1>h DEF Held, Kind, Rows, Inventoried
<1>2. ASSUME export'[x].user = export[x].user, export'[x].before = export[x].before,
             export'[x].got = export[x].got,
             export[x].pc \in {"read", "audit", "ok"}, export'[x].left = export[x].left,
             export'[x].pc # "read" => export'[x].left = {}
      PROVE  ReadBy(x)'
  <2>1. \A k \in {"quests", "inventory"} \ export'[x].left :
            export[x].before \intersect Held(k, u)' \subseteq export[x].got
    BY <1>0, <1>1, <1>2, <1>k, <1>u DEF ReadBy
  <2>2. "goals" \notin export'[x].left =>
            \E b \in Repositories :
                /\ export[x].before \intersect Held(b, u)' \subseteq export[x].got
                /\ "outages" \notin setting => b = "mongo"
    BY <1>0, <1>1, <1>2, <1>k, <1>u DEF ReadBy
  <2> QED
    BY <1>0, <1>2, <1>h, <1>u, <1>k, <2>1, <2>2 DEF ReadBy
<1>3. CASE export'[x] = export[x]
  <2>1. CASE export[x].pc \in {"read", "audit", "ok"}
    BY <1>0, <1>2, <1>3, <2>1 DEF ReadBy
  <2> QED
    BY <1>3, <2>1 DEF ReadBy
<1>4. CASE Restart
  <2>1. /\ export'[x].left = export[x].left /\ export'[x].user = export[x].user
        /\ export'[x].before = export[x].before /\ export'[x].got = export[x].got
        /\ export'[x].pc \notin {"read", "audit"}
        /\ export'[x].pc = "ok" <=> export[x].pc = "ok"
    BY <1>4, RestartShape DEF TypeInv
  <2>2. CASE export[x].pc = "ok"
    BY <1>0, <1>2, <2>1, <2>2 DEF ReadBy
  <2> QED
    BY <2>1, <2>2 DEF ReadBy
<1>5. ASSUME NEW v \in Users, BeginExport(x, v) PROVE ReadBy(x)'
  <2>1. export'[x].left = Cascade /\ export'[x].pc = "read"
    BY <1>5 DEF BeginExport, TypeInv, AccountTypes
  <2> QED
    BY <2>1 DEF ReadBy, Cascade
<1>6. ASSUME NEW s \in Cascade, ExportReads(x, s), UNCHANGED itemVars PROVE ReadBy(x)'
  <2> DEFINE a == Answered(s, u)
  <2>1. /\ export'[x].left = export[x].left \ {s} /\ export'[x].user = export[x].user
        /\ export'[x].pc = "read" /\ export[x].pc = "read"
        /\ export'[x].before = export[x].before
        /\ export'[x].got = export[x].got \union a
        /\ Asks(s)
    <3> DEFINE e == [export[x] EXCEPT !.left = @ \ {s}, !.got = @ \union a]
    <3>1. export'[x] = e /\ export[x].pc = "read" /\ Asks(s)
      BY <1>6, <1>u DEF ExportReads, TypeInv, AccountTypes
    <3>2. /\ e.left = export[x].left \ {s} /\ e.user = export[x].user /\ e.pc = export[x].pc
          /\ e.before = export[x].before
          /\ e.got = export[x].got \union a
      BY DEF TypeInv, AccountTypes, Exporting
    <3> HIDE DEF e
    <3> QED
      BY <3>1, <3>2
  <2>2. /\ s \in {"quests", "inventory"} => a = Held(s, u)
        /\ s = "goals" => \E b \in Repositories : /\ a = Held(b, u)
                                                  /\ "outages" \notin setting => b = "mongo"
    <3>1. s # "goals" => a = In(s, u)
      BY DEF Answered
    <3>2. s = "goals" => a = Held(Picked, u) /\ Picked \in Repositories
      BY RecordsHeld DEF Answered, Picked, Repositories
    <3>3. s = "goals" /\ "outages" \notin setting => Picked = "mongo"
      BY <2>1, PickSteady DEF Asks
    <3> QED
      BY <3>1, <3>2, <3>3, RecordsHeld
  <2> HIDE DEF a
  <2>4. \A k \in {"quests", "inventory"} \ export'[x].left :
            export[x].before \intersect Held(k, u)' \subseteq export'[x].got
    <3> SUFFICES ASSUME NEW k \in {"quests", "inventory"} \ export'[x].left
                 PROVE  export[x].before \intersect Held(k, u)' \subseteq export'[x].got
      OBVIOUS
    <3>1. export[x].before \intersect Held(k, u)' \subseteq export[x].before \intersect Held(k, u)
      BY <1>1, <1>k
    <3>2. CASE k = s
      BY <2>1, <2>2, <3>1, <3>2
    <3>3. CASE k # s
      BY <1>0, <2>1, <1>u, <3>1, <3>3 DEF ReadBy
    <3> QED
      BY <3>2, <3>3
  <2>5. "goals" \notin export'[x].left =>
            \E b \in Repositories :
                /\ export[x].before \intersect Held(b, u)' \subseteq export'[x].got
                /\ "outages" \notin setting => b = "mongo"
    <3> SUFFICES ASSUME "goals" \notin export'[x].left
                 PROVE  \E b \in Repositories :
                            /\ export[x].before \intersect Held(b, u)' \subseteq export'[x].got
                            /\ "outages" \notin setting => b = "mongo"
      OBVIOUS
    <3>1. \A b \in Repositories :
              export[x].before \intersect Held(b, u)' \subseteq export[x].before \intersect Held(b, u)
      BY <1>1, <1>k
    <3>2. CASE s = "goals"
      BY <2>1, <2>2, <3>1, <3>2
    <3>3. CASE s # "goals"
      BY <1>0, <2>1, <1>u, <3>1, <3>3 DEF ReadBy
    <3> QED
      BY <3>2, <3>3
  <2> QED
    BY <1>0, <1>h, <1>u, <1>k, <2>1, <2>4, <2>5 DEF ReadBy
<1>7. ASSUME NEW s \in Cascade, ExportRefused(x, s) PROVE ReadBy(x)'
  BY <1>7 DEF ExportRefused, TypeInv, AccountTypes, Exporting, ReadBy
<1>8. CASE ExportDone(x) \/ ExportRecorded(x)
  <2>1. /\ export[x].pc \in {"read", "audit"} /\ export[x].left = {}
        /\ export'[x].left = {} /\ export'[x].before = export[x].before
        /\ export'[x].user = export[x].user /\ export'[x].got = export[x].got
    BY <1>0, <1>8 DEF ExportDone, ReadAll, ExportRecorded, ReadBy, TypeInv, AccountTypes, Exporting
  <2> QED
    BY <1>2, <2>1
<1>9. ASSUME NEW c \in Calls, Arrive(c),
             ~ (c = x /\ \E v \in Users : BeginExport(x, v))
      PROVE  export'[x] = export[x]
  BY <1>9 DEF Arrive, accountVars, Write, FindProfile, BeginErase, BeginExport, TypeInv, AccountTypes
<1>10. ASSUME NEW c \in Calls, Proceed(c), c # x PROVE export'[x] = export[x]
  BY <1>10 DEF Proceed, accountVars, EraseItems, UpsertProfile, EraseOther, EraseRefused,
              ExportReads, ExportRefused, EraseIntents, EraseGathered, EraseProfile, ExportDone,
              ErasureRecorded, ExportRecorded, TypeInv, AccountTypes
<1>11. ASSUME Proceed(x),
              ~ \E s \in Cascade : (ExportReads(x, s) /\ UNCHANGED itemVars) \/ ExportRefused(x, s),
              ~ (ExportDone(x) \/ ExportRecorded(x))
       PROVE  export'[x] = export[x]
  BY <1>11 DEF Proceed, accountVars, EraseItems, UpsertProfile, EraseOther, EraseRefused,
               EraseIntents, EraseGathered, EraseProfile, ErasureRecorded
<1>12. ASSUME NEW c \in Calls, Arrive(c) \/ Proceed(c) PROVE ReadBy(x)'
  BY <1>3, <1>5, <1>6, <1>7, <1>8, <1>9, <1>10, <1>11, <1>12
<1>13. CASE Link \/ UNCHANGED vars
  BY <1>3, <1>13 DEF Link, accountVars, vars
<1> QED
  BY <1>4, <1>12, <1>13 DEF Next

LEMMA ReportsKept == TypeInv /\ ReportsTrue /\ [Next]_vars => ReportsTrue'
<1> SUFFICES ASSUME TypeInv, ReportsTrue, [Next]_vars PROVE ReportsTrue'
  OBVIOUS
<1>1. CASE UNCHANGED <<item, gone>>
  BY <1>1 DEF ReportsTrue, ReportedOnce
<1>2. gone \subseteq Calls \X Calls /\ item \in [Calls -> Item]
  BY DEF TypeInv, ItemInv, InventoryTypeOK
<1>3. ASSUME NEW c \in Calls, NEW u \in Users, NEW soulbound \in BOOLEAN, AddItem(c, u, soulbound)
      PROVE  ReportsTrue'
  <2>1. /\ gone' = gone /\ item[c].user = None
        /\ \A d \in Calls : d # c => item'[d] = item[d]
    BY <1>3 DEF AddItem, NoItem, TypeInv, ItemInv, InventoryTypeOK
  <2>2. \A r \in gone : r[2] \in Calls /\ r[2] # c
    BY <1>2, <2>1 DEF ReportsTrue
  <2> QED
    BY <2>1, <2>2 DEF ReportsTrue, ReportedOnce
<1>4. ASSUME NEW c \in Calls, RemoveItem(c) PROVE ReportsTrue'
  <2>1. PICK x \in Calls : x = removal[c].item /\ item[x].user \in Users
    BY <1>4 DEF RemoveItem, TypeInv, ItemInv
  <2>2. /\ \A d \in Calls : item'[d].user = item[d].user /\ (item'[d].live => item[d].live)
        /\ ~ item'[x].live
        /\ gone' = IF item[x].live THEN gone \union {<<c, x>>} ELSE gone
    BY <1>2, <1>4, <2>1 DEF RemoveItem, Found, Item
  <2> QED
    BY <1>2, <2>1, <2>2 DEF ReportsTrue, ReportedOnce
<1>5. ASSUME NEW c \in Calls, EraseItems(c) PROVE ReportsTrue'
  <2>1. PICK taken \in SUBSET Calls :
            /\ \A d \in taken : item[d].live /\ item[d].user = erasure[c].user
            /\ item' = [d \in Calls |-> IF d \in taken THEN [item[d] EXCEPT !.live = FALSE] ELSE item[d]]
            /\ gone' = gone \union ({c} \X taken)
    <3> DEFINE taken == {d \in Calls : Taken(d, erasure[c].user)}
    <3>1. /\ item' = [d \in Calls |-> IF d \in taken THEN [item[d] EXCEPT !.live = FALSE] ELSE item[d]]
          /\ gone' = gone \union ({c} \X taken)
      BY <1>5 DEF EraseItems, PurgeItems
    <3>2. \A d \in taken : item[d].live /\ item[d].user = erasure[c].user
      BY DEF Taken
    <3>3. taken \in SUBSET Calls
      OBVIOUS
    <3> HIDE DEF taken
    <3> QED
      BY <3>1, <3>2, <3>3
  <2>2. \A d \in Calls : /\ item'[d].user = item[d].user /\ (item'[d].live => item[d].live)
                         /\ d \in taken => ~ item'[d].live
    BY <1>2, <2>1 DEF Item
  <2>3. \A d \in taken : item[d].user \in Users
    BY <2>1 DEF TypeInv, ItemInv, NoItem
  <2> QED
    BY <1>2, <2>1, <2>2, <2>3 DEF ReportsTrue, ReportedOnce
<1>6. ASSUME NEW c \in Calls, Arrive(c) PROVE ReportsTrue'
  BY <1>1, <1>3, <1>6 DEF Arrive, itemVars, LoadItem
<1>7. ASSUME NEW c \in Calls, Proceed(c) PROVE ReportsTrue'
  BY <1>1, <1>4, <1>5, <1>7 DEF Proceed, itemVars, RemoveFails
<1> QED
  BY <1>1, <1>6, <1>7 DEF Next, Link, itemVars, Restart, DropRemovals, vars

LEMMA AuditKept == TypeInv /\ Steady /\ ErasedSoFar /\ AuditTrue /\ [Next]_vars => AuditTrue'
<1> SUFFICES ASSUME TypeInv, Steady, ErasedSoFar, AuditTrue, [Next]_vars PROVE AuditTrue'
  OBVIOUS
<1>1. setting' = setting
  BY DEF Next, Restart, vars
<1>2. ASSUME \A c \in Calls : /\ erasure'[c].pc = "ok" <=> erasure[c].pc = "ok"
                              /\ export'[c].pc = "ok" <=> export[c].pc = "ok",
             audited' = audited
      PROVE  AuditTrue'
  BY <1>1, <1>2 DEF AuditTrue
<1>3. ASSUME NEW c \in Calls, Arrive(c) PROVE AuditTrue'
  <2>1. audited' = audited
    BY <1>3 DEF Arrive, accountVars
  <2>2. \A d \in Calls : /\ erasure'[d].pc = "ok" <=> erasure[d].pc = "ok"
                         /\ export'[d].pc = "ok" <=> export[d].pc = "ok"
    BY <1>3 DEF Arrive, Free, accountVars, Write, FindProfile, BeginErase, BeginExport,
                NotErasing, NotExporting, TypeInv, AccountTypes
  <2> QED
    BY <1>2, <2>1, <2>2
<1>4. ASSUME NEW c \in Calls, Proceed(c), ~ErasureRecorded(c), ~ExportRecorded(c) PROVE AuditTrue'
  <2>1. audited' = audited
    BY <1>4 DEF Proceed, accountVars
  <2>2. \A d \in Calls : export'[d].pc = "ok" <=> export[d].pc = "ok"
    <3>1. ASSUME NEW s \in Cascade, ExportReads(c, s)
          PROVE  \A d \in Calls : export'[d].pc = export[d].pc
      <4> DEFINE e == [export[c] EXCEPT !.left = @ \ {s}, !.got = @ \union Answered(s, export[c].user)]
      <4>1. e.pc = export[c].pc
        BY DEF TypeInv, AccountTypes, Exporting
      <4>2. export' = [export EXCEPT ![c] = e]
        BY <3>1 DEF ExportReads
      <4> HIDE DEF e
      <4> QED
        BY <4>1, <4>2 DEF TypeInv, AccountTypes
    <3>2. CASE ExportDone(c) \/ \E s \in Cascade : ExportRefused(c, s)
      BY <3>2 DEF ExportDone, ExportRefused, TypeInv, AccountTypes, Exporting
    <3> QED
      BY <1>4, <3>1, <3>2
         DEF Proceed, accountVars, EraseItems, UpsertProfile, EraseOther, EraseRefused,
             EraseIntents, EraseGathered, EraseProfile
  <2>3. \A d \in Calls : erasure'[d].pc = "ok" <=> erasure[d].pc = "ok"
    <3>1. ASSUME NEW s \in Cascade, EraseRefused(c, s)
          PROVE  \A d \in Calls : erasure'[d].pc = "ok" <=> erasure[d].pc = "ok"
      <4> DEFINE e == [erasure[c] EXCEPT !.left = @ \ {s}, !.pc = "failed"]
      <4>1. e.pc = "failed"
        BY DEF TypeInv, AccountTypes, Erasing
      <4>2. erasure' = [erasure EXCEPT ![c] = e]
        BY <3>1 DEF EraseRefused
      <4> HIDE DEF e
      <4>3. erasure[c].pc # "ok"
        BY <3>1 DEF EraseRefused, ErasedSoFar
      <4> QED
        BY <3>1, <4>1, <4>2, <4>3 DEF TypeInv, AccountTypes
    <3>2. CASE EraseItems(c) \/ EraseIntents(c) \/ \E s \in Cascade : EraseOther(c, s)
      <4>1. PICK s \in Cascade : erasure' = [erasure EXCEPT ![c].left = @ \ {s}]
        BY <3>2 DEF EraseItems, EraseIntents, EraseOther, Cascade
      <4>2. erasure'[c].pc = erasure[c].pc
        BY <4>1 DEF TypeInv, AccountTypes, Erasing
      <4> QED
        BY <4>1, <4>2 DEF TypeInv, AccountTypes
    <3>3. CASE EraseGathered(c) \/ EraseProfile(c)
      BY <3>3 DEF EraseGathered, EraseProfile, TypeInv, AccountTypes, Erasing
    <3> QED
      BY <1>4, <3>1, <3>2, <3>3
         DEF Proceed, accountVars, UpsertProfile, ExportReads, ExportRefused, ExportDone
  <2> QED
    BY <1>2, <2>1, <2>2, <2>3
<1>5. ASSUME NEW c \in Calls, ErasureRecorded(c) PROVE AuditTrue'
  <2>1. /\ erasure'[c].pc = "ok" /\ export' = export
        /\ \A d \in Calls : d # c => erasure'[d] = erasure[d]
    BY <1>5 DEF ErasureRecorded, TypeInv, AccountTypes, Erasing
  <2>2. \/ audited' = audited \union {<<"user.deleted", c>>}
        \/ "outages" \in setting /\ audited' = audited
    <3>1. ~available => "outages" \in setting
      BY <1>5 DEF ErasureRecorded, ErasedSoFar, Steady
    <3> QED
      BY <1>5, <3>1 DEF ErasureRecorded, Recorded, Refused
  <2> QED
    BY <1>1, <2>1, <2>2 DEF AuditTrue, Audit
<1>6. ASSUME NEW c \in Calls, ExportRecorded(c) PROVE AuditTrue'
  <2>1. /\ export'[c].pc = "ok" /\ erasure' = erasure
        /\ \A d \in Calls : d # c => export'[d] = export[d]
    BY <1>6 DEF ExportRecorded, TypeInv, AccountTypes, Exporting
  <2>2. audited' = audited \union {<<"user.exported", c>>} \/ audited' = audited
    BY <1>6 DEF ExportRecorded, Recorded
  <2> QED
    BY <1>1, <2>1, <2>2 DEF AuditTrue, Audit
<1>7. CASE Restart
  BY <1>2, <1>7, RestartShape DEF TypeInv
<1>8. CASE UNCHANGED vars
  BY <1>2, <1>8 DEF vars
<1>9. CASE Link
  BY <1>2, <1>9 DEF Link, accountVars
<1> QED
  BY <1>3, <1>4, <1>5, <1>6, <1>7, <1>8, <1>9 DEF Next

\* A profile goes by the last step of an erasure.
LEMMA ProfileStep ==
    ASSUME TypeInv, [Next]_vars, NEW u \in profile \ profile'
    PROVE  \E c \in Calls : erasure[c].pc = "profile" /\ erasure[c].user = u
<1>1. PICK c \in Calls : EraseProfile(c)
  <2>1. ASSUME NEW c \in Calls, Arrive(c) PROVE profile' = profile
    BY <2>1 DEF Arrive, accountVars, Write, FindProfile, BeginErase, BeginExport
  <2>2. ASSUME NEW c \in Calls, Proceed(c), ~EraseProfile(c) PROVE profile \subseteq profile'
    BY <2>2 DEF Proceed, accountVars, EraseItems, UpsertProfile, EraseOther, EraseRefused,
                ExportReads, ExportRefused, EraseIntents, EraseGathered, ExportDone,
                ErasureRecorded, ExportRecorded
  <2>3. Link \/ Restart \/ UNCHANGED vars => profile' = profile
    BY DEF Link, accountVars, Restart, vars
  <2> QED
    BY <2>1, <2>2, <2>3 DEF Next
<1> QED
  BY <1>1 DEF EraseProfile

(***************************************************************************)
(* The memory of fragments                                                 *)
(***************************************************************************)

\* Two ingestions of a session that go on at once are beside each other; and what one is
\* about to keep is near fragments of ingestions beside it only.
BesideNoted ==
    \A c, d \in Calls : Ingesting(c) /\ Ingesting(d) /\ ingest[c].session = ingest[d].session
        => c = d \/ {c, d} \in beside

NearBeside ==
    "noPostgres" \notin setting =>
        \A c \in Calls : ingest[c].pc = "keep" /\ ingest[c].found = None =>
            \A n \in DOMAIN fragments :
                Alike(fragments[n], ingest[c].session, Chunk(c)) =>
                    {fragments[n].id[1], c} \in beside

LEMMA ChunkType ==
    ASSUME MemoryInv, NEW c \in Calls, Ingesting(c)
    PROVE  Chunk(c) \in Texts /\ ingest[c].session \in Users /\ ingest[c] \in Ingestion
<1>1. ingest[c] \in Ingestion /\ Len(ingest[c].out) < Len(ingest[c].texts)
      /\ ingest[c].session \in Users
  BY DEF MemoryInv, MemoryTypeOK, ChunkLeft
<1>2. /\ ingest[c].texts \in Seq(Texts) /\ Len(ingest[c].out) + 1 \in 1..Len(ingest[c].texts)
  BY <1>1 DEF Ingestion
<1> QED
  BY <1>1, <1>2 DEF Chunk

\* When the search says that nothing is near, nothing is.
LEMMA NoneIsNone ==
    ASSUME MemoryInv, "noPostgres" \notin setting,
           NEW s, NEW t, None \in NearDuplicate(s, t)
    PROVE  \A n \in DOMAIN fragments : ~Alike(fragments[n], s, t)
<1>1. \A n \in DOMAIN fragments : fragments[n] \in Fragment
  BY DEF MemoryInv, MemoryTypeOK
<1>2. \A n \in DOMAIN fragments : fragments[n].id # None
  BY <1>1 DEF Fragment, Id
<1> QED
  BY <1>2 DEF NearDuplicate, Matches

\* A step of one ingestion.
LEMMA IngestTypes ==
    ASSUME MemoryInv, UNCHANGED setting, NEW c \in Calls,
           IngestStep(c)
             \/ (ingest[c] = NoIngestion
                   /\ \E u \in Users, texts \in Documents : Ingest(c, u, texts))
    PROVE  MemoryInv'
<1>1. CASE ingest[c] = NoIngestion
             /\ \E u \in Users, texts \in Documents : Ingest(c, u, texts)
  <2>1. PICK u \in Users, texts \in Documents : Ingest(c, u, texts)
    BY <1>1
  <2> DEFINE i == [NoIngestion EXCEPT !.pc = "embed", !.session = u, !.texts = texts]
  <2>2. /\ ingest' = [ingest EXCEPT ![c] = i] /\ fragments' = fragments
        /\ beside' \subseteq SUBSET Calls
    <3>1. \A d \in Calls : {c, d} \in SUBSET Calls
      OBVIOUS
    <3>2. beside' \subseteq beside \union {{c, d} : d \in Calls}
      BY <2>1 DEF Ingest
    <3>3. beside' \subseteq SUBSET Calls
      BY <3>1, <3>2 DEF MemoryInv, MemoryTypeOK
    <3> QED
      BY <1>1, <2>1, <3>3 DEF Ingest
  <2>3. texts \in Seq(Texts) /\ texts # <<>> /\ <<>> \in Seq(Id)
    BY DocumentsAssumption
  <2>4. i \in Ingestion
    BY <2>3 DEF NoIngestion, Ingestion
  <2>5. /\ i.pc = "embed" /\ Len(i.out) < Len(i.texts) /\ i.session \in Users
    BY <2>3 DEF NoIngestion
  <2> HIDE DEF i
  <2> QED
    BY <2>2, <2>4, <2>5 DEF MemoryInv, MemoryTypeOK, ChunkLeft, Ingesting
<1>2. ASSUME NEW i \in Ingestion, ingest' = [ingest EXCEPT ![c] = i], fragments' \in Seq(Fragment),
             beside' = beside,
             i.pc \in {"embed", "find", "keep"} =>
                 Len(i.out) < Len(i.texts) /\ i.session \in Users,
             i.pc # "idle"
      PROVE  MemoryInv'
  BY <1>2 DEF MemoryInv, MemoryTypeOK, ChunkLeft, Ingesting
<1>3. ASSUME NEW pc \in {"find", "failed"}, Ingesting(c),
             ingest' = [ingest EXCEPT ![c].pc = pc], fragments' = fragments, beside' = beside
      PROVE  MemoryInv'
  <2> DEFINE i == [ingest[c] EXCEPT !.pc = pc]
  <2>1. ingest' = [ingest EXCEPT ![c] = i]
    BY <1>3
  <2>2. /\ i \in Ingestion /\ i.pc = pc
        /\ Len(i.out) < Len(i.texts) /\ i.session \in Users
    BY <1>3, ChunkType DEF Ingestion, MemoryInv, ChunkLeft
  <2> HIDE DEF i
  <2> QED
    BY <1>2, <1>3, <2>1, <2>2 DEF MemoryInv, MemoryTypeOK
<1>4. CASE Embedded(c) \/ InsertFails(c)
  BY <1>3, <1>4 DEF Embedded, InsertFails, Ingesting
<1>5. CASE FindNearDuplicate(c)
  <2>1. PICK dup \in NearDuplicate(ingest[c].session, Chunk(c)) :
            /\ ingest' = [ingest EXCEPT ![c] = [@ EXCEPT !.pc = "keep", !.found = dup]]
            /\ UNCHANGED <<fragments, beside>>
    BY <1>5 DEF FindNearDuplicate
  <2>2. dup \in Id \union {None}
    <3>1. \A n \in DOMAIN fragments : fragments[n] \in Fragment
      BY DEF MemoryInv, MemoryTypeOK
    <3>2. \A n \in DOMAIN fragments : fragments[n].id \in Id
      BY <3>1 DEF Fragment
    <3> QED
      BY <3>2, <2>1 DEF NearDuplicate
  <2> DEFINE i == [ingest[c] EXCEPT !.pc = "keep", !.found = dup]
  <2>3. ingest' = [ingest EXCEPT ![c] = i]
    BY <2>1
  <2>4. /\ i \in Ingestion /\ i.pc = "keep"
        /\ Len(i.out) < Len(i.texts) /\ i.session \in Users
    BY <1>5, <2>2, ChunkType DEF FindNearDuplicate, Ingesting, Ingestion, MemoryInv, ChunkLeft
  <2> HIDE DEF i
  <2> QED
    BY <1>2, <1>5, <2>1, <2>3, <2>4 DEF MemoryInv, MemoryTypeOK
<1>6. CASE Keep(c)
  <2> DEFINE out == Append(ingest[c].out, Named(c))
             pc == IF Len(out) = Len(ingest[c].texts) THEN "ok" ELSE "find"
             i == [ingest[c] EXCEPT !.pc = pc, !.found = None, !.out = out]
  <2>1. /\ ingest[c] \in Ingestion /\ Chunk(c) \in Texts /\ ingest[c].session \in Users
        /\ Len(ingest[c].out) < Len(ingest[c].texts)
    BY <1>6, ChunkType DEF Keep, Ingesting, MemoryInv, ChunkLeft
  <2>2. Named(c) \in Id
    BY <2>1 DEF Named, Id, Ingestion
  <2>3. out \in Seq(Id) /\ Len(out) = Len(ingest[c].out) + 1
    BY <2>1, <2>2 DEF Ingestion
  <2>4. ingest' = [ingest EXCEPT ![c] = i]
    BY <1>6 DEF Keep
  <2>5. [id |-> Named(c), session |-> ingest[c].session, text |-> Chunk(c)] \in Fragment
    BY <2>1, <2>2 DEF Fragment
  <2>6. fragments' \in Seq(Fragment)
    BY <1>6, <2>5 DEF Keep, MemoryInv, MemoryTypeOK
  <2>7. Len(ingest[c].texts) \in Nat /\ Len(ingest[c].out) \in Nat
    BY <2>1 DEF Ingestion
  <2>8. pc = "find" => Len(out) < Len(ingest[c].texts)
    BY <2>1, <2>3, <2>7
  <2>9. pc \in {"ok", "find"}
    OBVIOUS
  <2> HIDE DEF pc, out
  <2>10. /\ i \in Ingestion /\ i.pc = pc /\ i.out = out /\ i.texts = ingest[c].texts
         /\ i.session \in Users
    BY <2>1, <2>3, <2>9 DEF Ingestion
  <2> HIDE DEF i
  <2>11. beside' = beside
    BY <1>6 DEF Keep
  <2> QED
    BY <1>2, <2>4, <2>6, <2>8, <2>9, <2>10, <2>11
<1> QED
  BY <1>1, <1>4, <1>5, <1>6 DEF IngestStep

LEMMA MemoryTypesKept == MemoryInv /\ [Next]_vars => MemoryInv'
<1> SUFFICES ASSUME MemoryInv, [Next]_vars PROVE MemoryInv'
  OBVIOUS
<1>1. CASE UNCHANGED <<setting, memoryVars>>
  BY <1>1 DEF MemoryInv, MemoryTypeOK, ChunkLeft, Ingesting, memoryVars
<1>2. ASSUME NEW c \in Calls, Arrive(c), UNCHANGED setting PROVE MemoryInv'
  BY <1>1, <1>2, IngestTypes DEF Arrive, Free
<1>3. ASSUME NEW c \in Calls, Proceed(c), UNCHANGED setting PROVE MemoryInv'
  BY <1>1, <1>3, IngestTypes DEF Proceed, EraseItems
<1>4. CASE Restart
  <2>1. ASSUME NEW c \in Calls
        PROVE  /\ ingest'[c] \in Ingestion
               /\ (ingest'[c] = ingest[c] /\ ~Ingesting(c)) \/ ingest'[c].pc = "lost"
    BY <1>4 DEF Restart, ForgetMemory, MemoryInv, MemoryTypeOK, Ingestion
  <2>2. ingest' \in [Calls -> Ingestion]
    BY <1>4, <2>1 DEF Restart, ForgetMemory
  <2>3. setting' \in Settings /\ fragments' \in Seq(Fragment) /\ beside' = beside
    BY <1>4 DEF Restart, ForgetMemory, MemoryInv, MemoryTypeOK
  <2> QED
    BY <2>1, <2>2, <2>3 DEF MemoryInv, MemoryTypeOK, ChunkLeft, Ingesting
<1>5. CASE UNCHANGED vars
  BY <1>1, <1>5 DEF vars, memoryVars
<1>6. CASE Link /\ UNCHANGED setting
  BY <1>1, <1>6 DEF Link
<1> QED
  BY <1>2, <1>3, <1>4, <1>5, <1>6 DEF Next

\* The three together are inductive.
TwinsBeside == BesideNoted /\ NearBeside /\ NoTwins

LEMMA IngestTwins ==
    ASSUME MemoryInv, TwinsBeside, UNCHANGED setting, NEW c \in Calls,
           IngestStep(c)
             \/ (ingest[c] = NoIngestion
                   /\ \E u \in Users, texts \in Documents : Ingest(c, u, texts))
    PROVE  TwinsBeside'
<1>1. /\ ingest \in [Calls -> Ingestion]
      /\ \A d \in Calls : ingest[d] \in Ingestion
      /\ \A d \in Calls : Ingesting(d) <=> ingest[d].pc \in {"embed", "find", "keep"}
      /\ \A d \in Calls : Ingesting(d)' <=> ingest'[d].pc \in {"embed", "find", "keep"}
  BY DEF MemoryInv, MemoryTypeOK, Ingesting
<1>2. /\ \A d \in Calls : d # c => ingest'[d] = ingest[d]
      /\ \A d \in Calls : d # c => Chunk(d)' = Chunk(d)
  <2>1. \A d \in Calls : d # c => ingest'[d] = ingest[d]
    BY <1>1 DEF IngestStep, Embedded, FindNearDuplicate, Keep, InsertFails, Ingest
  <2> QED
    BY <2>1 DEF Chunk
<1>3. ASSUME Ingesting(c), ingest'[c].session = ingest[c].session, beside' = beside
      PROVE  BesideNoted'
  <2>1. \A d \in Calls : /\ Ingesting(d)' => Ingesting(d)
                         /\ ingest'[d].session = ingest[d].session
    BY <1>1, <1>2, <1>3
  <2> QED
    BY <1>3, <2>1 DEF TwinsBeside, BesideNoted
<1>4. ASSUME fragments' = fragments, beside \subseteq beside' PROVE NoTwins'
  BY <1>4 DEF TwinsBeside, NoTwins, Alike
<1>5. ASSUME fragments' = fragments, beside \subseteq beside',
             ~ (ingest'[c].pc = "keep" /\ ingest'[c].found = None)
      PROVE  NearBeside'
  <2>1. ASSUME "noPostgres" \notin setting, NEW d \in Calls, ingest'[d].pc = "keep",
               ingest'[d].found = None, NEW n \in DOMAIN fragments,
               Alike(fragments[n], ingest'[d].session, Chunk(d)')
        PROVE  {fragments[n].id[1], d} \in beside
    BY <1>2, <1>5, <2>1 DEF TwinsBeside, NearBeside, Alike
  <2> QED
    BY <1>5, <2>1 DEF NearBeside, Alike
<1>6. CASE Embedded(c) \/ InsertFails(c)
  <2>1. PICK pc \in {"find", "failed"} : ingest' = [ingest EXCEPT ![c].pc = pc]
    BY <1>6 DEF Embedded, InsertFails
  <2>2. /\ fragments' = fragments /\ beside' = beside /\ Ingesting(c)
        /\ ingest'[c].pc = pc /\ ingest'[c].session = ingest[c].session
    BY <1>1, <1>6, <2>1 DEF Embedded, InsertFails, Ingestion
  <2> QED
    BY <1>3, <1>4, <1>5, <2>2 DEF TwinsBeside
<1>7. ASSUME NEW u \in Users, NEW texts \in Documents, Ingest(c, u, texts) PROVE TwinsBeside'
  <2> DEFINE i == [ingest[c] EXCEPT !.pc = "embed", !.session = u, !.texts = texts]
  <2>1. i.pc = "embed" /\ i.session = u
    BY <1>1 DEF Ingestion
  <2>2. /\ ingest' = [ingest EXCEPT ![c] = i] /\ fragments' = fragments
        /\ beside' = beside \union {{c, d} : d \in {x \in Calls : Ingesting(x) /\ ingest[x].session = u}}
    BY <1>7 DEF Ingest
  <2> HIDE DEF i
  <2>3. ingest'[c].pc = "embed" /\ ingest'[c].session = u
    BY <1>1, <2>1, <2>2
  <2>4. \A d \in Calls : d # c /\ Ingesting(d)' /\ ingest'[d].session = u =>
            {c, d} \in beside' /\ {d, c} \in beside'
    <3> SUFFICES ASSUME NEW d \in Calls, d # c, Ingesting(d)', ingest'[d].session = u
                 PROVE  {c, d} \in beside' /\ {d, c} \in beside'
      OBVIOUS
    <3>1. Ingesting(d) /\ ingest[d].session = u
      BY <1>1, <1>2
    <3>2. {c, d} = {d, c}
      OBVIOUS
    <3> QED
      BY <2>2, <3>1, <3>2
  <2>5. BesideNoted'
    <3> SUFFICES ASSUME NEW a \in Calls, NEW b \in Calls, Ingesting(a)', Ingesting(b)',
                        ingest'[a].session = ingest'[b].session, a # b
                 PROVE  {a, b} \in beside'
      BY DEF BesideNoted
    <3>1. CASE a = c \/ b = c
      BY <2>3, <2>4, <3>1
    <3>2. CASE a # c /\ b # c
      BY <1>1, <1>2, <2>2, <3>2 DEF TwinsBeside, BesideNoted
    <3> QED
      BY <3>1, <3>2
  <2> QED
    BY <1>4, <1>5, <2>2, <2>3, <2>5 DEF TwinsBeside
<1>8. CASE FindNearDuplicate(c)
  <2>1. PICK dup \in NearDuplicate(ingest[c].session, Chunk(c)) :
            /\ ingest' = [ingest EXCEPT ![c] = [@ EXCEPT !.pc = "keep", !.found = dup]]
            /\ fragments' = fragments /\ beside' = beside
    BY <1>8 DEF FindNearDuplicate
  <2>2. /\ ingest'[c].session = ingest[c].session /\ ingest'[c].texts = ingest[c].texts
        /\ ingest'[c].out = ingest[c].out /\ ingest'[c].found = dup /\ Ingesting(c)
    BY <1>1, <1>8, <2>1 DEF Ingestion, FindNearDuplicate
  <2>3. Chunk(c)' = Chunk(c)
    BY <2>2 DEF Chunk
  <2>4. dup = None /\ "noPostgres" \notin setting =>
            \A n \in DOMAIN fragments : ~Alike(fragments[n], ingest[c].session, Chunk(c))
    BY <2>1, NoneIsNone
  <2>5. NearBeside'
    <3> SUFFICES ASSUME "noPostgres" \notin setting, NEW d \in Calls, ingest'[d].pc = "keep",
                        ingest'[d].found = None, NEW n \in DOMAIN fragments,
                        Alike(fragments[n], ingest'[d].session, Chunk(d)')
                 PROVE  {fragments[n].id[1], d} \in beside
      BY <2>1 DEF NearBeside, Alike
    <3>1. CASE d = c
      BY <2>2, <2>3, <2>4, <3>1
    <3>2. CASE d # c
      BY <1>2, <3>2 DEF TwinsBeside, NearBeside
    <3> QED
      BY <3>1, <3>2
  <2> QED
    BY <1>3, <1>4, <2>1, <2>2, <2>5 DEF TwinsBeside
<1>9. CASE Keep(c)
  <2>1. /\ Ingesting(c) /\ ingest[c].pc = "keep" /\ ingest'[c].pc \in {"ok", "find"}
        /\ ingest'[c].session = ingest[c].session /\ beside' = beside
    BY <1>1, <1>9 DEF Keep, Ingestion
  <2>2. BesideNoted'
    BY <1>3, <2>1
  <2>3. CASE fragments' = fragments
    BY <1>4, <1>5, <2>1, <2>2, <2>3 DEF TwinsBeside
  <2>4. CASE ingest[c].found = None
    <3> DEFINE f == [id |-> Named(c), session |-> ingest[c].session, text |-> Chunk(c)]
    <3>1. /\ fragments' = Append(fragments, f) /\ f.session = ingest[c].session
          /\ f.text = Chunk(c) /\ f.id[1] = c
      BY <1>9, <2>4 DEF Keep, Named
    <3>2. "noPostgres" \notin setting =>
              \A n \in DOMAIN fragments :
                  Alike(fragments[n], f.session, f.text) => {fragments[n].id[1], c} \in beside
      BY <2>1, <2>4 DEF TwinsBeside, NearBeside
    <3> HIDE DEF f
    <3>3. /\ DOMAIN fragments' = 1..(Len(fragments) + 1) /\ DOMAIN fragments = 1..Len(fragments)
          /\ Len(fragments) \in Nat
          /\ fragments'[Len(fragments) + 1] = f
          /\ \A n \in 1..Len(fragments) : fragments'[n] = fragments[n]
      BY <3>1 DEF MemoryInv, MemoryTypeOK
    <3>4. NoTwins'
      <4> SUFFICES ASSUME "noPostgres" \notin setting,
                          NEW m \in DOMAIN fragments', NEW n \in DOMAIN fragments', m < n,
                          Alike(fragments'[m], fragments'[n].session, fragments'[n].text)
                   PROVE  {fragments'[m].id[1], fragments'[n].id[1]} \in beside
        BY <2>1 DEF NoTwins, Alike
      <4>1. CASE n = Len(fragments) + 1
        <5>1. m \in 1..Len(fragments)
          BY <3>3, <4>1
        <5> QED
          BY <3>1, <3>2, <3>3, <4>1, <5>1
      <4>2. CASE n \in 1..Len(fragments)
        <5>1. m \in 1..Len(fragments)
          BY <3>3, <4>2
        <5> QED
          BY <3>3, <4>2, <5>1 DEF TwinsBeside, NoTwins
      <4> QED
        BY <3>3, <4>1, <4>2
    <3>5. NearBeside'
      <4> SUFFICES ASSUME "noPostgres" \notin setting, NEW d \in Calls, ingest'[d].pc = "keep",
                          ingest'[d].found = None, NEW n \in DOMAIN fragments',
                          Alike(fragments'[n], ingest'[d].session, Chunk(d)')
                   PROVE  {fragments'[n].id[1], d} \in beside
        BY <2>1 DEF NearBeside, Alike
      <4>1. d # c /\ ingest'[d] = ingest[d] /\ Chunk(d)' = Chunk(d)
        BY <1>2, <2>1
      <4>2. CASE n = Len(fragments) + 1
        <5>1. ingest[d].session = ingest[c].session /\ Ingesting(d)
          BY <1>1, <3>1, <3>3, <4>1, <4>2 DEF Alike
        <5>2. {c, d} \in beside
          BY <2>1, <4>1, <5>1 DEF TwinsBeside, BesideNoted
        <5> QED
          BY <3>1, <3>3, <4>2, <5>2
      <4>3. CASE n \in 1..Len(fragments)
        BY <3>3, <4>1, <4>3 DEF TwinsBeside, NearBeside
      <4> QED
        BY <3>3, <4>2, <4>3
    <3> QED
      BY <2>2, <3>4, <3>5 DEF TwinsBeside
  <2> QED
    BY <1>9, <2>3, <2>4 DEF Keep
<1> QED
  BY <1>6, <1>7, <1>8, <1>9 DEF IngestStep

LEMMA TwinsKept == MemoryInv /\ TwinsBeside /\ [Next]_vars => TwinsBeside'
<1> SUFFICES ASSUME MemoryInv, TwinsBeside, [Next]_vars PROVE TwinsBeside'
  OBVIOUS
<1>1. CASE UNCHANGED <<setting, memoryVars>>
  BY <1>1 DEF TwinsBeside, BesideNoted, NearBeside, NoTwins, Ingesting, Alike, Chunk, memoryVars
<1>2. ASSUME NEW c \in Calls, Arrive(c), UNCHANGED setting PROVE TwinsBeside'
  BY <1>1, <1>2, IngestTwins DEF Arrive, Free
<1>3. ASSUME NEW c \in Calls, Proceed(c), UNCHANGED setting PROVE TwinsBeside'
  BY <1>1, <1>3, IngestTwins DEF Proceed, EraseItems
<1>4. CASE Restart
  <2>1. \A c \in Calls : ingest'[c].pc \notin {"embed", "find", "keep"}
    BY <1>4 DEF Restart, ForgetMemory, Ingesting, MemoryInv, MemoryTypeOK, Ingestion
  <2>2. setting' = setting /\ beside' = beside /\ (fragments' = fragments \/ fragments' = <<>>)
    BY <1>4 DEF Restart, ForgetMemory
  <2>3. BesideNoted' /\ NearBeside'
    BY <2>1 DEF BesideNoted, NearBeside, Ingesting
  <2>4. NoTwins'
    BY <2>2 DEF TwinsBeside, NoTwins, Alike
  <2> QED
    BY <2>3, <2>4 DEF TwinsBeside
<1>5. CASE (Link /\ UNCHANGED setting) \/ UNCHANGED vars
  BY <1>1, <1>5 DEF Link, vars, memoryVars
<1> QED
  BY <1>2, <1>3, <1>4, <1>5 DEF Next

(***************************************************************************)
(* The theorems                                                            *)
(***************************************************************************)

LEMMA Begins == Init => TypeInv /\ Steady /\ ErasedSoFar /\ ReadSoFar /\ AuditTrue /\ ReportsTrue
<1> SUFFICES ASSUME Init PROVE TypeInv /\ Steady /\ ErasedSoFar /\ ReadSoFar /\ AuditTrue /\ ReportsTrue
  OBVIOUS
<1>1. ItemInv
  BY DEF Init, InventoryInit, ItemInv, InventoryTypeOK, Item, Removal, NoItem, NoRemoval
<1>2. AccountTypes
  BY DEF Init, AccountTypes, NotEnsuring, NotErasing, NotExporting, Erasing, Exporting
<1>3. ErasedSoFar /\ ReadSoFar /\ AuditTrue
  BY DEF Init, ErasedSoFar, ReadSoFar, AuditTrue, NotErasing, NotExporting
<1>4. ReportsTrue
  BY DEF Init, InventoryInit, ReportsTrue, ReportedOnce
<1>5. Steady
  BY DEF Init, LinkInit, LinkTypeOK, Steady, Tables, Repositories
<1> QED
  BY <1>1, <1>2, <1>3, <1>4, <1>5 DEF TypeInv

\* What is left of rows that are gone from the tables, the inventory and one repository.
LEMMA OneRepository ==
    ASSUME Steady, NEW u, NEW rows,
           rows \intersect Held("quests", u) = {}, rows \intersect Held("inventory", u) = {},
           NEW b \in Repositories, rows \intersect Held(b, u) = {},
           "outages" \notin setting => b = "mongo"
    PROVE  Missable(rows \intersect Records(u), u)
<1>1. rows \intersect Records(u) \subseteq
          (rows \intersect Held("mongo", u)) \union (rows \intersect Held("memory", u))
  BY RecordsHeld DEF Bins, Tables, Repositories
<1>2. "outages" \notin setting => Held("memory", u) = {}
  BY DEF Steady, Held, Rows, Repositories
<1>3. \A d \in Repositories : Goals(d, u) = Held(d, u)
  BY RecordsHeld
<1>4. \E d \in Repositories : rows \intersect Records(u) \subseteq Held(d, u)
  BY <1>1 DEF Repositories
<1>5. rows \intersect Records(u) # {} => "outages" \in setting
  BY <1>1, <1>2
<1> QED
  BY <1>3, <1>4, <1>5 DEF Missable

\* DELETE /me, once answered, left nothing of what it found (gdpr.service.ts) but, after an
\* outage of Mongo, goals of the one repository it did not ask, for any number of calls
\* beside it, outages, restarts and refusals.
THEOREM ErasureTakesAll == Spec => []ErasedWhenAnswered
<1>1. Steady /\ ErasedSoFar /\ AuditTrue => ErasedWhenAnswered
  <2> SUFFICES ASSUME Steady, ErasedSoFar, AuditTrue, NEW c \in Calls
               PROVE  /\ erasure[c].pc = "ok" \/ <<"user.deleted", c>> \in audited =>
                             Missable(erasure[c].before \intersect Records(erasure[c].user),
                                      erasure[c].user)
                      /\ erasure[c].pc = "ok" =>
                             <<"user.deleted", c>> \in audited \/ "outages" \in setting
    BY DEF ErasedWhenAnswered
  <2>1. erasure[c].pc = "ok" \/ <<"user.deleted", c>> \in audited => erasure[c].pc = "ok"
    BY DEF AuditTrue
  <2>2. ASSUME erasure[c].pc = "ok"
        PROVE  Missable(erasure[c].before \intersect Records(erasure[c].user), erasure[c].user)
    BY <2>2, OneRepository DEF ErasedSoFar
  <2> QED
    BY <2>1, <2>2 DEF AuditTrue
<1> QED
  BY <1>1, Begins, TypesKept, SteadyKept, ErasureKept, AuditKept, PTL DEF Spec

\* GET /me/export, once answered, holds what was there all along but, after an outage of
\* Mongo, the goals of the one repository it did not ask.
THEOREM ExportTakesAll == Spec => []ExportComplete
<1>1. Steady /\ ReadSoFar /\ AuditTrue => ExportComplete
  <2> SUFFICES ASSUME Steady, ReadSoFar, NEW c \in Calls, export[c].pc = "ok"
               PROVE  Missable((export[c].before \intersect Records(export[c].user)) \ export[c].got,
                               export[c].user)
    BY DEF AuditTrue, ExportComplete
  <2> DEFINE rows == export[c].before \ export[c].got
  <2>1. PICK b \in Repositories :
            /\ export[c].before \intersect Held(b, export[c].user) \subseteq export[c].got
            /\ "outages" \notin setting => b = "mongo"
    BY DEF ReadSoFar
  <2>2. \A k \in {"quests", "inventory"} :
            export[c].before \intersect Held(k, export[c].user) \subseteq export[c].got
    BY DEF ReadSoFar
  <2>3. /\ rows \intersect Held(b, export[c].user) = {}
        /\ rows \intersect Held("quests", export[c].user) = {}
        /\ rows \intersect Held("inventory", export[c].user) = {}
    BY <2>1, <2>2
  <2> HIDE DEF rows
  <2>4. Missable(rows \intersect Records(export[c].user), export[c].user)
    BY <2>1, <2>3, OneRepository
  <2>5. (export[c].before \intersect Records(export[c].user)) \ export[c].got
            = rows \intersect Records(export[c].user)
    BY DEF rows
  <2> QED
    BY <2>4, <2>5
<1> QED
  BY <1>1, Begins, TypesKept, SteadyKept, ErasureKept, ExportKept, AuditKept, PTL DEF Spec

\* An item is in one report at most, and gone when it is (inventory.routes.ts).
THEOREM ItemsGoOnce == Spec => []ReportedOnce
<1>1. ReportsTrue => ReportedOnce
  BY DEF ReportsTrue
<1> QED
  BY <1>1, Begins, TypesKept, ReportsKept, PTL DEF Spec

\* The row in users goes after all else the erasure found, but what it may miss.
THEOREM ProfileGoesLast == Spec => ProfileLast
<1>1. TypeInv /\ Steady /\ ErasedSoFar /\ [Next]_vars =>
          [\A u \in profile \ profile' : \E c \in Calls :
              erasure[c].user = u /\ Missable(erasure[c].before \intersect Records(u), u)]_profile
  <2> SUFFICES ASSUME TypeInv, Steady, ErasedSoFar, [Next]_vars, NEW u \in profile \ profile'
               PROVE  \E c \in Calls :
                          erasure[c].user = u /\ Missable(erasure[c].before \intersect Records(u), u)
    OBVIOUS
  <2>1. PICK c \in Calls : erasure[c].pc = "profile" /\ erasure[c].user = u
    BY ProfileStep
  <2>2. Missable(erasure[c].before \intersect Records(u), u)
    BY <2>1, OneRepository DEF ErasedSoFar
  <2> QED
    BY <2>1, <2>2
<1> QED
  BY <1>1, Begins, TypesKept, SteadyKept, ErasureKept, PTL DEF Spec, ProfileLast

\* While the index answers, two fragments of a session that are near each other come from
\* ingestions that overlapped (embedding.repository.ts), whatever fails half way.
THEOREM NoTwinsEver == Spec => []NoTwins
<1>1. Init => MemoryInv /\ TwinsBeside
  <2> SUFFICES ASSUME Init PROVE MemoryInv /\ TwinsBeside
    OBVIOUS
  <2>1. NoIngestion \in Ingestion /\ <<>> \in Seq(Fragment)
    <3>1. <<>> \in Seq(Texts) /\ <<>> \in Seq(Id) /\ <<>> \in Seq(Fragment)
      OBVIOUS
    <3> QED
      BY <3>1 DEF NoIngestion, Ingestion
  <2>2. MemoryInv
    BY <2>1 DEF Init, MemoryInit, MemoryInv, MemoryTypeOK, ChunkLeft, Ingesting, NoIngestion
  <2>3. TwinsBeside
    BY DEF Init, MemoryInit, TwinsBeside, BesideNoted, NearBeside, NoTwins, Ingesting, NoIngestion
  <2> QED
    BY <2>2, <2>3
<1>2. TwinsBeside => NoTwins
  BY DEF TwinsBeside
<1> QED
  BY <1>1, <1>2, MemoryTypesKept, TwinsKept, PTL DEF Spec

\* Every variable keeps its type.
THEOREM TypeCorrect == Spec => []TypeOK
<1>1. Init => MemoryInv
  <2>1. <<>> \in Seq(Texts) /\ <<>> \in Seq(Id) /\ <<>> \in Seq(Fragment)
    OBVIOUS
  <2>2. NoIngestion \in Ingestion
    BY <2>1 DEF NoIngestion, Ingestion
  <2> QED
    BY <2>1, <2>2
       DEF Init, MemoryInit, MemoryInv, MemoryTypeOK, ChunkLeft, Ingesting, NoIngestion
<1>2. TypeInv /\ Steady /\ MemoryInv /\ AuditTrue => TypeOK
  BY DEF TypeInv, ItemInv, AccountTypes, Steady, MemoryInv, AuditTrue, TypeOK
<1> QED
  BY <1>1, <1>2, Begins, TypesKept, SteadyKept, MemoryTypesKept, ErasureKept, AuditKept, PTL DEF Spec

=============================================================================
