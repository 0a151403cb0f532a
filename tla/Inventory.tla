----------------------------- MODULE Inventory ------------------------------
(***************************************************************************)
(* The inventory (inventory.routes.ts, inventory.repository.ts): an item   *)
(* is added by one INSERT, and removed by a SELECT whose answer is checked *)
(* and a DELETE that may find nothing any more.  Ownership and soulbound   *)
(* never change, so the Map and the table behave alike.                    *)
(***************************************************************************)
EXTENDS Naturals, FiniteSets

CONSTANTS Users, Calls, None

VARIABLES
    item,      \* item[c]: the item that call c has added
    removal,   \* removal[c]: what DELETE /:id holds
    gone       \* history: who reported which item as removed

Item == [user : Users \union {None}, soulbound : BOOLEAN, live : BOOLEAN]
NoItem == [user |-> None, soulbound |-> FALSE, live |-> FALSE]

Removal == [pc : {"idle", "delete", "ok", "refused", "failed", "lost"}, item : Calls \union {None}]
NoRemoval == [pc |-> "idle", item |-> None]

InventoryTypeOK ==
    /\ item \in [Calls -> Item]
    /\ removal \in [Calls -> Removal]
    /\ gone \subseteq Calls \X Calls

InventoryInit ==
    /\ item = [c \in Calls |-> NoItem]
    /\ removal = [c \in Calls |-> NoRemoval]
    /\ gone = {}

AddItem(c, u, soulbound) ==
    /\ item[c] = NoItem
    /\ item' = [item EXCEPT ![c] = [user |-> u, soulbound |-> soulbound, live |-> TRUE]]
    /\ UNCHANGED <<removal, gone>>

\* 404, 403 and 409, or on to the DELETE.
Removable(x, u) == item[x].live /\ item[x].user = u /\ ~item[x].soulbound

LoadItem(c, u, x) ==
    /\ removal[c].pc = "idle" /\ item[x] # NoItem
    /\ removal' = [removal EXCEPT ![c] =
           [pc |-> IF Removable(x, u) THEN "delete" ELSE "refused", item |-> x]]
    /\ UNCHANGED <<item, gone>>

\* A slip: the number of rows deleted is not looked at.
FoundAlways(x) == item[x].user # None

Found(x) == item[x].live

RemoveItem(c) ==
    LET x == removal[c].item IN
    /\ removal[c].pc = "delete"
    /\ item' = [item EXCEPT ![x].live = FALSE]
    /\ removal' = [removal EXCEPT ![c].pc = IF Found(x) THEN "ok" ELSE "refused"]
    /\ gone' = IF Found(x) THEN gone \union {<<c, x>>} ELSE gone

RemoveFails(c) ==
    /\ removal[c].pc = "delete"
    /\ removal' = [removal EXCEPT ![c].pc = "failed"]
    /\ UNCHANGED <<item, gone>>

\* A slip: what cannot be removed is not erased either.
TakenUnlessBound(x, u) == item[x].live /\ item[x].user = u /\ ~item[x].soulbound

\* purgeUser: everything of the user, soulbound or not.
Taken(x, u) == item[x].live /\ item[x].user = u

PurgeItems(c, u) ==
    LET taken == {x \in Calls : Taken(x, u)} IN
    /\ item' = [x \in Calls |-> IF x \in taken THEN [item[x] EXCEPT !.live = FALSE] ELSE item[x]]
    /\ gone' = gone \union ({c} \X taken)
    /\ UNCHANGED removal

DropRemovals ==
    /\ removal' = [c \in Calls |-> IF removal[c].pc = "delete"
                                     THEN [removal[c] EXCEPT !.pc = "lost"] ELSE removal[c]]
    /\ UNCHANGED <<item, gone>>

----------------------------------------------------------------------------
\* However removals and erasures race, an item is reported as gone once, by a 204 or
\* in the count of one erasure, and only when it is gone.
ReportedOnce ==
    /\ \A r, s \in gone : r[2] = s[2] => r = s
    /\ \A r \in gone : ~item[r[2]].live

=============================================================================
