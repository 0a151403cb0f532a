------------------------------- MODULE Access -------------------------------
(***************************************************************************)
(* Who a client is and which sessions it may use: auth.middleware.ts,      *)
(* socket-auth.middleware.ts and ownership.middleware.ts.  Verification of *)
(* a token is Firebase's; Identity is what it says of each.                *)
(***************************************************************************)
CONSTANTS
    Uids,       \* user ids
    Anonymous,  \* the uid of all clients without a token
    Sessions,   \* session ids; every uid is one
    Within,     \* Within[s]: the uids u such that s is u or begins with u and a colon
    Tokens,
    Identity,   \* Identity[t]: what a token says of its bearer
    AdminUids,  \* ADMIN_UIDS
    None        \* null

Privileged == {"admin", "system"}
Role == Privileged \union {"user"}

User == [uid : Uids, anonymous : BOOLEAN, role : Role]

ASSUME UidAssumption == Anonymous \in Uids /\ Uids \subseteq Sessions
ASSUME WithinAssumption ==
    /\ Within \in [Sessions -> SUBSET Uids]
    /\ \A u \in Uids : u \in Within[u]
    \* Both are prefixes of s.
    /\ \A s \in Sessions : \A u, v \in Within[s] : u \in Within[v] \/ v \in Within[u]
ASSUME IdentityAssumption ==
    Identity \in [Tokens -> [uid : Uids, anonymous : BOOLEAN,
                             claim : Role \union {None}, genuine : BOOLEAN]]
ASSUME AbsenceAssumption ==
    /\ None \notin Uids /\ None \notin Sessions /\ None \notin Tokens
    /\ None \notin User /\ None \notin Role

\* A slip: the claim is the role.
ClaimedRole(uid, anonymous, claim) == claim

ResolveRole(uid, anonymous, claim) ==
    IF anonymous THEN "user"
    ELSE IF claim \in Privileged THEN claim
    ELSE IF uid \in AdminUids THEN "admin" ELSE "user"

\* No token, with ALLOW_ANONYMOUS.
Nobody == [uid |-> Anonymous, anonymous |-> TRUE, role |-> "user"]

\* Without Firebase the token is taken for the uid; with it, it is decoded.
Soft(t) ==
    [uid |-> Identity[t].uid, anonymous |-> TRUE, role |-> ResolveRole(Identity[t].uid, TRUE, None)]
Decoded(t) ==
    [uid |-> Identity[t].uid, anonymous |-> Identity[t].anonymous,
     role |-> ResolveRole(Identity[t].uid, Identity[t].anonymous, Identity[t].claim)]

\* A slip: any room is open to any user.
CanJoinAnyRoom(user, s) == TRUE

CanJoinRoom(user, s) == user.role \in Privileged \/ user.uid \in Within[s]

\* requireOwnership('body', 'sessionId').
Owns(user, s) == user.role \in Privileged \/ s = user.uid

=============================================================================
