----------------------------- MODULE RateLimit -----------------------------
(***************************************************************************)
(* rate-limit.middleware.ts: the two limiters and their counters, one per  *)
(* key and window.  The store (express-rate-limit's memory or Redis) adds  *)
(* one and returns the sum in one step; a window begins with the first hit *)
(* of its key.                                                             *)
(***************************************************************************)
EXTENDS Access, Naturals

CONSTANTS
    Ips,    \* addresses of clients
    Limit   \* Limit[l]: rateLimitMax of "global", rateLimitAiMax of "ai"

VARIABLE hits  \* hits[l][key]: the counter of the current window

Limiters == {"global", "ai"}

ASSUME LimitAssumption == Limit \in [Limiters -> Nat]

LimitKeys == ({"uid"} \X Uids) \union ({"ip"} \X Ips)

\* A slip: everybody behind one address is one client.
LimitByIp(user, ip) == <<"ip", ip>>

LimitKey(user, ip) ==
    IF user # None /\ user.uid # Anonymous THEN <<"uid", user.uid>> ELSE <<"ip", ip>>

NoHits == [l \in Limiters |-> [key \in LimitKeys |-> 0]]

\* The counter moves whatever the verdict; it is held one past the limit, where all are refused.
Hit(l, key) ==
    hits' = [hits EXCEPT ![l][key] = IF @ > Limit[l] THEN @ ELSE @ + 1]

Passes(l, key) == hits[l][key] < Limit[l]

WindowEnds(l, key) ==
    /\ hits[l][key] > 0
    /\ hits' = [hits EXCEPT ![l][key] = 0]

=============================================================================
