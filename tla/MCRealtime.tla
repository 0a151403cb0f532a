----------------------------- MODULE MCRealtime -----------------------------
(***************************************************************************)
(* A small instance of Realtime for TLC: two users, one with a session of  *)
(* its own beside its uid, a user whose uid is that session (soft mode      *)
(* takes any token for a uid), an admin by claim and one by ADMIN_UIDS,     *)
(* and a token that is not genuine.                                        *)
(***************************************************************************)
EXTENDS Realtime, TLC

Within3 == [s \in Sessions |-> CASE s = "u:1" -> {"u", "u:1"} [] OTHER -> {s}]

Says(uid, anonymous, claim, genuine) ==
    [uid |-> uid, anonymous |-> anonymous, claim |-> claim, genuine |-> genuine]

IdentityOf ==
    ("tu" :> Says("u", FALSE, "user", TRUE)) @@ ("tv" :> Says("v", FALSE, None, TRUE))
    @@ ("tw" :> Says("w", FALSE, None, TRUE)) @@ ("ta" :> Says("v", FALSE, "admin", TRUE))
    @@ ("tx" :> Says("u", FALSE, "admin", FALSE)) @@ ("t1" :> Says("u:1", FALSE, None, TRUE))

EndOf == <<"end">>

TwoLimits == ("global" :> 2) @@ ("ai" :> 1)

LineOf == ("A" :> <<"a1", "a2">>) @@ ("B" :> <<"b">>)

\* Two pieces with a line of no meaning; one piece after the end; a line that is never ended.
Bodies ==
    {[lines |-> <<LineOf["A"], <<"a2">>, LineOf["B"]>>, tail |-> <<>>],
     [lines |-> <<LineOf["B"], <<"end">>, LineOf["A"]>>, tail |-> <<"b">>]}

Http == {[token |-> "tu", ip |-> "ip"], [token |-> "tv", ip |-> "ip"],
         [token |-> "t1", ip |-> "ip"],
         [token |-> "tw", ip |-> "ip"], [token |-> "tx", ip |-> "ip"],
         [token |-> None, ip |-> "ip"]}

In(on, sockets, streams, requests, tokens, asked) ==
    [on |-> on, sockets |-> sockets, streams |-> streams, requests |-> requests,
     tokens |-> tokens, asked |-> asked]

\* Two clients and one stream of either, with errors; two streams of one
\* client; a shutdown; tokens refused; a restart; three requests in a window,
\* with a store that fails; a uid with a colon and its kin, streaming and over HTTP.
Environments ==
    {In({"firebase", "mongo", "leave", "refuse"}, {"k1", "k2"}, {1}, {}, {"tu", "tv", "ta"}, {"u", "u:1"}),
     In({"firebase", "ollama"}, {"k1", "k2"}, {1, 2}, {}, {"tu"}, {"u"}),
     In({"shutdown", "anonymous", "leave"}, {"k1"}, {1}, {2}, {"tu", None}, {"u", "anonymous"}),
     In({"firebase", "production"}, {"k1"}, {}, {1, 2}, {"tw", "tx", None}, {"u", "v"}),
     In({"production", "anonymous", "override", "crash"}, {"k1"}, {1}, {2}, {"tu", None}, {"u", "anonymous"}),
     In({"firebase", "redis", "crash", "window", "refuse"}, {}, {}, {1, 2, 3}, {"tu", "tv"}, {"u"}),
     In({}, {"k1", "k2"}, {1}, {}, {"tu", "t1"}, {"u:1"}),
     In({}, {"k1"}, {}, {1}, {"tu", "t1"}, {"u", "u:1"})}

=============================================================================
