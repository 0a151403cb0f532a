---------------------------- MODULE MCIntentMap ----------------------------
(***************************************************************************)
(* Small instances of IntentMap for TLC.                                   *)
(***************************************************************************)
EXTENDS IntentMap, TLC

Symmetry == Permutations(Reqs) \union Permutations(Sessions)

Conf(mode, every, inFlight, faults) ==
    [mode |-> mode, every |-> every, inFlight |-> inFlight, faults |-> faults]

\* Three requests at once while everything fails; one client and restarts;
\* the proxy's own choice, with and without outages.
Storm == Conf("mongo", 2, 3, {"blip", "error", "crash"})
OneClient == Conf("mongo", 0, 1, {"crash"})
AutoChoice == Conf("auto", 2, 2, {"blip", "error"})
PostgresOnly == Conf("postgres", 2, 3, {"error", "crash"})

Everything == {Storm, OneClient, AutoChoice, PostgresOnly}

\* No faults, so that every snapshot is taken.
Quiet == {Conf("mongo", 2, 3, {})}

\* One client and an outage.
Outage == {Conf("mongo", 0, 1, {"blip"})}

\* Several clients; a refusing database; one client and automatic snapshots.
Quick == {Conf("mongo", 0, 3, {})}
Refusals == {Conf("mongo", 0, 1, {"error"})}
Patient == {Conf("mongo", 2, 1, {})}

=============================================================================
