--------------------------- MODULE QuestContract ---------------------------
(***************************************************************************)
(* What the quest module promises to the rest of the backend, whatever     *)
(* requests run at once: a quest is opened, moves along the table of       *)
(* quest.rules.ts one transition at a time, and each opening and each      *)
(* transition is announced at most once, after it has happened.            *)
(***************************************************************************)
EXTENDS QuestRules

CONSTANTS Quests, Reqs

VARIABLES
    state,    \* state[q], "NONE" before the quest is opened
    events    \* the announcements made

vars == <<state, events>>

\* The states in which an announcement is true.
Truth(name) ==
    CASE name = "quest.completed" -> {"COMPLETED", "REWARDED"}
      [] name = "quest.failed" -> {"FAILED"}
      [] name = "quest.rewarded" -> {"REWARDED"}
      [] OTHER -> State

Init ==
    /\ state = [q \in Quests |-> "NONE"]
    /\ events = {}

Open(q) ==
    /\ state[q] = "NONE"
    /\ state' = [state EXCEPT ![q] = "IN_PROGRESS"]
    /\ UNCHANGED events

Move(q) ==
    /\ state[q] \in State
    /\ \E s \in Allowed[state[q]] : state' = [state EXCEPT ![q] = s]
    /\ UNCHANGED events

Announce(name, q, r) ==
    /\ state[q] \in Truth(name)
    /\ ~ \E e \in events : e.name = name /\ e.quest = q
    /\ events' = events \union {[name |-> name, quest |-> q, req |-> r]}
    /\ UNCHANGED state

Next ==
    \E q \in Quests :
        \/ Open(q)
        \/ Move(q)
        \/ \E r \in Reqs, name \in {"quest.started", "quest.branched",
                                    "quest.completed", "quest.failed",
                                    "quest.rewarded"} : Announce(name, q, r)

Spec == Init /\ [][Next]_vars

=============================================================================
