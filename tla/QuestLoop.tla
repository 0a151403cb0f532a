----------------------------- MODULE QuestLoop -----------------------------
(***************************************************************************)
(* Quest and resolver together.  The quest module is taken by its          *)
(* contract; the EventBus calls its subscribers inside publish, so that an *)
(* announcement and the start of the bridge's task are one step.  An       *)
(* outcome is announced while a task is left: the bound Tasks.             *)
(***************************************************************************)
EXTENDS Resolver

CONSTANT Callers   \* the requests to the quest module

VARIABLES state, events

Quest == INSTANCE QuestContract WITH Reqs <- Callers

loopVars == <<state, events, faults, up, conn, available, goals, proc, published>>

Outcomes == {"quest.completed", "quest.failed"}

LoopInit == Init /\ Quest!Init

Act == /\ \E q \in Quests : Quest!Open(q) \/ Quest!Move(q)
       /\ UNCHANGED resolverVars

\* publish, and the listeners installQuestResolverBridge has added.
Announce(name, q, c) ==
    /\ Quest!Announce(name, q, c)
    /\ IF name \in Outcomes THEN \E t \in Tasks : Signal(t, q, name) ELSE UNCHANGED resolverVars

LoopNext ==
    \/ Act
    \/ \E q \in Quests, c \in Callers, name \in Outcomes \union {"quest.started", "quest.rewarded"} :
          Announce(name, q, c)
    \/ ResolverNext /\ UNCHANGED <<state, events>>

LoopSpec == LoopInit /\ [][LoopNext]_loopVars

\* Tasks that have begun go on.
FairLoopSpec ==
    /\ LoopSpec
    /\ \A p \in Procs : WF_loopVars(Step(p) /\ UNCHANGED <<faults, state, events>>)

----------------------------------------------------------------------------

\* A quest is correlated once, for its owner.
OncePerQuest ==
    \A c \in published : c.by \in Tasks =>
        /\ c.uid = Owner[c.quest]
        /\ \A d \in published : (d.by \in Tasks /\ d.quest = c.quest) => d = c

\* What the resolver learns from a quest has the sign of how the quest ended, is learnt
\* after the end was announced, and once: the bridge correlates whatever it hears, and it
\* is the contract of the quest module that makes it hear of one end.
PolarityTrue ==
    /\ \A c \in published : c.by \in Tasks =>
          /\ c.sign = "negative" <=> state[c.quest] = "FAILED"
          /\ \E e \in events : e.quest = c.quest /\ e.name \in Outcomes
    /\ OncePerQuest

=============================================================================
