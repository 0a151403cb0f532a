----------------------------- MODULE QuestRules -----------------------------
(***************************************************************************)
(* The rules of a quest: the table of permitted transitions and the guards *)
(* the use-cases call before they write (quest.rules.ts).  A guard that    *)
(* throws in the code is FALSE here.                                       *)
(***************************************************************************)

State == {"IDLE", "IN_PROGRESS", "COMPLETED", "REWARDED", "FAILED"}

Allowed == [IDLE        |-> {"IN_PROGRESS"},
            IN_PROGRESS |-> {"COMPLETED", "FAILED"},
            COMPLETED   |-> {"REWARDED"},
            REWARDED    |-> {},
            FAILED      |-> {}]

CanTransition(current, next) == next \in Allowed[current]

----------------------------------------------------------------------------
\* Slips in the guards that the runs must notice.

CompletableAgain(s) == s \in {"IN_PROGRESS", "COMPLETED"}
FailableUnlessFailed(s) == s # "FAILED"
RewardableAgain(s) == s \in {"COMPLETED", "REWARDED"}
BranchableUnlessFailed(s) == s # "FAILED"

----------------------------------------------------------------------------

\* ensureCompletable, ensureFailable, ensureRewardable.
Completable(s) == s = "IN_PROGRESS"
Failable(s) == s = "IN_PROGRESS"
Rewardable(s) == s = "COMPLETED"

\* ensureBranchable: a sealed quest takes no more branches.  The pattern of
\* branchKey is a property of the request alone and is left out.
Branchable(s) == s \notin {"REWARDED", "FAILED"}

\* isParentResolvable, given the set of its children's states.
IsParentResolvable(childStates) ==
    /\ childStates # {}
    /\ childStates \subseteq {"COMPLETED", "REWARDED"}

=============================================================================
