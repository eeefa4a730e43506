------------------------------ MODULE WorkLine ------------------------------
(***************************************************************************)
(* What the production floor promises: every command on a line is atomic.  *)
(* It is judged by the very state it changes, whoever else is at work on   *)
(* the line.  Production implements this with a revision number that each  *)
(* command claims.                                                         *)
(***************************************************************************)
EXTENDS WorkRules

CONSTANTS
    Lines,      \* the order lines in production
    Items,      \* the items of the checklist
    Required    \* the items that must be complete before approval

VARIABLE line   \* state, quality and completed checklist items of each line

Init == line = [l \in Lines |-> [state |-> "review", quality |-> "not_checked",
                                 done |-> {}]]

\* An item of the checklist is completed, failed or reopened.
Check(l, done) ==
    /\ done \subseteq Items
    /\ line' = [line EXCEPT ![l].done = done]

\* The line may move to `target`.
Allowed(l, target) ==
    /\ target \in WorkTransitions[line[l].state]
    /\ target = "approved" => Required \subseteq line[l].done
    /\ target = "ready_for_fulfilment" => line[l].quality = "passed"

\* A line that enters the quality check has to be inspected (again).
Move(l, target) ==
    /\ Allowed(l, target)
    /\ line' = [line EXCEPT ![l].state = target,
                            ![l].quality = IF target = "quality_check"
                                           THEN "not_checked" ELSE @]

\* The line is inspected.
Inspect(l, verdict) ==
    /\ line[l].state = "quality_check"
    /\ line' = [line EXCEPT ![l].quality = verdict]

Next ==
    \E l \in Lines :
        \/ \E done \in SUBSET Items : Check(l, done)
        \/ \E target \in WorkStates : Move(l, target)
        \/ \E verdict \in {"passed", "failed"} : Inspect(l, verdict)

Spec == Init /\ [][Next]_line
=============================================================================
