----------------------------- MODULE Production -----------------------------
(***************************************************************************)
(* Production work: each line of a paid order is reviewed, made, inspected *)
(* and handed over by administrators (backend/app/assurance/service.py).   *)
(*                                                                         *)
(* Several administrators may work on a line.  A command reads the line,   *)
(* checks what it finds, and commits in a transaction that first claims    *)
(* the revision it read: an UPDATE that changes no row if the revision has *)
(* moved on.  Reading and committing are two steps here.  In the same      *)
(* transaction a move of a line gives its order a new state, a column that *)
(* the commerce commands write too.                                        *)
(***************************************************************************)
EXTENDS WorkRules, Naturals

CONSTANTS
    Orders,         \* customer orders
    LineIndexes,    \* the lines an order may have
    Items,          \* the items of the checklist
    Required,       \* the items that must be complete before approval
    Workers,        \* commands that may be in progress at once
    CommerceStates, \* order states and payment states the commerce commands
    CommercePays,   \* give an order after it was paid
    MaxRevision,    \* bound: no command begins on a line at this revision
    NoLine          \* the line of a request that concerns none

VARIABLES
    order,  \* state and payment status of each order
    work,   \* the lines of each order that have a production_work row
    job,    \* the rows of each line: production_work and what hangs on it
    req     \* the commands in progress

vars == <<order, work, job, req>>

ASSUME ProductionAssumption ==
    /\ Required \subseteq Items
    /\ NoLine \notin Orders \X LineIndexes
    /\ MaxRevision \in Nat

Lines    == Orders \X LineIndexes
Verdicts == {"passed", "failed"}

OrderRow == [state : {"payment_pending", "paid"} \cup CommerceStates
                        \cup {OrderStateOf[s] : s \in WorkStates},
             pay : {"pending", "paid"} \cup CommercePays]

(***************************************************************************)
(* A line: its state, quality and revision, the checklist items that are   *)
(* complete (done) and how many issues are open.  Of its history there is  *)
(* kept which states it has been in, and the last of the entries for a     *)
(* move to the quality check and for an inspection (verdict).              *)
(***************************************************************************)
Row == [state : WorkStates, quality : QualityStates, revision : Nat \ {0},
        done : SUBSET Items, open : Nat,
        been : SUBSET WorkStates, verdict : QualityStates]
NewRow == [state |-> "review", quality |-> "not_checked", revision |-> 1,
           done |-> {}, open |-> 0,
           been |-> {"review"}, verdict |-> "not_checked"]

(***************************************************************************)
(* A command: where it stands, its line, the revision it read and sends    *)
(* back (expectedRevision), and what it asks for: a state, a verdict, or a *)
(* checklist item and whether that is complete.                            *)
(***************************************************************************)
Points  == {"idle", "checklist", "create_issue", "resolve_issue", "count",
            "transition", "quality"}
Request == [at : Points, line : Lines \cup {NoLine}, revision : Nat,
            target : WorkStates \cup Verdicts \cup {"none"},
            items : SUBSET Items, done : BOOLEAN]
Idle    == [at |-> "idle", line |-> NoLine, revision |-> 0,
            target |-> "none", items |-> {}, done |-> FALSE]

Init ==
    /\ order = [k \in Orders |-> [state |-> "payment_pending", pay |-> "pending"]]
    /\ work = [k \in Orders |-> {}]
    /\ job = [j \in Lines |-> NewRow]
    /\ req = [w \in Workers |-> Idle]

-----------------------------------------------------------------------------
(* Orders.                                                                 *)

\* create_paid_order_work, in the transaction that books the payment: the
\* lines of the order that have no work yet get a fresh row.
CreateWork(k) ==
    /\ work[k] = {}
    /\ \E planned \in (SUBSET LineIndexes) \ {{}} : work' = [work EXCEPT ![k] = planned]
    /\ order' = [order EXCEPT ![k].state = "paid", ![k].pay = "paid"]
    /\ UNCHANGED <<job, req>>

\* The commerce commands and payment events change the order as they like.
OrderMoves(k) ==
    /\ work[k] # {}
    /\ \E state \in CommerceStates \cup {order[k].state},
          pay \in CommercePays \cup {order[k].pay} :
          order' = [order EXCEPT ![k].state = state, ![k].pay = pay]
    /\ UNCHANGED <<work, job, req>>

-----------------------------------------------------------------------------
(* Commands: first they read and check.                                    *)

\* A command reads its line and finds the revision the administrator saw.
Begin(w, j, point, target, items, done) ==
    /\ req[w] = Idle
    /\ j[2] \in work[j[1]]
    /\ job[j].revision < MaxRevision
    /\ req' = [req EXCEPT ![w] =
                  [at |-> point, line |-> j, revision |-> job[j].revision,
                   target |-> target, items |-> items, done |-> done]]
    /\ UNCHANGED <<order, work, job>>

BeginChecklist(w, j, item, done) == Begin(w, j, "checklist", "none", {item}, done)

BeginIssue(w, j) == Begin(w, j, "create_issue", "none", {}, FALSE)

BeginResolve(w, j) ==
    job[j].open > 0 /\ Begin(w, j, "resolve_issue", "none", {}, FALSE)

\* transition: an approval counts the open checklist items in a query of its own.
BeginTransition(w, j, target) ==
    /\ target \in WorkTransitions[job[j].state]
    /\ target = "ready_for_fulfilment" => job[j].quality = "passed"
    /\ Begin(w, j, IF target = "approved" THEN "count" ELSE "transition",
             target, {}, FALSE)

BeginQuality(w, j, verdict) ==
    job[j].state = "quality_check" /\ Begin(w, j, "quality", verdict, {}, FALSE)

\* The request ends; a refused one has changed nothing.
Finish(w) == req' = [req EXCEPT ![w] = Idle]

\* An approval is refused while a required item is not complete.
CountChecklist(w) ==
    /\ req[w].at = "count"
    /\ IF Required \subseteq job[req[w].line].done
       THEN req' = [req EXCEPT ![w].at = "transition"]
       ELSE Finish(w)
    /\ UNCHANGED <<order, work, job>>

-----------------------------------------------------------------------------
(* Then they claim the revision and commit.                                *)

\* (Mutant: the revision is compared only when the row is read.)
ClaimedAnyway(w) == job[req[w].line].revision < MaxRevision

\* _claim_revision finds the row at the expected revision.
Claimed(w) == job[req[w].line].revision = req[w].revision

\* The rows of the line as the command leaves them, its revision one higher.
Store(w, row) ==
    job' = [job EXCEPT ![req[w].line] = [row EXCEPT !.revision = @ + 1]]

\* A command that writes to the rows of its line only.
Commit(w, point, row) ==
    /\ req[w].at = point
    /\ IF Claimed(w) THEN Store(w, row) ELSE UNCHANGED job
    /\ Finish(w)
    /\ UNCHANGED <<order, work>>

CommitChecklist(w) ==
    LET row == job[req[w].line]
    IN  Commit(w, "checklist",
               [row EXCEPT !.done = IF req[w].done THEN @ \cup req[w].items
                                                   ELSE @ \ req[w].items])

CommitIssue(w) ==
    LET row == job[req[w].line]
    IN  Commit(w, "create_issue", [row EXCEPT !.open = @ + 1])

CommitResolve(w) ==
    LET row == job[req[w].line]
    IN  Commit(w, "resolve_issue", [row EXCEPT !.open = @ - 1])

\* A failed inspection opens an issue.
CommitQuality(w) ==
    LET row     == job[req[w].line]
        verdict == req[w].target
    IN  Commit(w, "quality",
               [row EXCEPT !.quality = verdict, !.verdict = verdict,
                           !.open = IF verdict = "failed" THEN @ + 1 ELSE @])

\* (Mutant: a line that returns to the quality check keeps its old result.)
MovedKeepingQuality(row, target) ==
    [row EXCEPT !.state = target, !.been = @ \cup {target},
                !.verdict = IF target = "quality_check" THEN "not_checked" ELSE @]

\* The row of a line that moves to `target`.
Moved(row, target) ==
    LET reset(q) == IF target = "quality_check" THEN "not_checked" ELSE q
    IN  [row EXCEPT !.state = target, !.been = @ \cup {target},
                    !.quality = reset(@), !.verdict = reset(@)]

\* _synchronize_order: the order takes the state of the line that moved.
Synchronized(o, target) == [o EXCEPT !.state = OrderStateOf[target]]

\* The cancellation of a paid line is refused, which undoes the claim as well.
CommitTransition(w) ==
    LET j      == req[w].line
        k      == j[1]
        target == req[w].target
    IN  /\ req[w].at = "transition"
        /\ IF Claimed(w) /\ ~(target = "cancelled" /\ order[k].pay = "paid")
           THEN /\ Store(w, Moved(job[j], target))
                /\ order' = [order EXCEPT ![k] = Synchronized(@, target)]
           ELSE UNCHANGED <<job, order>>
        /\ Finish(w)
        /\ UNCHANGED work

\* The process dies, or the request is refused for a missing reason.
Abandon(w) == req[w] # Idle /\ Finish(w) /\ UNCHANGED <<order, work, job>>

-----------------------------------------------------------------------------
Arrival(w) ==
    \E j \in Lines :
        \/ \E item \in Items, done \in BOOLEAN : BeginChecklist(w, j, item, done)
        \/ BeginIssue(w, j) \/ BeginResolve(w, j)
        \/ \E target \in WorkStates : BeginTransition(w, j, target)
        \/ \E verdict \in Verdicts : BeginQuality(w, j, verdict)

Proceed(w) ==
    \/ CountChecklist(w) \/ CommitChecklist(w) \/ CommitIssue(w)
    \/ CommitResolve(w) \/ CommitTransition(w) \/ CommitQuality(w) \/ Abandon(w)

Next ==
    \/ \E k \in Orders : CreateWork(k) \/ OrderMoves(k)
    \/ \E w \in Workers : Arrival(w) \/ Proceed(w)

Spec == Init /\ [][Next]_vars

-----------------------------------------------------------------------------
(* Properties.                                                             *)

\* Every row and every request holds values the code can give it; in particular
\* no issue is resolved twice.
TypeOK ==
    /\ order \in [Orders -> OrderRow]
    /\ work \in [Orders -> SUBSET LineIndexes]
    /\ job \in [Lines -> Row]
    /\ req \in [Workers -> Request]

\* Commands are atomic: two administrators who read the same revision do not
\* both change the line, and none acts on a state that is gone.
Floor == INSTANCE WorkLine WITH
             line <- [j \in Lines |-> [state   |-> job[j].state,
                                       quality |-> job[j].quality,
                                       done    |-> job[j].done]]
CommandsAreAtomic == Floor!Spec

\* When a line becomes approved its required checklist items are complete at
\* that moment, although another administrator may have been reopening one.
ApprovalWasChecked ==
    [][\A j \in Lines : job'[j].state = "approved" /\ job[j].state # "approved"
           => Required \subseteq job'[j].done]_vars

\* A line is handed over only after the inspection that followed its last entry
\* into the quality check was passed and not revoked by a failed one.
HandoverPassedInspection ==
    \A j \in Lines : job[j].state = "ready_for_fulfilment" => job[j].verdict = "passed"

\* A line is made only after it was approved: no step is skipped.
MadeOnlyIfApproved ==
    \A j \in Lines : job[j].state = "in_production" => "approved" \in job[j].been

\* An order is ready to ship only when every line of it has passed quality
\* control.
ReadyOrderPassedInspection ==
    \A k \in Orders : order[k].state = "ready_to_ship" =>
        \A i \in work[k] : job[<<k, i>>].quality = "passed"

-----------------------------------------------------------------------------
(* The inductive invariant.                                                *)

\* A command never knows a later revision than the row has, and as long as the
\* row is at that revision, what the command checked is still so.
StillRight(r) ==
    LET row == job[r.line]
    IN  /\ r.line \in Lines
        /\ r.revision <= row.revision
        /\ r.at \in {"count", "transition"} => r.target \in WorkStates
        /\ r.at = "quality" => r.target \in Verdicts
        /\ r.at = "count" => r.target = "approved"
        /\ r.revision = row.revision =>
              /\ r.at \in {"count", "transition"} =>
                    /\ r.target \in WorkTransitions[row.state]
                    /\ r.target = "ready_for_fulfilment" => row.quality = "passed"
              /\ r.at = "transition" /\ r.target = "approved"
                    => Required \subseteq row.done
              /\ r.at = "quality" => row.state = "quality_check"
              /\ r.at = "resolve_issue" => row.open > 0

IInv ==
    /\ TypeOK
    /\ \A w \in Workers : req[w].at # "idle" => StillRight(req[w])
    /\ \A j \in Lines : job[j].quality = job[j].verdict
    /\ HandoverPassedInspection
=============================================================================
