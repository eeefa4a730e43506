----------------------------- MODULE Operating -----------------------------
(***************************************************************************)
(* The administrator's screens (frontend components/assurance/             *)
(* production-operations-screen.tsx and components/commerce/               *)
(* admin-screen.tsx).                                                      *)
(*                                                                         *)
(* Production: the queue stays in view while other filters load; an action *)
(* carries the revision it was shown, and a refused one says so and        *)
(* reloads.  No button waits for another one, so answers cross.            *)
(* Administration: an order is opened, changed and refunded; the question  *)
(* before a refund stays until it is answered.                             *)
(***************************************************************************)
EXTENDS Resource, Naturals, FiniteSets

CONSTANTS Filters, Orders,
          MaxSessions, MaxRevisions, MaxCalls  \* bounds: sessions, revisions of
                                               \* the work, actions in flight

VARIABLES page,     \* the session, and what the screen of it shows
          calls,    \* actions in flight
          server    \* the work, and the refunded orders
vars == <<page, calls, server>>

Sessions == 1 .. MaxSessions
Messages == {"none", "success", "refused"}

TypeOK ==
    /\ page.session \in Sessions \cup {None} /\ page.filters \in Filters
    /\ page.queue.data \in [filters : Filters, revision : 1 .. MaxRevisions] \cup {None}
    /\ page.message \in Messages /\ page.refused \in 0 .. MaxRevisions
    /\ page.selected \in Orders \cup {None}
    /\ server.revision \in 1 .. MaxRevisions /\ server.refunded \subseteq Orders

-----------------------------------------------------------------------------
(* The production queue. *)

Key(p) == IF p.screen = "production" /\ p.session # None /\ p.admin
          THEN <<p.session, p.filters>> ELSE None
AdminKey(p) == IF p.screen = "admin" /\ p.session # None /\ p.admin
               THEN <<p.session>> ELSE None
Keyed(p) == [p EXCEPT !.queue = Rekeyed(@, Key(p)), !.orders = Rekeyed(@, AdminKey(p))]
Queue(p) == DataFor(p.queue, Key(p), TRUE)
QueueError(p) == ~LoadingFor(p.queue, Key(p)) /\ ErrorFor(p.queue, Key(p))

\* A filter that reaches the request clears what the last action said.
ChooseFilters(f) ==
    /\ Key(page) # None /\ f # page.filters
    /\ page' = Keyed([page EXCEPT !.filters = f, !.message = "none"])
    /\ UNCHANGED <<calls, server>>
Refresh ==
    /\ Key(page) # None
    /\ page' = [page EXCEPT !.message = "none", !.queue = Reloaded(@, Key(page), FALSE)]
    /\ UNCHANGED <<calls, server>>
\* The server reads the queue, and the answer arrives or does not.
QueueServed ==
    /\ page.queue.load = Asked
    /\ page' = [page EXCEPT !.queue.load =
            [filters |-> page.filters, revision |-> server.revision]]
    /\ UNCHANGED <<calls, server>>
QueueAnswers ==
    /\ page.queue.load \notin {None, Asked}
    /\ page' = [page EXCEPT !.queue = Loaded(@, @.load)]
    /\ UNCHANGED <<calls, server>>
QueueFails ==
    /\ page.queue.load # None
    /\ page' = [page EXCEPT !.queue = LoadFailed(@, TRUE)]
    /\ UNCHANGED <<calls, server>>

-----------------------------------------------------------------------------
(* Actions on the selected work: a checklist item, an issue, the quality, a step. *)

Free == Cardinality(calls) < MaxCalls
\* update(): the action on the revision that is shown, in this session.
Update ==
    /\ Free /\ Queue(page) # None
    /\ calls' = calls \cup {[name |-> "update", key |-> Key(page), answer |-> Asked,
                             revision |-> Queue(page).revision]}
    /\ page' = [page EXCEPT !.message = "none"]
    /\ UNCHANGED server
\* Accepted at the current revision only; other rules may refuse it as well.  The
\* answer has the new revision, or the one that refused.
UpdateServed(u) ==
    /\ u \in calls /\ u.name = "update" /\ u.answer = Asked
    /\ \E answer \in {"success", "conflict", "failed"} :
         /\ answer = "success" => u.revision = server.revision
                                  /\ server.revision < MaxRevisions
         /\ answer = "conflict" => u.revision # server.revision
         /\ server' = IF answer = "success" THEN [server EXCEPT !.revision = @ + 1] ELSE server
         /\ calls' = (calls \ {u}) \cup
                {[u EXCEPT !.answer = answer, !.revision = server'.revision]}
    /\ UNCHANGED page
\* (Mutant: the refused action only says so.)
UpdateToldOnly(u) ==
    /\ u \in calls /\ u.name = "update" /\ u.answer # Asked
    /\ calls' = calls \ {u}
    /\ page' =
         IF u.answer = "success"
         THEN [page EXCEPT !.message = "success", !.queue =
                 Updated(@, u.key, TRUE, IF @.data = None THEN None
                                         ELSE [@.data EXCEPT !.revision = u.revision])]
         ELSE [page EXCEPT !.message = "refused",
                 !.refused = IF u.answer = "conflict" THEN u.revision ELSE 0]
    /\ UNCHANGED server

UpdateAnswers(u) ==
    /\ u \in calls /\ u.name = "update" /\ u.answer # Asked
    /\ calls' = calls \ {u}
    /\ page' =
         IF u.answer = "success"
         THEN [page EXCEPT !.message = "success", !.queue =
                 Updated(@, u.key, TRUE, IF @.data = None THEN None
                                         ELSE [@.data EXCEPT !.revision = u.revision])]
         ELSE [page EXCEPT !.message = "refused", !.queue = Reloaded(@, u.key, FALSE),
                 !.refused = IF u.answer = "conflict" THEN u.revision ELSE 0]
    /\ UNCHANGED server
\* Another administrator.
WorkElsewhere == /\ server.revision < MaxRevisions
                 /\ server' = [server EXCEPT !.revision = @ + 1]
                 /\ UNCHANGED <<page, calls>>

-----------------------------------------------------------------------------
(* The administration of orders. *)

AdminReady == AdminKey(page) # None /\ DataFor(page.orders, AdminKey(page), FALSE) # None
OrdersAnswer ==
    /\ page.orders.load = Asked
    /\ page' \in {[page EXCEPT !.orders = r] :
            r \in {Loaded(page.orders, page.session), LoadFailed(page.orders, FALSE)}}
    /\ UNCHANGED <<calls, server>>
\* Open an order, apply a change to the open one, refund it.
Action(name, order) == calls' = calls \cup
    {[name |-> name, key |-> AdminKey(page), order |-> order]}
OpenOrder(order) == /\ Free /\ AdminReady /\ Action("open", order)
                    /\ UNCHANGED <<page, server>>
ChangeOrder == /\ Free /\ AdminReady /\ page.selected # None
               /\ Action("change", page.selected) /\ UNCHANGED <<page, server>>
AskRefund == /\ AdminReady /\ page.selected # None
             /\ page' = [page EXCEPT !.question = ~@] /\ UNCHANGED <<calls, server>>
Refund == /\ Free /\ AdminReady /\ page.selected # None /\ page.question
          /\ Action("refund", page.selected) /\ UNCHANGED <<page, server>>
\* Every answer selects its order, whatever was opened since; only a refund ends
\* the question.
ActionAnswers(a) ==
    /\ a \in calls /\ a.name # "update"
    /\ calls' = calls \ {a}
    /\ \/ /\ page' = [page EXCEPT !.selected = a.order,
                                  !.question = @ /\ a.name # "refund",
                                  !.orders = IF a.name = "open" THEN @
                                             ELSE Updated(@, a.key, FALSE, a.key[1])]
          /\ server' = IF a.name = "refund" THEN [server EXCEPT !.refunded = @ \cup {a.order}]
                       ELSE server
       \/ UNCHANGED <<page, server>>

-----------------------------------------------------------------------------
Screen(session, admin, screen, filters) ==
    Keyed([session |-> session, admin |-> admin, screen |-> screen, filters |-> filters,
           queue |-> EmptyResource, orders |-> EmptyResource, message |-> "none",
           refused |-> 0, selected |-> None, question |-> FALSE])
\* A session starts or ends under the screen, which keeps its other state.
SignIn == /\ page.session = None /\ server.sessions < MaxSessions
          /\ \E admin \in BOOLEAN :
               page' = Keyed([page EXCEPT !.session = server.sessions + 1, !.admin = admin])
          /\ server' = [server EXCEPT !.sessions = @ + 1]
          /\ UNCHANGED calls
SessionEnds == /\ page.session # None
               /\ page' = Keyed([page EXCEPT !.session = None, !.admin = FALSE])
               /\ UNCHANGED <<calls, server>>

Init ==
    /\ \E screen \in {"production", "admin"}, f \in Filters :
         page = Screen(1, TRUE, screen, f)
    /\ calls = {}
    /\ server = [sessions |-> 1, refunded |-> {}, revision |-> 1]
Next ==
    \/ \E f \in Filters : ChooseFilters(f)
    \/ Refresh \/ QueueServed \/ QueueAnswers \/ QueueFails
    \/ Update \/ \E u \in calls : UpdateServed(u) \/ UpdateAnswers(u) \/ ActionAnswers(u)
    \/ WorkElsewhere
    \/ OrdersAnswer \/ \E order \in Orders : OpenOrder(order)
    \/ ChangeOrder \/ AskRefund \/ Refund
    \/ SignIn \/ SessionEnds
Spec == Init /\ [][Next]_vars

-----------------------------------------------------------------------------
\* "operations shows the latest filter's answer and drops an earlier one"
\* (data-screens.test.tsx 399): a queue that is neither loading nor in error is the
\* one of the filters that are chosen, though the last one stays in view meanwhile.
\* After a refusal it is at the revision that refused the action, or a newer one:
\* the advice to retry can be followed (production-operations-screen.tsx 117-136).
QueueIsNewest ==
    Queue(page) # None /\ ~LoadingFor(page.queue, Key(page)) /\ ~QueueError(page)
        => /\ Queue(page).filters = page.filters
           /\ page.message = "refused" => Queue(page).revision >= page.refused

\* What an administrator's screen lists is shown to an administrator, and an
\* answer to an action of an earlier session does not write over the orders that
\* were loaded since (use-account-resource.ts 29-60, admin-screen.tsx 187-236).
OwnDataShown ==
    /\ Queue(page) # None => page.admin
    /\ LET shown == DataFor(page.orders, AdminKey(page), FALSE)
       IN  shown # None => page.admin /\ shown = page.session
=============================================================================
