------------------------------ MODULE Shopping ------------------------------
(***************************************************************************)
(* The customer's screens of the demonstration shop (frontend              *)
(* components/commerce): the cart, prices and quotes, the orders, and the  *)
(* sandbox's hosted checkout.  Each loads a resource for the session; its  *)
(* buttons send changes whose answers come in any order and replace what   *)
(* the screen shows.  Of what a screen shows, this keeps whose it is and,  *)
(* of an order, whether its payment is settled.                            *)
(***************************************************************************)
EXTENDS Resource, Naturals, FiniteSets

CONSTANTS MaxSessions,  \* bound: sessions of this visit; a token is never reused
          MaxCalls      \* bound: changes and payments in flight

VARIABLES page,     \* the session, the screen and its resources
          calls,    \* changes in flight
          server    \* the order's payment, and the notices acknowledged
vars == <<page, calls, server>>

Sessions == 1 .. MaxSessions
Screens == {"cart", "pricing", "orders", "checkout"}
Outcomes == {"success", "failure", "cancel"}
\* "mutate" stands for the changes of a line and of the whole cart, "quote" for a
\* new quote and a new price of an old one.
Changes == [cart |-> {"mutate", "checkout"}, pricing |-> {"preview", "quote"}]
Data == [owner : Sessions \cup {None}, paid : BOOLEAN]

TypeOK ==
    /\ page.session \in Sessions \cup {None} /\ page.screen \in Screens
    /\ page.list.data \in Data \cup {None} /\ page.order.data \in Data \cup {None}
    /\ page.price \in BOOLEAN
    /\ calls.changes \subseteq [name : UNION {Changes[s] : s \in DOMAIN Changes},
                                session : Sessions \cup {None}]
    /\ calls.finish \subseteq [outcome : Outcomes, session : Sessions \cup {None},
                               step : {"acknowledge", "complete"}]
    /\ server.acknowledged \subseteq Sessions

-----------------------------------------------------------------------------
(* The keys of a screen's resources, and the poll after a checkout. *)

Hosted == 0     \* the key of the hosted checkout is its link, not the session
ListKey(p) == CASE p.screen = "checkout" -> Hosted
                [] p.screen = "orders" /\ p.asks -> None
                [] OTHER -> p.session
OrderKey(p) == IF p.screen = "orders" /\ p.asks THEN p.session ELSE None
Keyed(p) == [p EXCEPT !.list = Rekeyed(@, ListKey(p)), !.order = Rekeyed(@, OrderKey(p))]
Order(p) == DataFor(p.order, OrderKey(p), FALSE)

Polling(p) ==
    /\ p.returns /\ OrderKey(p) # None /\ ~LoadingFor(p.order, OrderKey(p))
    /\ Order(p) = None \/ ~Order(p).paid
\* (Mutant: the effect runs again only when polling begins.)
ShowsOnce(p, answered) ==
    page' = [p EXCEPT !.timer = Polling(p) /\ (@ \/ (~page.returns /\ p.returns))]

\* The effect that schedules it runs again when an answer is there.
Shows(p, answered) ==
    page' = [p EXCEPT !.timer = Polling(p) /\ (@ \/ ~Polling(page) \/ answered)]

Screen(session, screen, asks, returns) ==
    Keyed([session |-> session, screen |-> screen, asks |-> asks, returns |-> returns,
           list |-> EmptyResource, order |-> EmptyResource, timer |-> FALSE,
           busy |-> None, price |-> FALSE, terms |-> FALSE])

\* Another screen: nothing of the old one is heard.  A checkout that it began
\* still takes the browser away.
Visit(screen) ==
    /\ screen # page.screen
    /\ \E returns \in BOOLEAN :
         Shows(Screen(page.session, screen, returns, returns), FALSE)
    /\ calls' = [calls EXCEPT !.changes =
            {[c EXCEPT !.session = None] : c \in {c \in @ : c.name = "checkout"}}]
    /\ UNCHANGED server
\* From the list to an order and back, on the same screen.
Switch == /\ page.screen = "orders" /\ ~page.returns
          /\ Shows(Keyed([page EXCEPT !.asks = ~@]), FALSE)
          /\ UNCHANGED <<calls, server>>
SignIn == /\ page.session = None /\ server.sessions < MaxSessions
          /\ Shows(Keyed([page EXCEPT !.session = server.sessions + 1]), FALSE)
          /\ server' = [server EXCEPT !.sessions = @ + 1]
          /\ UNCHANGED calls
SessionEnds == /\ page.session # None
               /\ Shows(Keyed([page EXCEPT !.session = None]), FALSE)
               /\ UNCHANGED <<calls, server>>

-----------------------------------------------------------------------------
(* Answers to what a screen loads. *)

ListAnswers ==
    /\ page.list.load = Asked
    /\ \/ Shows([page EXCEPT !.list = Loaded(@, [owner |-> page.session,
                                                 paid |-> FALSE])], FALSE)
       \/ Shows([page EXCEPT !.list = LoadFailed(@, FALSE)], FALSE)
    /\ UNCHANGED <<calls, server>>
OrderAnswers ==
    /\ page.order.load = Asked
    /\ Shows([page EXCEPT !.order = Loaded(@, [owner |-> page.session,
                                               paid |-> server.paid])], TRUE)
    /\ UNCHANGED <<calls, server>>
OrderFails ==
    /\ page.order.load = Asked
    /\ Shows([page EXCEPT !.order = LoadFailed(@, FALSE)], TRUE)
    /\ UNCHANGED <<calls, server>>
\* Two seconds after an answer; and the button that refreshes.
PollTimer ==
    /\ page.timer
    /\ Shows([page EXCEPT !.order = Reloaded(@, OrderKey(page), TRUE),
                          !.timer = FALSE], FALSE)
    /\ UNCHANGED <<calls, server>>
Refresh ==
    /\ OrderKey(page) # None /\ ~LoadingFor(page.order, OrderKey(page))
    /\ Shows([page EXCEPT !.order = Reloaded(@, OrderKey(page), FALSE)], FALSE)
    /\ UNCHANGED <<calls, server>>

-----------------------------------------------------------------------------
(* The changes of the cart (mutate, checkout) and of the quotes (act). *)

Ready == /\ page.screen \in DOMAIN Changes /\ page.session # None
         /\ ~LoadingFor(page.list, page.session)
\* The banner of a failed load is replaced; only the button itself waits.
Free == Cardinality(calls.changes) + Cardinality(calls.finish) < MaxCalls
Change(name) ==
    /\ Free /\ Ready /\ name \in Changes[page.screen] /\ page.busy # name
    /\ page.screen = "cart" => DataFor(page.list, page.session, FALSE) # None
    /\ name = "quote" => page.price
    /\ page' = [page EXCEPT !.busy = name,
                            !.list = ErrorCleared(@, page.session)]
    /\ calls' = [calls EXCEPT !.changes =
                    @ \cup {[name |-> name, session |-> page.session]}]
    /\ UNCHANGED server
ChooseVersion == /\ page.screen = "pricing" /\ Ready
                 /\ page' = [page EXCEPT !.price = FALSE] /\ UNCHANGED <<calls, server>>
\* An answer is written to the list of the session that asked.
Changed(c) ==
    /\ c \in calls.changes
    /\ calls' = [calls EXCEPT !.changes = @ \ {c}]
    /\ LET written == Updated(page.list, c.session, FALSE,
                              [owner |-> c.session, paid |-> FALSE])
       IN  \/ /\ c.name \in {"mutate", "quote"}
              /\ page' = [page EXCEPT !.busy = None, !.list = written]
           \/ /\ c.name \in {"preview", "quote"}
              /\ page' = [page EXCEPT !.busy = None, !.price = TRUE,
                                      !.list = IF c.name = "quote" THEN written ELSE @]
           \/ page' = IF c.session = None THEN page       \* its screen is gone
                      ELSE [page EXCEPT !.busy = None]
    /\ UNCHANGED server
\* checkout() leaves for the hosted page, where another document is loaded.
CheckedOut(c) ==
    /\ c \in calls.changes /\ c.name = "checkout"
    /\ Shows(Screen(page.session, "checkout", FALSE, FALSE), FALSE)
    /\ calls' = [changes |-> {}, finish |-> {}] /\ UNCHANGED server

-----------------------------------------------------------------------------
(* The sandbox's hosted checkout, with the token that is stored at the click. *)

Open == page.screen = "checkout" /\ DataFor(page.list, Hosted, FALSE) # None
Terms == /\ Open /\ page' = [page EXCEPT !.terms = ~@] /\ UNCHANGED <<calls, server>>
Finish(outcome) ==
    /\ Free /\ Open
    /\ IF outcome = "success" THEN page.terms /\ page.busy # "success" ELSE page.busy = None
    /\ page' = [page EXCEPT !.busy = outcome]
    /\ calls' = [calls EXCEPT !.finish = @ \cup
          {[outcome |-> outcome, session |-> page.session,
            step |-> IF outcome = "success" /\ page.session # None
                     THEN "acknowledge" ELSE "complete"]}]
    /\ UNCHANGED server
Acknowledged(f) ==
    /\ f \in calls.finish /\ f.step = "acknowledge"
    /\ calls' = [calls EXCEPT !.finish = (@ \ {f}) \cup {[f EXCEPT !.step = "complete"]}]
    /\ server' = [server EXCEPT !.acknowledged = @ \cup {f.session}]
    /\ UNCHANGED page
\* The provider's event is processed; the browser goes on to the page that says
\* so, or to the one of a checkout that was left.
Completed(f) ==
    /\ f \in calls.finish /\ f.step = "complete"
    /\ server' = [server EXCEPT !.paid = @ \/ f.outcome \in {"success", "failure"},
                                !.success = @ \cup IF f.outcome = "success"
                                                   THEN {f.session} ELSE {}]
    /\ LET returns == f.outcome = "success"
       IN  Shows(Screen(page.session, "orders", returns, returns), FALSE)
    /\ calls' = [changes |-> {}, finish |-> {}]
FinishFails(f) ==
    /\ f \in calls.finish
    /\ page' = IF page.screen = "checkout" THEN [page EXCEPT !.busy = None]
               ELSE page
    /\ calls' = [calls EXCEPT !.finish = @ \ {f}] /\ UNCHANGED server
\* The payment settles from elsewhere.
Settles == ~server.paid /\ server' = [server EXCEPT !.paid = TRUE]
           /\ UNCHANGED <<page, calls>>

Init ==
    /\ server = [sessions |-> 1, paid |-> FALSE, acknowledged |-> {}, success |-> {}]
    /\ calls = [changes |-> {}, finish |-> {}]
    /\ \E screen \in Screens, session \in {1, None}, asks \in BOOLEAN :
         page = Screen(session, screen, asks, asks)
Next ==
    \/ \E screen \in Screens : Visit(screen)
    \/ Switch \/ SignIn \/ SessionEnds
    \/ ListAnswers \/ OrderAnswers \/ OrderFails \/ PollTimer \/ Refresh
    \/ \E s \in DOMAIN Changes : \E name \in Changes[s] : Change(name)
    \/ ChooseVersion
    \/ \E c \in calls.changes : Changed(c) \/ CheckedOut(c)
    \/ Terms \/ \E outcome \in Outcomes : Finish(outcome)
    \/ \E f \in calls.finish : Acknowledged(f) \/ Completed(f) \/ FinishFails(f)
    \/ Settles
\* Requests end and timers fire; one that is asked again and again is answered.
Fairness == /\ WF_vars(OrderAnswers \/ OrderFails) /\ WF_vars(PollTimer)
            /\ SF_vars(OrderAnswers)
Spec == Init /\ [][Next]_vars /\ Fairness

-----------------------------------------------------------------------------
\* What a screen shows belongs to the session it is shown to: a change that was
\* sent in an earlier session and answers late does not write over it
\* (use-resource.ts 131-143, cart-screen.tsx 70-88).
OwnDataShown ==
    LET shown == DataFor(page.list, ListKey(page), FALSE)
    IN  /\ page.screen # "checkout" /\ shown # None => shown.owner = page.session
        /\ Order(page) # None => Order(page).owner = page.session

\* The page after a checkout shows the result of the payment in the end, unless
\* it is left (orders-screen.tsx 250-268).
Waits == page.screen = "orders" /\ page.returns /\ page.session # None
WaitIsOver == Waits => Order(page) # None /\ Order(page).paid
PaymentResultShown == (Waits /\ server.paid) ~> WaitIsOver

\* "switching between them shows the loading state" (orders-screen.tsx 230): while
\* a list or an order is asked for after a switch, the screen says so.  (The code
\* breaks it: going back to the data that settled last shows that data while it
\* is asked for again.)
SwitchShowsLoading ==
    /\ page.list.load # None /\ ~page.list.background =>
         LoadingFor(page.list, ListKey(page))
    /\ page.order.load # None /\ ~page.order.background =>
         LoadingFor(page.order, OrderKey(page))
=============================================================================
