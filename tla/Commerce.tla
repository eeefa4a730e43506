------------------------------ MODULE Commerce ------------------------------
(***************************************************************************)
(* The commercial core of the backend: one customer's cart, the quotes in  *)
(* it, the checkouts made from it, the payment provider's events, and the  *)
(* administrator's commands (backend/app/commerce/service.py).             *)
(*                                                                         *)
(* Every request runs in its own database session on a thread of the       *)
(* pool.  A session never refreshes what it loaded, and writes only the    *)
(* columns it changed, so a request that reads before one of its           *)
(* transactions and writes in it is two steps here: the row it saw is kept *)
(* in its request record.  What one database transaction reads and writes  *)
(* is one step.  A handler that is a single transaction is one action.     *)
(*                                                                         *)
(* A checkout is named by its idempotency key: payment_attempts has a      *)
(* unique constraint on it, so a key has at most one order and attempt.    *)
(***************************************************************************)
EXTENDS Naturals, FiniteSets

CONSTANTS
    Keys,           \* checkout idempotency keys
    Quotes,         \* commerce_quotes rows the account may create
    CustomQuotes,   \* the quotes whose configuration uses an uploaded image
    Workers,        \* requests that may be in progress at once
    Kinds,          \* kinds of provider event that may be delivered
    AdminTargets,   \* order states an administrator may ask for
    Demonstration,  \* TRUE for the sandbox provider, FALSE for Stripe
    NoKey           \* the key of a request that concerns no checkout


VARIABLES
    cart,       \* the shopping_carts row and its cart_lines
    quote,      \* status of each quote
    lapsed,     \* quotes past their expires_at
    order,      \* customer_orders, by checkout key
    lines,      \* the frozen lines of an order: the quotes it was made from
    attempt,    \* payment_attempts, by checkout key
    due,        \* attempts past their expires_at
    reserved,   \* production_asset_reservations: the custom lines held
    promoted,   \* order_production_assets: the custom lines copied to the order
    work,       \* lines that have a production_work row
    history,    \* order_history: what happened to the order that matters below
    outcome,    \* payment_events: the outcome recorded for each event
    session,    \* the provider's hosted checkout session
    refunds,    \* payments the provider has been asked to refund
    req         \* the requests in progress, one per worker

store    == <<cart, quote, lapsed, order, lines, attempt, due, reserved,
              promoted, work, history, outcome>>
provider == <<session, refunds>>
vars     == <<store, provider, req>>

CartStates    == {"absent", "active", "checkout_pending", "closed"}
QuoteStates   == {"unused", "active", "expired", "checked_out"}
PaymentStates == {"none", "pending", "paid", "failed", "cancelled",
                  "refund_pending", "refunded", "manual_review"}
OrderStates   == {"none", "payment_pending", "paid", "production_review",
                  "approved_for_production", "in_production", "quality_check",
                  "ready_to_ship", "shipped", "delivered", "cancelled",
                  "refund_pending", "refunded", "manual_review_required"}
EventKinds    == {"success", "mismatch", "incomplete", "failure", "cancel",
                  "refund", "refund_mismatch"}
Outcomes      == {"none", "paid", "manual_review", "failed", "cancelled",
                  "refunded", "out_of_order_ignored"}
Actions       == {"manual_review_required", "released"}

ASSUME CommerceAssumption ==
    /\ CustomQuotes \subseteq Quotes
    /\ NoKey \notin Keys
    /\ Kinds \subseteq EventKinds
    /\ AdminTargets \subseteq OrderStates \ {"none"}
    /\ Demonstration \in BOOLEAN

\* (Mutant: every attempt that is no longer pending is taken to be settled.)
SettledUnlessPending == PaymentStates \ {"none", "pending"}

\* The payment states in which the code takes an attempt to be settled.
Settled == {"paid", "refund_pending", "refunded"}

OrderRow   == [state : OrderStates, pay : PaymentStates, paid : BOOLEAN]
AttemptRow == [status : PaymentStates, url : BOOLEAN]
NoOrder    == [state |-> "none", pay |-> "none", paid |-> FALSE]
NoAttempt  == [status |-> "none", url |-> FALSE]

(***************************************************************************)
(* A request: where it stands (at), the checkout and the event it is about,*)
(* the outcome or order state it works towards (goal), the due attempts it *)
(* still has to expire (todo), the quotes it read (rows), and the order    *)
(* row and the attempt status it loaded (ord, att).                        *)
(***************************************************************************)
Points  == {"idle", "customer", "add", "checkout", "rows", "commit",
            "provider", "store", "apply", "record", "transition", "shipment",
            "refund", "submit"}
Request == [at : Points, key : Keys \cup {NoKey},
            event : EventKinds \cup {"none"}, goal : Outcomes \cup OrderStates,
            todo : SUBSET Keys, rows : SUBSET Quotes,
            ord : OrderRow, att : PaymentStates]
Idle    == [at |-> "idle", key |-> NoKey, event |-> "none", goal |-> "none",
            todo |-> {}, rows |-> {}, ord |-> NoOrder, att |-> "none"]

Init ==
    /\ cart = [state |-> "absent", lines |-> {}]
    /\ quote = [q \in Quotes |-> "unused"]
    /\ lapsed = {}
    /\ order = [k \in Keys |-> NoOrder]
    /\ lines = [k \in Keys |-> {}]
    /\ attempt = [k \in Keys |-> NoAttempt]
    /\ due = {}
    /\ reserved = [k \in Keys |-> {}]
    /\ promoted = [k \in Keys |-> {}]
    /\ work = [k \in Keys |-> {}]
    /\ history = [k \in Keys |-> {}]
    /\ outcome = [k \in Keys |-> [e \in EventKinds |-> "none"]]
    /\ session = [k \in Keys |-> "none"]
    /\ refunds = {}
    /\ req = [w \in Workers |-> Idle]

\* A request ends: its response is sent, or its session is rolled back.
Finish(w) == req' = [req EXCEPT ![w] = Idle]

\* A request goes on to another point, keeping what it read.
GoTo(w, point) == req' = [req EXCEPT ![w].at = point]

\* Flush: the column keeps the value in the database unless this session
\* changed it from the value it had loaded.
Written(stored, seen, new) == IF new = seen THEN stored ELSE new

\* The order row after a session that loaded `seen` sets its two columns.
OrderWritten(k, seen, state, pay) ==
    [state |-> Written(order[k].state, seen.state, state),
     pay   |-> Written(order[k].pay, seen.pay, pay),
     paid  |-> order[k].paid]

\* (Mutant: the reservations are forgotten.)
ReleaseCartOnly(k, state) ==
    cart' = [cart EXCEPT !.state = state] /\ UNCHANGED reserved

\* (Mutant: the cart is forgotten.)
ReleaseImagesOnly(k, state) ==
    reserved' = [reserved EXCEPT ![k] = {}] /\ UNCHANGED cart

\* The reservations of an attempt are deleted and its cart is given `state`.
Release(k, state) ==
    /\ reserved' = [reserved EXCEPT ![k] = {}]
    /\ cart' = [cart EXCEPT !.state = state]

-----------------------------------------------------------------------------
(* Time and quotes.                                                        *)

\* The thirty minutes of a checkout pass (CHECKOUT_LIFETIME).
CheckoutFallsDue(k) ==
    /\ attempt[k].status # "none"
    /\ k \notin due
    /\ due' = due \cup {k}
    /\ UNCHANGED <<cart, quote, lapsed, order, lines, attempt, reserved,
                   promoted, work, history, outcome, provider, req>>

\* The validity of a quote passes.
QuoteLapses(q) ==
    /\ quote[q] = "active"
    /\ q \notin lapsed
    /\ lapsed' = lapsed \cup {q}
    /\ UNCHANGED <<cart, quote, order, lines, attempt, due, reserved,
                   promoted, work, history, outcome, provider, req>>

\* create_quote and reprice_quote: a new row, whatever happens to an old one.
CreateQuote(q) ==
    /\ quote[q] = "unused"
    /\ quote' = [quote EXCEPT ![q] = "active"]
    /\ UNCHANGED <<cart, lapsed, order, lines, attempt, due, reserved,
                   promoted, work, history, outcome, provider, req>>

\* list_quotes, get_quote and the first check of add_to_cart: the quotes that
\* are read and have lapsed are stored as expired.
ExpireQuotes(read) ==
    LET expired == {q \in read \cap lapsed : quote[q] = "active"}
    IN  /\ expired # {}
        /\ quote' = [q \in Quotes |-> IF q \in expired THEN "expired"
                                                       ELSE quote[q]]
        /\ UNCHANGED <<cart, lapsed, order, lines, attempt, due, reserved,
                       promoted, work, history, outcome, provider, req>>

-----------------------------------------------------------------------------
(* Expiry of abandoned checkouts: there is no background job, the requests *)
(* that read a cart or the orders do it first.                             *)

\* (Mutant: only the order is cancelled, not its attempt.)
CancelOrderOnly(k, seen, status) ==
    /\ order' = [order EXCEPT ![k] = OrderWritten(k, seen, "cancelled", status)]
    /\ Release(k, "active")
    /\ history' = [history EXCEPT ![k] = @ \cup {"released"}]
    /\ UNCHANGED attempt

\* _cancel_attempt, for an attempt the session saw pending and an order row it
\* saw as `seen`: the hold on the custom images ends and the cart reopens.
CancelAttempt(k, seen, status) ==
    /\ attempt' = [attempt EXCEPT ![k].status = status]
    /\ order' = [order EXCEPT ![k] = OrderWritten(k, seen, "cancelled", status)]
    /\ Release(k, "active")
    /\ history' = [history EXCEPT ![k] = @ \cup {"released"}]

\* (Mutant: only attempts whose session was stored.)
OverdueSessions == {k \in due : attempt[k].status = "pending" /\ attempt[k].url}

\* The query of _expire_pending_attempts.
Overdue == {k \in due : attempt[k].status = "pending"}

\* A request of the customer starts by listing the attempts to expire.
Begin(w, point, key, rows) ==
    /\ req[w] = Idle
    /\ req' = [req EXCEPT ![w] = [Idle EXCEPT !.at = point, !.key = key,
                                              !.todo = Overdue, !.rows = rows]]
    /\ UNCHANGED <<store, provider>>

\* get_cart, change_cart_line, remove_cart_line, empty_cart, list_orders and
\* get_order; what each goes on to do is chosen when it does it.
BeginCustomer(w) == Begin(w, "customer", NoKey, {})

\* add_to_cart has checked its quote before it turns to the cart.
BeginAdd(w, q) == /\ quote[q] = "active" /\ q \notin lapsed
                  /\ Begin(w, "add", NoKey, {q})

\* create_checkout: a key that already has a hosted checkout gets it again.
BeginCheckout(w, k) == ~attempt[k].url /\ Begin(w, "checkout", k, {})

\* sandbox_checkout expires the one attempt it shows.
BeginSandboxView(w, k) ==
    /\ Demonstration /\ attempt[k].url
    /\ req[w] = Idle
    /\ req' = [req EXCEPT ![w] = [Idle EXCEPT !.at = "customer",
                                              !.todo = Overdue \cap {k}]]
    /\ UNCHANGED <<store, provider>>

\* One turn of the loop: the attempt was listed as pending, its order is read.
ExpireAttempt(w, k) ==
    /\ req[w].at \in {"customer", "add", "checkout"}
    /\ k \in req[w].todo
    /\ CancelAttempt(k, order[k], "cancelled")
    /\ req' = [req EXCEPT ![w].todo = @ \ {k}]
    /\ UNCHANGED <<quote, lapsed, lines, due, promoted, work, outcome, provider>>

-----------------------------------------------------------------------------
(* The cart.                                                               *)

\* _cart: the account's cart, created when there is none, emptied and reopened
\* when its checkout was paid.
Opened == IF cart.state \in {"absent", "closed"}
          THEN [state |-> "active", lines |-> {}] ELSE cart

\* (Mutant: a quote that was checked out can be sold again.)
Unexpired == {q \in Quotes : quote[q] \in {"active", "checked_out"} /\ q \notin lapsed}

\* A line stays in a cart while its quote is active and has not expired.
Sellable == {q \in Quotes : quote[q] = "active" /\ q \notin lapsed}

\* _clean_cart, on a cart the session holds as active.
Cleaned(c) == [c EXCEPT !.lines = @ \cap Sellable]

\* The request has expired what it listed and reaches its own work.
Ready(w, point) == req[w].at = point /\ req[w].todo = {}

CartBecomes(w, c) ==
    /\ cart' = c
    /\ Finish(w)
    /\ UNCHANGED <<quote, lapsed, order, lines, attempt, due, reserved,
                   promoted, work, history, outcome, provider>>

\* list_orders, get_order and sandbox_checkout only read from here on.
ReadOrders(w) == Ready(w, "customer") /\ CartBecomes(w, cart)

GetCart(w) ==
    /\ Ready(w, "customer")
    /\ CartBecomes(w, IF Opened.state = "active" THEN Cleaned(Opened) ELSE Opened)

\* Neither of these two looks at the state of the cart.
RemoveCartLine(w, q) ==
    /\ Ready(w, "customer")
    /\ q \in Opened.lines
    /\ CartBecomes(w, [Opened EXCEPT !.lines = @ \ {q}])

ChangeCartLine(w, q, replacement) ==
    /\ Ready(w, "customer")
    /\ q \in Opened.lines
    /\ quote[replacement] = "unused"
    /\ quote' = [quote EXCEPT ![replacement] = "active"]
    /\ cart' = [Opened EXCEPT !.lines = (@ \ {q}) \cup {replacement}]
    /\ Finish(w)
    /\ UNCHANGED <<lapsed, order, lines, attempt, due, reserved, promoted,
                   work, history, outcome, provider>>

EmptyCart(w) ==
    /\ Ready(w, "customer")
    /\ Opened.state = "active"
    /\ CartBecomes(w, [Opened EXCEPT !.lines = {}])

\* add_to_cart: refused unless the cart is active; a line is unique per quote.
AddToCart(w) ==
    /\ Ready(w, "add")
    /\ CartBecomes(w, IF Opened.state = "active"
                      THEN [Opened EXCEPT !.lines = @ \cup req[w].rows]
                      ELSE Opened)

-----------------------------------------------------------------------------
(* create_checkout.                                                        *)

\* The transaction that freezes the order: order, attempt, quotes,
\* reservations and cart.  A second order for the same idempotency key breaks
\* the unique constraint, and the request fails without a trace.
PlaceOrder(w, rows) ==
    LET k == req[w].key
    IN  IF attempt[k].status # "none"
        THEN Finish(w) /\ UNCHANGED <<store, provider>>
        ELSE /\ order' = [order EXCEPT ![k] = [state |-> "payment_pending",
                                               pay |-> "pending", paid |-> FALSE]]
             /\ attempt' = [attempt EXCEPT ![k].status = "pending"]
             /\ lines' = [lines EXCEPT ![k] = rows]
             /\ quote' = [q \in Quotes |-> IF q \in rows THEN "checked_out"
                                                         ELSE quote[q]]
             /\ reserved' = [reserved EXCEPT ![k] = rows \cap CustomQuotes]
             /\ cart' = [cart EXCEPT !.state = "checkout_pending"]
             /\ GoTo(w, "provider")
             /\ UNCHANGED <<lapsed, due, promoted, work, history, outcome,
                            provider>>

\* The cart is missing or closed: it is created or reopened in a transaction
\* of its own, and the row lock taken on it ends with that transaction.
OpenCartForCheckout(w) ==
    /\ Ready(w, "checkout")
    /\ cart.state \in {"absent", "closed"}
    /\ cart' = Opened
    /\ GoTo(w, "rows")
    /\ UNCHANGED <<quote, lapsed, order, lines, attempt, due, reserved,
                   promoted, work, history, outcome, provider>>

\* The cart exists: its row is locked until the order is placed.
CheckOutLockedCart(w) ==
    /\ Ready(w, "checkout")
    /\ cart.state \notin {"absent", "closed"}
    /\ IF cart.state = "active" /\ cart.lines # {} /\ cart.lines \subseteq Sellable
       THEN PlaceOrder(w, cart.lines)
       ELSE CartBecomes(w, IF cart.state = "active" THEN Cleaned(cart) ELSE cart)

\* Without the lock: the session goes by the active cart it opened itself.
ReadRows(w) ==
    /\ req[w].at = "rows"
    /\ IF cart.lines # {} /\ cart.lines \subseteq Sellable
       THEN /\ req' = [req EXCEPT ![w].at = "commit", ![w].rows = cart.lines]
            /\ UNCHANGED <<store, provider>>
       ELSE CartBecomes(w, Cleaned(cart))

CheckOutUnlockedCart(w) == req[w].at = "commit" /\ PlaceOrder(w, req[w].rows)

\* The provider opens a hosted session, outside any transaction ...
OpenSession(w) ==
    /\ req[w].at = "provider"
    /\ session' = [session EXCEPT ![req[w].key] = "open"]
    /\ GoTo(w, "store")
    /\ UNCHANGED <<store, refunds>>

\* ... or fails, and the checkout is cancelled by the row as it was placed.
ProviderFails(w) ==
    /\ req[w].at = "provider"
    /\ CancelAttempt(req[w].key, [NoOrder EXCEPT !.state = "payment_pending",
                                                 !.pay = "pending"], "cancelled")
    /\ Finish(w)
    /\ UNCHANGED <<quote, lapsed, lines, due, promoted, work, outcome, provider>>

StoreSession(w) ==
    /\ req[w].at = "store"
    /\ attempt' = [attempt EXCEPT ![req[w].key].url = TRUE]
    /\ Finish(w)
    /\ UNCHANGED <<cart, quote, lapsed, order, lines, due, reserved, promoted,
                   work, history, outcome, provider>>

-----------------------------------------------------------------------------
(* The payment provider, outside this repository.                          *)

\* The customer, who needs the address of the session, pays before it expires.
Charge(k) ==
    /\ session[k] = "open" /\ attempt[k].url /\ k \notin due
    /\ session' = [session EXCEPT ![k] = "paid"]
    /\ UNCHANGED <<store, refunds, req>>

\* A refund made at the provider and not through the application.
RefundAtProvider(k) ==
    /\ session[k] = "paid" /\ k \notin refunds
    /\ refunds' = refunds \cup {k}
    /\ UNCHANGED <<store, session, req>>

\* The signed events that exist.  A payment may be reported more than once:
\* in full, with other amounts (a tax the session does not mention), or
\* without the shipping details.  A failure leaves the session payable.
Emitted(k, e) ==
    CASE e \in {"success", "mismatch", "incomplete", "refund_mismatch"}
              -> session[k] = "paid"
      [] e \in {"failure", "cancel"} -> session[k] # "none"
      [] e = "refund" -> k \in refunds

-----------------------------------------------------------------------------
(* process_webhook.                                                        *)

\* (Mutant: the images of an attempt under review are not promoted.)
PromotablePending(k) == IF attempt[k].status = "pending" THEN reserved[k] ELSE {}

\* payment_webhook is a coroutine that calls the handler on the event loop of
\* the one server process: two webhooks are never in progress together.  The
\* sandbox completes its checkouts on the thread pool, where they may be.
WebhookTurn ==
    Demonstration \/ \A w \in Workers : req[w].at \notin {"apply", "record"}

\* (Mutant: a failure passes for a payment.)
SuccessAndFailure == {"success", "failure"}

\* The events that report a payment in full.
SuccessEvents == {"success"}

\* The images _promote_assets copies to the order.
Promotable(k) == reserved[k]

\* (Mutant: the event is recorded before it is applied.)
DeliverRecorded(w, k, e) ==
    /\ Emitted(k, e)
    /\ outcome[k][e] = "none"
    /\ req[w] = Idle /\ WebhookTurn
    /\ outcome' = [outcome EXCEPT ![k][e] = "paid"]
    /\ req' = [req EXCEPT ![w] =
                  [Idle EXCEPT !.at = "apply", !.key = k, !.event = e,
                               !.rows = Promotable(k),
                               !.ord = order[k], !.att = attempt[k].status]]
    /\ UNCHANGED <<cart, quote, lapsed, order, lines, attempt, due, reserved,
                   promoted, work, history, provider>>

\* The handler loads the attempt and its order.  A recorded event is answered
\* from the record.  The reservations to promote are read here too.
Deliver(w, k, e) ==
    /\ Emitted(k, e)
    /\ outcome[k][e] = "none"
    /\ req[w] = Idle /\ WebhookTurn
    /\ req' = [req EXCEPT ![w] =
                  [Idle EXCEPT !.at = "apply", !.key = k, !.event = e,
                               !.rows = IF e \in SuccessEvents THEN Promotable(k)
                                                              ELSE {},
                               !.ord = order[k], !.att = attempt[k].status]]
    /\ UNCHANGED <<store, provider>>

\* The effect of the event is committed, its record comes in a transaction of
\* its own.
Applied(w, result) ==
    req' = [req EXCEPT ![w] = [Idle EXCEPT !.at = "record", !.goal = result,
                                           !.key = req[w].key,
                                           !.event = req[w].event]]

\* The request is about to apply an event of one of these kinds.
Applying(w, kinds) == req[w].at = "apply" /\ req[w].event \in kinds

\* (Mutant: the lines whose image is being promoted are not planned.)
PlannedWithoutImage(k) == lines[k] \ reserved[k]

\* create_paid_order_work: one row for each line of the order.
Planned(k) == lines[k]

\* A verified payment, whatever became of the order in the meantime.  The
\* images to promote were read somewhere between the load and now; a promoted
\* image is unique per order line.
ApplyPayment(w) ==
    LET k == req[w].key
    IN  /\ Applying(w, SuccessEvents)
        /\ req[w].att \notin Settled
        /\ \E images \in {req[w].rows, Promotable(k)} :
           IF images \cap promoted[k] # {}
           THEN Finish(w) /\ UNCHANGED store
           ELSE /\ order' = [order EXCEPT ![k] =
                      [OrderWritten(k, req[w].ord, "paid", "paid")
                          EXCEPT !.paid = TRUE]]
                /\ attempt' = [attempt EXCEPT ![k].status = "paid"]
                /\ promoted' = [promoted EXCEPT ![k] = @ \cup images]
                /\ work' = [work EXCEPT ![k] = @ \cup Planned(k)]
                /\ Release(k, "closed")
                /\ Applied(w, "paid")
                /\ UNCHANGED <<quote, lapsed, lines, due, history, outcome>>
        /\ UNCHANGED provider

\* The events that go to manual review: amounts or identities that differ (this
\* is looked at before the state of the attempt), missing or undecryptable
\* shipping details, an image that cannot be promoted, a refund nobody asked for.
NeedsReview(w) ==
    \/ Applying(w, {"mismatch", "refund_mismatch"})
    \/ Applying(w, {"success", "incomplete"}) /\ req[w].att \notin Settled
    \/ Applying(w, {"refund"}) /\ req[w].ord.pay \notin {"refund_pending", "refunded"}

ReviewPayment(w) ==
    LET k == req[w].key
    IN  /\ NeedsReview(w)
        /\ order' = [order EXCEPT ![k] =
               OrderWritten(k, req[w].ord, "manual_review_required", "manual_review")]
        /\ attempt' = [attempt EXCEPT ![k].status =
                           Written(@, req[w].att, "manual_review")]
        /\ history' = [history EXCEPT ![k] = @ \cup {"manual_review_required"}]
        /\ Applied(w, "manual_review")
        /\ UNCHANGED <<cart, quote, lapsed, lines, due, reserved, promoted, work,
                       outcome, provider>>

\* A failure or a cancellation, which counts only for a pending attempt.
ApplyCancellation(w) ==
    LET k      == req[w].key
        status == IF req[w].event = "failure" THEN "failed" ELSE "cancelled"
    IN  /\ Applying(w, {"failure", "cancel"})
        /\ req[w].att \notin Settled
        /\ IF req[w].att = "pending"
           THEN /\ CancelAttempt(k, req[w].ord, status)
                /\ UNCHANGED <<quote, lapsed, lines, due, promoted, work, outcome>>
           ELSE UNCHANGED store
        /\ Applied(w, status)
        /\ UNCHANGED provider

\* _apply_refund_event on an order that waits for its refund.
ApplyRefund(w) ==
    LET k == req[w].key
    IN  /\ Applying(w, {"refund"})
        /\ req[w].ord.pay = "refund_pending"
        /\ order' = [order EXCEPT ![k] =
               OrderWritten(k, req[w].ord, "refunded", "refunded")]
        /\ attempt' = [attempt EXCEPT ![k].status =
                           Written(@, req[w].att, "refunded")]
        /\ Applied(w, "refunded")
        /\ UNCHANGED <<cart, quote, lapsed, lines, due, reserved, promoted, work,
                       history, outcome, provider>>

\* An event that comes after the one that settled the payment or the refund.
IgnoreEvent(w) ==
    /\ \/ Applying(w, {"success", "incomplete", "failure", "cancel"})
          /\ req[w].att \in Settled
       \/ Applying(w, {"refund"}) /\ req[w].ord.pay = "refunded"
    /\ Applied(w, "out_of_order_ignored")
    /\ UNCHANGED <<store, provider>>

\* _record_event; an event identifier is recorded once.
RecordEvent(w) ==
    LET k == req[w].key
        e == req[w].event
    IN  /\ req[w].at = "record"
        /\ outcome' = [outcome EXCEPT ![k][e] =
                           IF @ = "none" THEN req[w].goal ELSE @]
        /\ Finish(w)
        /\ UNCHANGED <<cart, quote, lapsed, order, lines, attempt, due, reserved,
                       promoted, work, history, provider>>

-----------------------------------------------------------------------------
(* Administration of orders.                                               *)

AllowedTransitions ==
    [payment_pending         |-> {"paid", "cancelled", "manual_review_required"},
     paid                    |-> {"production_review", "refund_pending",
                                  "manual_review_required"},
     production_review       |-> {"approved_for_production", "refund_pending",
                                  "manual_review_required"},
     approved_for_production |-> {"in_production", "refund_pending",
                                  "manual_review_required"},
     in_production           |-> {"quality_check", "refund_pending",
                                  "manual_review_required"},
     quality_check           |-> {"ready_to_ship", "refund_pending",
                                  "manual_review_required"},
     ready_to_ship           |-> {"shipped", "refund_pending",
                                  "manual_review_required"},
     shipped                 |-> {"delivered", "refund_pending",
                                  "manual_review_required"},
     delivered               |-> {"refund_pending"},
     manual_review_required  |-> {"production_review", "cancelled"},
     refund_pending          |-> {"refunded", "manual_review_required"},
     cancelled               |-> {},
     refunded                |-> {}]

\* An administrator's command has read the order and passed its checks.
BeginCommand(w, point, k, target) ==
    /\ req[w] = Idle
    /\ req' = [req EXCEPT ![w] = [Idle EXCEPT !.at = point, !.key = k,
                                              !.goal = target, !.ord = order[k]]]
    /\ UNCHANGED <<store, provider>>

BeginTransition(w, k, target) ==
    /\ order[k].state # "none"
    /\ target \in AllowedTransitions[order[k].state]
    /\ order[k].state = "manual_review_required" =>
          target = (IF order[k].pay = "paid" THEN "production_review"
                                             ELSE "cancelled")
    /\ BeginCommand(w, "transition", k, target)

\* transition_order.  A cancellation also cancels the order's unsettled
\* attempt, frees its images and reopens its cart.
CommitTransition(w) ==
    LET k      == req[w].key
        target == req[w].goal
        pay    == IF target \in {"cancelled", "refunded"} THEN target
                                                          ELSE req[w].ord.pay
    IN  /\ req[w].at = "transition"
        /\ order' = [order EXCEPT ![k] = OrderWritten(k, req[w].ord, target, pay)]
        /\ IF target = "cancelled" /\ attempt[k].status \notin Settled
           THEN /\ attempt' = [attempt EXCEPT ![k].status = "cancelled"]
                /\ Release(k, "active")
                /\ history' = [history EXCEPT ![k] = @ \cup {"released"}]
           ELSE UNCHANGED <<attempt, reserved, cart, history>>
        /\ Finish(w)
        /\ UNCHANGED <<quote, lapsed, lines, due, promoted, work, outcome, provider>>

BeginShipment(w, k, target) ==
    /\ order[k].state \in {"ready_to_ship", "shipped", "delivered"}
    /\ BeginCommand(w, "shipment", k, target)

\* (Mutant: the state goes into the payment column.)
CommitShipmentAsPayment(w) ==
    LET k == req[w].key
    IN  /\ req[w].at = "shipment"
        /\ order' = [order EXCEPT ![k] =
               OrderWritten(k, req[w].ord, req[w].ord.state, req[w].goal)]
        /\ Finish(w)
        /\ UNCHANGED <<cart, quote, lapsed, lines, attempt, due, reserved, promoted,
                       work, history, outcome, provider>>

\* update_shipment, with or without a delivery date.
CommitShipment(w) ==
    LET k == req[w].key
    IN  /\ req[w].at = "shipment"
        /\ order' = [order EXCEPT ![k] =
               OrderWritten(k, req[w].ord, req[w].goal, req[w].ord.pay)]
        /\ Finish(w)
        /\ UNCHANGED <<cart, quote, lapsed, lines, attempt, due, reserved, promoted,
                       work, history, outcome, provider>>

\* refund: a paid order with a paid attempt, and not one already on its way.
BeginRefund(w, k) ==
    /\ order[k].pay = "paid"
    /\ order[k].state \notin {"refunded", "cancelled"}
    /\ attempt[k].status = "paid"
    /\ BeginCommand(w, "refund", k, "refund_pending")

\* (Mutant: the refund is booked before the provider has been asked.)
CommitRefundAtOnce(w) ==
    LET k == req[w].key
    IN  /\ req[w].at = "refund"
        /\ order' = [order EXCEPT ![k] =
               OrderWritten(k, req[w].ord, "refunded", "refunded")]
        /\ attempt' = [attempt EXCEPT ![k].status = "refunded"]
        /\ GoTo(w, "submit")
        /\ UNCHANGED <<cart, quote, lapsed, lines, due, reserved, promoted, work,
                       history, outcome, provider>>

\* The first transaction of refund; the provider is asked after it.
CommitRefund(w) ==
    LET k      == req[w].key
        stored == OrderWritten(k, req[w].ord, "refund_pending", "refund_pending")
    IN  /\ req[w].at = "refund"
        /\ order' = [order EXCEPT ![k] = stored]
        /\ attempt' = [attempt EXCEPT ![k].status = "refund_pending"]
        /\ GoTo(w, "submit")
        /\ UNCHANGED <<cart, quote, lapsed, lines, due, reserved, promoted, work,
                       history, outcome, provider>>

\* The provider accepts the refund.  The sandbox has no events of its own: the
\* same session applies the event, by the rows it has just written.
SubmitRefund(w) ==
    LET k == req[w].key
    IN  /\ req[w].at = "submit"
        /\ refunds' = refunds \cup {k}
        /\ IF Demonstration /\ outcome[k]["refund"] = "none"
           THEN req' = [req EXCEPT ![w] =
                  [@ EXCEPT !.at = "apply", !.event = "refund", !.goal = "none",
                            !.ord.state = "refund_pending",
                            !.ord.pay = "refund_pending",
                            !.att = "refund_pending"]]
           ELSE Finish(w)
        /\ UNCHANGED <<store, session>>

\* The provider does not answer: the request ends, the refund stays pending.
RefundFails(w) ==
    req[w].at = "submit" /\ Finish(w) /\ UNCHANGED <<store, provider>>

-----------------------------------------------------------------------------
\* The process dies: what the request committed stays, the rest is lost.
Crash(w) == req[w] # Idle /\ Finish(w) /\ UNCHANGED <<store, provider>>

Environment ==
    \/ \E k \in Keys : CheckoutFallsDue(k) \/ Charge(k) \/ RefundAtProvider(k)
    \/ \E q \in Quotes : QuoteLapses(q) \/ CreateQuote(q) \/ ExpireQuotes({q})
    \/ ExpireQuotes(Quotes)

Arrival(w) ==
    \/ BeginCustomer(w)
    \/ \E q \in Quotes : BeginAdd(w, q)
    \/ \E k \in Keys :
          \/ BeginCheckout(w, k) \/ BeginSandboxView(w, k) \/ BeginRefund(w, k)
          \/ \E e \in Kinds : Deliver(w, k, e)
          \/ \E target \in AdminTargets : BeginTransition(w, k, target)
          \/ \E target \in {"shipped", "delivered"} : BeginShipment(w, k, target)

Customer(w) ==
    \/ \E k \in Keys : ExpireAttempt(w, k)
    \/ ReadOrders(w) \/ GetCart(w) \/ EmptyCart(w) \/ AddToCart(w)
    \/ \E q \in Quotes : RemoveCartLine(w, q)
    \/ \E q, replacement \in Quotes : ChangeCartLine(w, q, replacement)
    \/ OpenCartForCheckout(w) \/ CheckOutLockedCart(w)
    \/ ReadRows(w) \/ CheckOutUnlockedCart(w)
    \/ OpenSession(w) \/ ProviderFails(w) \/ StoreSession(w)

Webhook(w) ==
    \/ ApplyPayment(w) \/ ReviewPayment(w) \/ ApplyCancellation(w)
    \/ ApplyRefund(w) \/ IgnoreEvent(w) \/ RecordEvent(w)

Administrator(w) ==
    \/ CommitTransition(w) \/ CommitShipment(w) \/ CommitRefund(w)
    \/ SubmitRefund(w) \/ RefundFails(w)

\* A request in progress goes on, or dies.
Proceed(w) == Customer(w) \/ Webhook(w) \/ Administrator(w) \/ Crash(w)

Next == Environment \/ \E w \in Workers : Arrival(w) \/ Proceed(w)

Spec == Init /\ [][Next]_vars

-----------------------------------------------------------------------------
(* Properties.                                                             *)

\* Every table and every request holds values the code can give it.
TypeOK ==
    /\ cart \in [state : CartStates, lines : SUBSET Quotes]
    /\ quote \in [Quotes -> QuoteStates]
    /\ lapsed \subseteq Quotes
    /\ order \in [Keys -> OrderRow]
    /\ lines \in [Keys -> SUBSET Quotes]
    /\ attempt \in [Keys -> AttemptRow]
    /\ due \subseteq Keys
    /\ reserved \in [Keys -> SUBSET Quotes]
    /\ promoted \in [Keys -> SUBSET Quotes]
    /\ work \in [Keys -> SUBSET Quotes]
    /\ history \in [Keys -> SUBSET Actions]
    /\ outcome \in [Keys -> [EventKinds -> Outcomes]]
    /\ session \in [Keys -> {"none", "open", "paid"}]
    /\ refunds \subseteq Keys
    /\ req \in [Workers -> Request]

\* While a customer may still pay, every uploaded image in the order is held:
\* no interleaving of expiry, webhooks and commands frees it early.
PendingHoldsImages ==
    \A k \in Keys : attempt[k].status = "pending"
                        => reserved[k] = lines[k] \cap CustomQuotes

\* An image is held only for an attempt that still may be paid or is under
\* review: every way out of these states gives the images back.
HeldOnlyWhileOpen ==
    \A k \in Keys : reserved[k] # {}
                        => attempt[k].status \in {"pending", "manual_review"}

\* A cart waits for a checkout only while some attempt that was never paid is
\* pending or under review: the customer is never left with a cart nothing can
\* reopen.
CartNotStuck ==
    cart.state = "checkout_pending" =>
        \E k \in Keys : /\ attempt[k].status \in {"pending", "manual_review"}
                        /\ ~order[k].paid

\* An order is marked paid only when the provider has the money for it, with
\* whatever events, in whatever order and however often they come.
PaidWasCharged == \A k \in Keys : order[k].paid => session[k] = "paid"

\* A paid order has production work for every line, and no other order has any:
\* a crash or a repeated event leaves no order half planned.
WorkForPaidLines ==
    \A k \in Keys : work[k] = IF order[k].paid THEN lines[k] ELSE {}

\* A paid order has its own copy of every uploaded image, unless its attempt
\* was cancelled or expired before the payment was processed.
PaidKeepsImages ==
    \A k \in Keys : order[k].paid /\ "released" \notin history[k]
                        => promoted[k] = lines[k] \cap CustomQuotes

\* A success that is acknowledged to the provider has left a paid order or an
\* order under review: it is never swallowed by a crash or by another event.
SuccessIsKept ==
    \A k \in Keys : outcome[k]["success"] # "none"
                        => \/ order[k].paid
                           \/ "manual_review_required" \in history[k]

\* The provider is asked for a refund only for money it has, and a payment is
\* booked as refunded only when the provider was asked: neither a command that
\* overtakes an event nor a repeated event books a refund that never was.
RefundMovesMoney ==
    \A k \in Keys : /\ k \in refunds => session[k] = "paid"
                    /\ attempt[k].status = "refunded" => k \in refunds

\* What the rows say of the checkouts to one who sees neither requests nor
\* events: those that are sold, what the books say of each payment, those a
\* person was asked to look at, and those whose payment was acknowledged.
Sold     == {k \in Keys : order[k].paid}
Books    == [k \in Keys |-> attempt[k].status]
Referred == {k \in Keys : "manual_review_required" \in history[k]}
Answered == {k \in Keys : outcome[k]["success"] # "none"}

\* Money, goods and books agree after every step: a checkout is sold only for
\* money received and planned in full with it, a refund is booked only after it
\* was asked for, an acknowledged payment is sold or referred, whatever stale
\* rows, repeated events and crashes come between.
Shop == INSTANCE Purchases WITH
            contents <- lines, held <- reserved, money <- session,
            returned <- refunds, sold <- Sold, planned <- work, books <- Books,
            referred <- Referred, answered <- Answered
PurchasesAreKept == Shop!Spec

\* A quote is sold once: two orders never contain the same quote.
QuoteSoldOnce ==
    \A k, l \in Keys : k # l => lines[k] \cap lines[l] = {}

\* A verified payment leaves only by the refund workflow: a paid order is never
\* cancelled (the refusal in transition_order).
VerifiedPaymentNotCancelled ==
    \A k \in Keys : order[k].paid => order[k].state # "cancelled"

\* A failure or cancellation that comes after the payment does not undo it
\* (test_commerce.py 601).  (The code breaks it where two completions of the
\* sandbox overlap: the failure decides by the attempt it had loaded.)
LateFailureIsSafe ==
    \A k \in Keys : order[k].paid => order[k].pay \notin {"failed", "cancelled"}

-----------------------------------------------------------------------------
(* The inductive invariant from which the safety properties follow for any *)
(* number of checkouts, quotes and requests in progress.                   *)

\* A checkout that was not placed has left no row anywhere.
NotPlaced(k) ==
    /\ order[k] = NoOrder
    /\ lines[k] = {} /\ reserved[k] = {} /\ promoted[k] = {}
    /\ session[k] = "none"

\* What the rows of one checkout say of each other.  An attempt or an order is
\* in a settled payment state only if it was paid; images are reserved and
\* promoted only from its lines, and go missing only by a release.
RowsAgree(k) ==
    /\ attempt[k].status = "none" => NotPlaced(k)
    /\ attempt[k].status \in Settled => order[k].paid
    /\ order[k].pay \in {"paid", "refund_pending"} => order[k].paid
    /\ order[k].paid => reserved[k] = {}
    /\ reserved[k] \subseteq lines[k] \cap CustomQuotes
    /\ promoted[k] \subseteq lines[k] \cap CustomQuotes
    /\ \/ reserved[k] = lines[k] \cap CustomQuotes
       \/ order[k].paid
       \/ "released" \in history[k]

\* What a request about a checkout knows to be true still, although the rows it
\* read may have changed since.
ApplyKnows(r) ==
    /\ r.event = "success" => session[r.key] = "paid"
    /\ r.event = "refund" => r.key \in refunds
    /\ r.att \in Settled \/ r.ord.pay = "refund_pending" => order[r.key].paid
    /\ r.event = "success" =>
          /\ r.rows \subseteq lines[r.key] \cap CustomQuotes
          /\ \/ r.rows = lines[r.key] \cap CustomQuotes
             \/ order[r.key].paid
             \/ "released" \in history[r.key]

\* The points at which a request is about a checkout that was placed.
Placed == Points \ {"idle", "customer", "add", "checkout", "rows", "commit"}

RequestKnows(r) ==
    /\ \A k \in r.todo : attempt[k].status # "none"
    /\ r.at \notin {"idle", "customer", "add"} => r.key \in Keys
    /\ r.at \in {"transition", "shipment"} => r.goal \in OrderStates
    /\ r.at = "record" => r.goal \in Outcomes
    /\ r.at \in {"apply", "record"} => r.event \in EventKinds
    /\ r.at \in Placed => attempt[r.key].status # "none"
    /\ r.at = "commit" => r.rows # {}
    /\ r.at = "provider" => session[r.key] = "none"
    /\ r.at = "apply" => ApplyKnows(r)
    /\ r.at = "record" /\ r.event = "success" =>
          order[r.key].paid \/ "manual_review_required" \in history[r.key]
    /\ r.at \in {"refund", "submit"} => order[r.key].paid

\* One request at most opens the hosted session of a checkout.
OneOpener ==
    \A w, x \in Workers :
        req[w].at = "provider" /\ req[x].at = "provider" /\ req[w].key = req[x].key
            => w = x

\* What holds of a payment at any moment, with requests at any point.
PaymentInvariant ==
    /\ PendingHoldsImages /\ HeldOnlyWhileOpen
    /\ PaidWasCharged /\ WorkForPaidLines /\ PaidKeepsImages
    /\ SuccessIsKept /\ RefundMovesMoney
    /\ \A k \in Keys : RowsAgree(k)
    /\ \A w \in Workers : RequestKnows(req[w])
    /\ OneOpener

IInv == TypeOK /\ PaymentInvariant /\ CartNotStuck

-----------------------------------------------------------------------------
(* Liveness.  Every request goes on or dies, the provider delivers an event*)
(* again until it is answered, the server does not crash every time it     *)
(* handles one, and a customer who abandoned a checkout looks at the cart  *)
(* or the orders again (there is no background job to expire it).          *)

Fairness ==
    /\ \A k \in Keys : \A e \in Kinds : SF_vars(\E w \in Workers : Deliver(w, k, e))
    /\ SF_vars(\E w \in Workers : BeginCustomer(w))
    /\ \A w \in Workers : /\ WF_vars(Proceed(w))
                          /\ SF_vars(Webhook(w))
                          /\ SF_vars(Administrator(w))
                          /\ SF_vars(\E k \in Keys : ExpireAttempt(w, k))

FairSpec == Spec /\ Fairness

\* Money the provider took is booked or looked at by a person in the end,
\* though the server may crash before, between and after its transactions.
ChargeIsHandled ==
    \A k \in Keys : session[k] = "paid"
        ~> order[k].paid \/ "manual_review_required" \in history[k]

\* An abandoned checkout ends, also one whose session was never stored.
AbandonedCheckoutEnds ==
    \A k \in Keys : (k \in due /\ attempt[k].status = "pending")
        ~> attempt[k].status # "pending"

\* A refund that is pending is put to the provider in the end.
PendingRefundIsRequested ==
    \A k \in Keys : order[k].pay = "refund_pending" ~> k \in refunds
=============================================================================
