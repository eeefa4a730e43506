--------------------------- MODULE CommerceProofs ---------------------------
(* What TLAPS proves of Commerce for any number of checkouts, quotes and   *)
(* concurrent requests, with either provider.                              *)
EXTENDS Commerce, TLAPS

\* The rows of the checkouts, which most actions leave alone.
Rows == <<order, lines, attempt, reserved, promoted, work, history, outcome,
          session, refunds>>

\* What the invariant says of one checkout.
KeyInv(k) ==
    /\ attempt[k].status = "pending" => reserved[k] = lines[k] \cap CustomQuotes
    /\ reserved[k] # {} => attempt[k].status \in {"pending", "manual_review"}
    /\ order[k].paid => session[k] = "paid"
    /\ work[k] = IF order[k].paid THEN lines[k] ELSE {}
    /\ order[k].paid /\ "released" \notin history[k]
          => promoted[k] = lines[k] \cap CustomQuotes
    /\ outcome[k]["success"] # "none"
          => order[k].paid \/ "manual_review_required" \in history[k]
    /\ k \in refunds => session[k] = "paid"
    /\ attempt[k].status = "refunded" => k \in refunds
    /\ RowsAgree(k)

\* The invariant is one statement per checkout, one per request and two about
\* pairs of them.
LEMMA Split ==
    IInv <=> /\ TypeOK
             /\ \A k \in Keys : KeyInv(k)
             /\ \A w \in Workers : RequestKnows(req[w])
             /\ OneOpener
             /\ CartNotStuck
BY DEF IInv, PaymentInvariant, KeyInv, PendingHoldsImages, HeldOnlyWhileOpen,
       PaidWasCharged, WorkForPaidLines, PaidKeepsImages, SuccessIsKept,
       RefundMovesMoney

LEMMA SplitNext ==
    ASSUME TypeOK', \A k \in Keys : KeyInv(k)',
           \A w \in Workers : RequestKnows(req[w])', OneOpener', CartNotStuck'
    PROVE  IInv'
BY DEF IInv, PaymentInvariant, KeyInv, PendingHoldsImages, HeldOnlyWhileOpen,
       PaidWasCharged, WorkForPaidLines, PaidKeepsImages, SuccessIsKept,
       RefundMovesMoney

\* The invariant holds before anything has happened.
LEMMA InitInvariant == Init => IInv
<1> SUFFICES ASSUME Init PROVE IInv
  OBVIOUS
<1>1. TypeOK
  BY CommerceAssumption DEF Init, TypeOK, CartStates, QuoteStates, OrderRow,
     AttemptRow, NoOrder, NoAttempt, OrderStates, PaymentStates, Outcomes,
     Request, Idle, Points
<1>2. ASSUME NEW k \in Keys PROVE KeyInv(k)
  BY DEF Init, KeyInv, RowsAgree, NotPlaced, NoOrder, NoAttempt, Settled, EventKinds
<1>3. ASSUME NEW w \in Workers PROVE RequestKnows(req[w])
  BY DEF Init, RequestKnows, Idle, Placed
<1>4. OneOpener /\ CartNotStuck
  BY DEF Init, OneOpener, Idle, CartNotStuck
<1> QED BY <1>1, <1>2, <1>3, <1>4, Split

-----------------------------------------------------------------------------
(* Frames: what a step has to show when it changes little.                 *)

\* The records a request is made of.
LEMMA RequestFields ==
    ASSUME TypeOK, NEW w \in Workers
    PROVE  /\ req[w] \in Request
           /\ req[w].ord \in OrderRow /\ req[w].att \in PaymentStates
           /\ req[w].rows \subseteq Quotes /\ req[w].todo \subseteq Keys
           /\ req[w].event \in EventKinds \cup {"none"}
           /\ req[w].goal \in Outcomes \cup OrderStates
BY DEF TypeOK, Request

\* Nothing a request may have seen of a checkout is taken back.
Grows(k) ==
    /\ attempt[k].status # "none" =>
          attempt'[k].status # "none" /\ lines'[k] = lines[k]
    /\ order[k].paid => order'[k].paid
    /\ history[k] \subseteq history'[k]
    /\ session[k] = "paid" => session'[k] = "paid"
    /\ k \in refunds => k \in refunds'

SameRows(k) ==
    /\ order'[k] = order[k] /\ lines'[k] = lines[k] /\ attempt'[k] = attempt[k]
    /\ reserved'[k] = reserved[k] /\ promoted'[k] = promoted[k]
    /\ work'[k] = work[k] /\ history'[k] = history[k]
    /\ outcome'[k] = outcome[k] /\ session'[k] = session[k]
    /\ k \in refunds' <=> k \in refunds

LEMMA SameRowsGrow ==
    ASSUME NEW k, SameRows(k) PROVE Grows(k)
BY DEF SameRows, Grows

\* A checkout whose rows do not change keeps its part of the invariant.
LEMMA SameRowsKeep ==
    ASSUME NEW k \in Keys, KeyInv(k), SameRows(k) PROVE KeyInv(k)'
BY DEF KeyInv, SameRows, RowsAgree, NotPlaced

\* A request that does not move keeps what it knows.
LEMMA OtherRequest ==
    ASSUME NEW x \in Workers, req'[x] = req[x], RequestKnows(req[x]),
           req[x].todo \subseteq Keys, \A k \in Keys : Grows(k),
           req[x].at = "provider" => session'[req[x].key] = session[req[x].key]
    PROVE  RequestKnows(req[x])'
<1> DEFINE r == req[x]
<1>0. \A k \in r.todo : attempt'[k].status # "none"
  BY DEF RequestKnows, Grows
<1>1. CASE r.at \in {"idle", "customer", "add"}
  BY <1>0, <1>1 DEF RequestKnows, Placed
<1>2. CASE r.at \notin {"idle", "customer", "add"}
  <2>1. r.key \in Keys /\ Grows(r.key)
    BY <1>2 DEF RequestKnows
  <2>2. r.at \in Placed => attempt[r.key].status # "none"
    BY DEF RequestKnows
  <2>3. r.at = "apply" => ApplyKnows(r)'
    BY <2>1, <2>2 DEF RequestKnows, ApplyKnows, Grows, Placed, Points
  <2> QED
    BY <1>0, <2>1, <2>2, <2>3 DEF RequestKnows, Grows
<1> QED BY <1>1, <1>2

\* The rows of one checkout change.
LEMMA RowStep ==
    ASSUME IInv, TypeOK', OneOpener', CartNotStuck',
           NEW k \in Keys, KeyInv(k)', Grows(k),
           \A l \in Keys : l # k => SameRows(l),
           \A x \in Workers :
               \/ RequestKnows(req[x])'
               \/ /\ req'[x] = req[x]
                  /\ req[x].at = "provider" /\ req[x].key = k
                         => session'[k] = session[k]
    PROVE  IInv'
<1>1. ASSUME NEW l \in Keys PROVE KeyInv(l)' /\ Grows(l)
  BY SameRowsKeep, SameRowsGrow, Split
<1>2. ASSUME NEW x \in Workers PROVE RequestKnows(req[x])'
  <2>1. CASE req'[x] = req[x] /\ (req[x].at = "provider" /\ req[x].key = k
                                      => session'[k] = session[k])
    <3>1. RequestKnows(req[x])
      BY Split
    <3>2. req[x].at = "provider" => session'[req[x].key] = session[req[x].key]
      BY <2>1, <3>1 DEF RequestKnows, SameRows
    <3> QED BY <2>1, <3>1, <3>2, <1>1, OtherRequest, RequestFields, Split
  <2> QED BY <2>1
<1> QED BY <1>1, <1>2, SplitNext

\* Requests that move do not come to the point where a session is opened.
LEMMA OpenerStep ==
    ASSUME OneOpener,
           \A x \in Workers : req'[x] = req[x] \/ req'[x].at # "provider"
    PROVE  OneOpener'
BY DEF OneOpener

\* The checkout a pending cart waits for stays open.
LEMMA CartStep ==
    ASSUME CartNotStuck,
           cart'.state = "checkout_pending" => cart.state = "checkout_pending",
           \A l \in Keys :
               attempt[l].status \in {"pending", "manual_review"} /\ ~order[l].paid
               => attempt'[l].status \in {"pending", "manual_review"} /\ ~order'[l].paid
    PROVE  CartNotStuck'
BY DEF CartNotStuck

\* No rows change: the step is about the cart, the quotes and the requests.
LEMMA QuietStep ==
    ASSUME IInv, TypeOK', UNCHANGED Rows,
           cart'.state = "checkout_pending" => cart.state = "checkout_pending",
           \A x \in Workers :
               \/ req'[x] = req[x]
               \/ RequestKnows(req[x])' /\ req'[x].at # "provider"
    PROVE  IInv'
<1>1. ASSUME NEW l \in Keys PROVE KeyInv(l)' /\ Grows(l)
  <2>1. SameRows(l)
    BY DEF Rows, SameRows
  <2> QED BY <2>1, SameRowsKeep, SameRowsGrow, Split
<1>2. ASSUME NEW x \in Workers PROVE RequestKnows(req[x])'
  BY <1>1, OtherRequest, RequestFields, Split DEF Rows
<1>3. OneOpener'
  BY Split, OpenerStep
<1>4. CartNotStuck'
  BY Split, CartStep DEF Rows
<1> QED BY <1>1, <1>2, <1>3, <1>4, SplitNext

\* What a write of the two columns of an order makes of it.
LEMMA OrderWrittenRow ==
    ASSUME TypeOK, NEW k \in Keys, NEW seen, NEW state \in OrderStates,
           NEW pay \in PaymentStates
    PROVE  /\ OrderWritten(k, seen, state, pay) \in OrderRow
           /\ OrderWritten(k, seen, state, pay).paid = order[k].paid
           /\ OrderWritten(k, seen, state, pay).pay \in {order[k].pay, pay}
BY DEF TypeOK, OrderWritten, Written, OrderRow

-----------------------------------------------------------------------------
(* Steps that change no row of a checkout.                                 *)

LEMMA IdleIsRequest ==
    /\ Idle \in Request /\ Idle.at = "idle" /\ Idle.todo = {}
    /\ NoOrder \in OrderRow /\ NoOrder.paid = FALSE /\ NoOrder.pay = "none"
BY DEF Idle, Request, Points, Outcomes, OrderRow, NoOrder, OrderStates, PaymentStates

LEMMA TimeStep ==
    ASSUME IInv,
           \/ \E k \in Keys : CheckoutFallsDue(k)
           \/ \E q \in Quotes : QuoteLapses(q) \/ CreateQuote(q)
           \/ \E read \in SUBSET Quotes : ExpireQuotes(read)
    PROVE  IInv'
<1> USE DEF store, provider
<1>1. TypeOK
  BY Split
<1>2. TypeOK' /\ UNCHANGED <<Rows, cart, req>>
  <2>1. ASSUME NEW k \in Keys, CheckoutFallsDue(k)
        PROVE  TypeOK' /\ UNCHANGED <<Rows, cart, req>>
    BY <1>1, <2>1 DEF CheckoutFallsDue, TypeOK, Rows
  <2>2. ASSUME NEW q \in Quotes, QuoteLapses(q)
        PROVE  TypeOK' /\ UNCHANGED <<Rows, cart, req>>
    BY <1>1, <2>2 DEF QuoteLapses, TypeOK, Rows
  <2>3. ASSUME NEW q \in Quotes, CreateQuote(q)
        PROVE  TypeOK' /\ UNCHANGED <<Rows, cart, req>>
    BY <1>1, <2>3 DEF CreateQuote, TypeOK, Rows, QuoteStates
  <2>4. ASSUME NEW read \in SUBSET Quotes, ExpireQuotes(read)
        PROVE  TypeOK' /\ UNCHANGED <<Rows, cart, req>>
    BY <1>1, <2>4 DEF ExpireQuotes, TypeOK, Rows, QuoteStates
  <2> QED BY <2>1, <2>2, <2>3, <2>4
<1> QED BY <1>2, QuietStep

\* A request starts.
LEMMA BeginStep ==
    ASSUME IInv, NEW w \in Workers, NEW key \in Keys \cup {NoKey},
           NEW rows \in SUBSET Quotes, NEW point \in {"customer", "add", "checkout"},
           point = "checkout" => key \in Keys,
           Begin(w, point, key, rows)
    PROVE  IInv'
<1> USE DEF store, provider
<1>1. TypeOK
  BY Split
<1> DEFINE r == [Idle EXCEPT !.at = point, !.key = key, !.todo = Overdue, !.rows = rows]
<1>2. Overdue \subseteq Keys
  BY <1>1 DEF Overdue, TypeOK
<1>3. r \in Request /\ r.at = point /\ r.key = key /\ r.todo = Overdue
  BY <1>2 DEF Request, Idle, Points, Outcomes, OrderStates, OrderRow, NoOrder,
     PaymentStates
<1>4. req' = [req EXCEPT ![w] = r] /\ UNCHANGED <<store, provider>>
  BY DEF Begin
<1>5. TypeOK'
  BY <1>1, <1>3, <1>4 DEF TypeOK
<1>6. req'[w] = r /\ \A x \in Workers : x # w => req'[x] = req[x]
  BY <1>1, <1>4 DEF TypeOK
<1>7. RequestKnows(req[w])' /\ req'[w].at # "provider"
  BY <1>3, <1>4, <1>6 DEF RequestKnows, Placed, Overdue
<1>8. UNCHANGED <<Rows, cart>>
  BY <1>4 DEF Rows
<1> QED BY <1>5, <1>6, <1>7, <1>8, QuietStep

LEMMA BeginSandboxViewStep ==
    ASSUME IInv, NEW w \in Workers, NEW k \in Keys, BeginSandboxView(w, k)
    PROVE  IInv'
<1> USE DEF store, provider
<1>1. TypeOK
  BY Split
<1> DEFINE r == [Idle EXCEPT !.at = "customer", !.todo = Overdue \cap {k}]
<1>2. r \in Request /\ r.at = "customer" /\ r.todo \subseteq Overdue
  BY DEF Request, Idle, Points, Outcomes, OrderStates, OrderRow, NoOrder, PaymentStates
<1>3. req' = [req EXCEPT ![w] = r] /\ UNCHANGED <<store, provider>>
  BY DEF BeginSandboxView
<1>4. TypeOK'
  BY <1>1, <1>2, <1>3 DEF TypeOK
<1>5. req'[w] = r /\ \A x \in Workers : x # w => req'[x] = req[x]
  BY <1>1, <1>3 DEF TypeOK
<1>6. RequestKnows(req[w])' /\ req'[w].at # "provider"
  BY <1>2, <1>3, <1>5 DEF RequestKnows, Placed, Overdue
<1>7. UNCHANGED <<Rows, cart>>
  BY <1>3 DEF Rows
<1> QED BY <1>4, <1>5, <1>6, <1>7, QuietStep

\* A request ends, having changed the cart at most.
LEMMA CartBecomesStep ==
    ASSUME IInv, NEW w \in Workers, NEW c \in [state : CartStates, lines : SUBSET Quotes],
           c.state = "checkout_pending" => cart.state = "checkout_pending",
           cart' = c, Finish(w),
           quote' \in [Quotes -> QuoteStates], UNCHANGED <<lapsed, due, Rows>>
    PROVE  IInv'
<1>1. TypeOK
  BY Split
<1>2. TypeOK'
  BY <1>1, IdleIsRequest DEF TypeOK, Finish, Rows
<1>3. req'[w] = Idle /\ \A x \in Workers : x # w => req'[x] = req[x]
  BY <1>1 DEF TypeOK, Finish
<1>4. RequestKnows(req[w])' /\ req'[w].at # "provider"
  BY <1>3, IdleIsRequest DEF RequestKnows, Placed
<1> QED BY <1>2, <1>3, <1>4, QuietStep

\* What the cart can become without a checkout.
LEMMA CartForms ==
    ASSUME TypeOK
    PROVE  /\ cart \in [state : CartStates, lines : SUBSET Quotes]
           /\ Opened \in [state : CartStates, lines : SUBSET Quotes]
           /\ Opened.state = "checkout_pending" => cart.state = "checkout_pending"
           /\ \A c \in [state : CartStates, lines : SUBSET Quotes] :
                 \A ls \in SUBSET Quotes :
                    /\ [c EXCEPT !.lines = ls] \in [state : CartStates, lines : SUBSET Quotes]
                    /\ [c EXCEPT !.lines = ls].state = c.state
BY DEF TypeOK, Opened, CartStates

LEMMA CustomerCartStep ==
    ASSUME IInv, NEW w \in Workers,
           \/ ReadOrders(w) \/ GetCart(w) \/ EmptyCart(w) \/ AddToCart(w)
           \/ \E q \in Quotes : RemoveCartLine(w, q)
           \/ \E q, replacement \in Quotes : ChangeCartLine(w, q, replacement)
    PROVE  IInv'
<1> USE DEF store, provider
<1> DEFINE Carts == [state : CartStates, lines : SUBSET Quotes]
<1>1. TypeOK
  BY Split
<1>2. /\ cart \in Carts /\ Opened \in Carts /\ Opened.lines \subseteq Quotes
      /\ Opened.state = "checkout_pending" => cart.state = "checkout_pending"
      /\ \A c \in Carts : \A ls \in SUBSET Quotes :
            [c EXCEPT !.lines = ls] \in Carts /\ [c EXCEPT !.lines = ls].state = c.state
  BY <1>1, CartForms
<1>3. quote \in [Quotes -> QuoteStates]
  BY <1>1 DEF TypeOK
<1>4. ASSUME NEW c \in Carts, c.state \in {cart.state, Opened.state}, CartBecomes(w, c)
      PROVE  IInv'
  BY <1>2, <1>3, <1>4, CartBecomesStep DEF CartBecomes, Rows
<1>5. CASE ReadOrders(w)
  BY <1>2, <1>4, <1>5 DEF ReadOrders
<1>6. CASE GetCart(w)
  <2>1. Cleaned(Opened) \in Carts /\ Cleaned(Opened).state = Opened.state
    BY <1>2 DEF Cleaned
  <2> QED BY <2>1, <1>2, <1>4, <1>6 DEF GetCart
<1>7. CASE EmptyCart(w)
  BY <1>2, <1>4, <1>7 DEF EmptyCart
<1>8. CASE AddToCart(w)
  <2>1. req[w].rows \subseteq Quotes
    BY <1>1, RequestFields
  <2>2. [Opened EXCEPT !.lines = @ \cup req[w].rows] \in Carts
    BY <1>2, <2>1
  <2>3. [Opened EXCEPT !.lines = @ \cup req[w].rows].state = Opened.state
    BY <1>2, <2>1
  <2> QED BY <2>2, <2>3, <1>2, <1>4, <1>8 DEF AddToCart
<1>9. ASSUME NEW q \in Quotes, RemoveCartLine(w, q) PROVE IInv'
  BY <1>2, <1>4, <1>9 DEF RemoveCartLine
<1>10. ASSUME NEW q \in Quotes, NEW replacement \in Quotes,
              ChangeCartLine(w, q, replacement)
       PROVE  IInv'
  <2> DEFINE c == [Opened EXCEPT !.lines = (@ \ {q}) \cup {replacement}]
  <2>1. c \in Carts /\ c.state = Opened.state
    BY <1>2
  <2>2. cart' = c /\ Finish(w) /\ UNCHANGED <<lapsed, due, Rows>>
    BY <1>10 DEF ChangeCartLine, Rows
  <2>3. quote' \in [Quotes -> QuoteStates]
    BY <1>3, <1>10 DEF ChangeCartLine, QuoteStates
  <2>4. c.state = "checkout_pending" => cart.state = "checkout_pending"
    BY <2>1, <1>2
  <2> HIDE DEF c
  <2> QED BY <2>1, <2>2, <2>3, <2>4, CartBecomesStep
<1> QED BY <1>5, <1>6, <1>7, <1>8, <1>9, <1>10

\* A request goes on without a change to any row, at a point it may be at.
LEMMA MoveStep ==
    ASSUME IInv, NEW w \in Workers, NEW c \in [state : CartStates, lines : SUBSET Quotes],
           c.state = "checkout_pending" => cart.state = "checkout_pending",
           cart' = c, UNCHANGED <<quote, lapsed, due, Rows>>,
           req' \in [Workers -> Request],
           \A x \in Workers : x # w => req'[x] = req[x],
           RequestKnows(req[w])', req'[w].at # "provider"
    PROVE  IInv'
<1>1. TypeOK
  BY Split
<1>2. TypeOK'
  BY <1>1 DEF TypeOK, Rows
<1> QED BY <1>2, QuietStep

LEMMA CheckoutCartStep ==
    ASSUME IInv, NEW w \in Workers, OpenCartForCheckout(w) \/ ReadRows(w)
    PROVE  IInv'
<1> USE DEF store, provider
<1> DEFINE Carts == [state : CartStates, lines : SUBSET Quotes]
<1>1. TypeOK /\ RequestKnows(req[w]) /\ req[w] \in Request /\ req \in [Workers -> Request]
  BY Split, RequestFields DEF TypeOK
<1>2. /\ cart \in Carts /\ Opened \in Carts
      /\ Opened.state = "checkout_pending" => cart.state = "checkout_pending"
      /\ \A c \in Carts : \A ls \in SUBSET Quotes :
            [c EXCEPT !.lines = ls] \in Carts /\ [c EXCEPT !.lines = ls].state = c.state
  BY <1>1, CartForms
<1>3. CASE OpenCartForCheckout(w)
  <2> DEFINE r == [req[w] EXCEPT !.at = "rows"]
  <2>1. r \in Request /\ r.at = "rows" /\ r.key = req[w].key
    BY <1>1 DEF Request, Points
  <2>2. req' = [req EXCEPT ![w] = r]
    BY <1>3 DEF OpenCartForCheckout, GoTo
  <2>3. req'[w] = r /\ (\A x \in Workers : x # w => req'[x] = req[x])
    BY <1>1, <2>2
  <2>4. req' \in [Workers -> Request]
    BY <1>1, <2>1, <2>2
  <2>5. RequestKnows(req[w])'
    BY <1>1, <1>3, <2>1, <2>3 DEF OpenCartForCheckout, Ready, RequestKnows, Placed
  <2>6. UNCHANGED <<quote, lapsed, due, Rows>> /\ cart' = Opened
    BY <1>3 DEF OpenCartForCheckout, Rows
  <2> QED BY <1>2, <2>1, <2>3, <2>4, <2>5, <2>6, MoveStep
<1>4. CASE ReadRows(w)
  <2>1. CASE cart.lines # {} /\ cart.lines \subseteq Sellable
    <3> DEFINE r == [req[w] EXCEPT !.at = "commit", !.rows = cart.lines]
    <3>1. /\ r \in Request /\ r.at = "commit" /\ r.key = req[w].key
          /\ r.todo = req[w].todo /\ r.rows = cart.lines
      BY <1>1, <1>2 DEF Request, Points
    <3>2. req' = [req EXCEPT ![w] = r] /\ UNCHANGED <<store, provider>>
      BY <1>1, <1>4, <2>1 DEF ReadRows
    <3>3. req'[w] = r /\ (\A x \in Workers : x # w => req'[x] = req[x])
      BY <1>1, <3>2
    <3>4. req' \in [Workers -> Request]
      BY <1>1, <3>1, <3>2
    <3>5. RequestKnows(req[w])'
      BY <1>1, <1>4, <2>1, <3>1, <3>2, <3>3 DEF ReadRows, RequestKnows, Placed
    <3>6. UNCHANGED <<quote, lapsed, due, Rows>> /\ cart' = cart
      BY <3>2 DEF Rows
    <3> QED BY <1>2, <3>1, <3>3, <3>4, <3>5, <3>6, MoveStep
  <2>2. CASE ~(cart.lines # {} /\ cart.lines \subseteq Sellable)
    <3>1. CartBecomes(w, Cleaned(cart))
      BY <1>4, <2>2 DEF ReadRows
    <3>2. Cleaned(cart) \in Carts /\ Cleaned(cart).state = cart.state
      BY <1>2 DEF Cleaned
    <3>3. quote \in [Quotes -> QuoteStates]
      BY <1>1 DEF TypeOK
    <3> QED BY <3>1, <3>2, <3>3, CartBecomesStep DEF CartBecomes, Rows
  <2> QED BY <2>1, <2>2
<1> QED BY <1>3, <1>4

-----------------------------------------------------------------------------
(* The end of an attempt, and the expiry loop.                             *)

\* _cancel_attempt, by a session that may have seen old rows.
LEMMA CancelEffect ==
    ASSUME IInv, NEW k \in Keys, NEW seen, NEW status \in {"cancelled", "failed"},
           attempt[k].status # "none", CancelAttempt(k, seen, status),
           UNCHANGED <<quote, lapsed, lines, due, promoted, work, outcome,
                       session, refunds>>
    PROVE  /\ req' \in [Workers -> Request] => TypeOK'
           /\ KeyInv(k)' /\ Grows(k) /\ \A l \in Keys : l # k => SameRows(l)
           /\ CartNotStuck'
<1>1. TypeOK /\ KeyInv(k)
  BY Split
<1> DEFINE row == OrderWritten(k, seen, "cancelled", status)
<1>2. "cancelled" \in OrderStates /\ status \in PaymentStates
  BY DEF OrderStates, PaymentStates
<1>3. row \in OrderRow /\ row.paid = order[k].paid /\ row.pay \in {order[k].pay, status}
  BY <1>1, <1>2, OrderWrittenRow
<1>4. /\ order' = [order EXCEPT ![k] = row]
      /\ attempt' = [attempt EXCEPT ![k].status = status]
      /\ reserved' = [reserved EXCEPT ![k] = {}]
      /\ cart' = [cart EXCEPT !.state = "active"]
      /\ history' = [history EXCEPT ![k] = @ \cup {"released"}]
  BY DEF CancelAttempt, Release
<1> HIDE DEF row
<1>5. /\ order'[k] = row /\ attempt'[k].status = status /\ reserved'[k] = {}
      /\ history'[k] = history[k] \cup {"released"}
  BY <1>1, <1>4 DEF TypeOK, AttemptRow
<1>6. ASSUME req' \in [Workers -> Request] PROVE TypeOK'
  <2>1. order' \in [Keys -> OrderRow]
    BY <1>1, <1>3, <1>4 DEF TypeOK
  <2>2. attempt' \in [Keys -> AttemptRow]
    BY <1>1, <1>2, <1>4 DEF TypeOK, AttemptRow
  <2>3. reserved' \in [Keys -> SUBSET Quotes] /\ history' \in [Keys -> SUBSET Actions]
    BY <1>1, <1>4 DEF TypeOK, Actions
  <2>4. cart' \in [state : CartStates, lines : SUBSET Quotes]
    BY <1>1, <1>4 DEF TypeOK, CartStates
  <2> QED BY <1>1, <1>6, <2>1, <2>2, <2>3, <2>4 DEF TypeOK
<1>7. KeyInv(k)'
  BY <1>1, <1>3, <1>5 DEF KeyInv, RowsAgree, NotPlaced, Settled
<1>8. Grows(k)
  BY <1>3, <1>5 DEF Grows
<1>9. ASSUME NEW l \in Keys, l # k PROVE SameRows(l)
  BY <1>1, <1>4, <1>9 DEF SameRows, TypeOK
<1>10. CartNotStuck'
  BY <1>1, <1>4 DEF CartNotStuck, TypeOK
<1> QED BY <1>6, <1>7, <1>8, <1>9, <1>10

LEMMA ExpireAttemptStep ==
    ASSUME IInv, NEW w \in Workers, NEW k \in Keys, ExpireAttempt(w, k)
    PROVE  IInv'
<1> USE DEF store, provider
<1>1. TypeOK /\ RequestKnows(req[w]) /\ req[w] \in Request /\ req \in [Workers -> Request]
  BY Split, RequestFields DEF TypeOK
<1>2. CancelAttempt(k, order[k], "cancelled") /\ attempt[k].status # "none"
  BY <1>1 DEF ExpireAttempt, RequestKnows
<1>3. UNCHANGED <<quote, lapsed, lines, due, promoted, work, outcome, session, refunds>>
  BY DEF ExpireAttempt
<1> DEFINE r == [req[w] EXCEPT !.todo = @ \ {k}]
<1>4. /\ r \in Request /\ r.at = req[w].at /\ r.key = req[w].key
      /\ r.todo \subseteq req[w].todo /\ r.todo \subseteq Keys
  BY <1>1 DEF Request
<1>5. req' = [req EXCEPT ![w] = r]
  BY DEF ExpireAttempt
<1>6. req'[w] = r /\ (\A x \in Workers : x # w => req'[x] = req[x])
  BY <1>1, <1>5
<1>7. req' \in [Workers -> Request]
  BY <1>1, <1>4, <1>5
<1>8. /\ TypeOK' /\ KeyInv(k)' /\ Grows(k) /\ CartNotStuck'
      /\ \A l \in Keys : l # k => SameRows(l)
  BY <1>2, <1>3, <1>7, CancelEffect
<1>9. \A l \in r.todo : attempt'[l].status # "none"
  BY <1>1, <1>4, <1>8, SameRowsGrow DEF RequestKnows, Grows
<1>10. RequestKnows(req[w])' /\ req'[w].at # "provider"
  BY <1>1, <1>4, <1>6, <1>9 DEF ExpireAttempt, RequestKnows, Placed
<1>11. OneOpener'
  BY <1>6, <1>10, Split, OpenerStep
<1> QED BY <1>3, <1>6, <1>8, <1>10, <1>11, RowStep

-----------------------------------------------------------------------------
(* Checkout.                                                               *)

\* A new order: only for a key that has none.
LEMMA PlaceOrderStep ==
    ASSUME IInv, NEW w \in Workers, NEW rows \in SUBSET Quotes,
           req[w].at \in {"checkout", "commit"}, PlaceOrder(w, rows)
    PROVE  IInv'
<1> USE DEF store, provider
<1>1. TypeOK /\ RequestKnows(req[w]) /\ req[w] \in Request /\ req \in [Workers -> Request]
  BY Split, RequestFields DEF TypeOK
<1>2. PICK k \in Keys : k = req[w].key /\ KeyInv(k)
  BY <1>1, Split DEF RequestKnows
<1>3. CASE attempt[k].status # "none"
  <2>1. UNCHANGED <<store, provider>> /\ Finish(w)
    BY <1>2, <1>3 DEF PlaceOrder
  <2>2. cart \in [state : CartStates, lines : SUBSET Quotes] /\ quote \in [Quotes -> QuoteStates]
    BY <1>1 DEF TypeOK
  <2> QED BY <2>1, <2>2, CartBecomesStep DEF Rows
<1>4. CASE attempt[k].status = "none"
  <2> DEFINE row == [state |-> "payment_pending", pay |-> "pending", paid |-> FALSE]
             r   == [req[w] EXCEPT !.at = "provider"]
  <2>1. /\ order' = [order EXCEPT ![k] = row]
        /\ attempt' = [attempt EXCEPT ![k].status = "pending"]
        /\ lines' = [lines EXCEPT ![k] = rows]
        /\ quote' = [q \in Quotes |-> IF q \in rows THEN "checked_out" ELSE quote[q]]
        /\ reserved' = [reserved EXCEPT ![k] = rows \cap CustomQuotes]
        /\ cart' = [cart EXCEPT !.state = "checkout_pending"]
        /\ UNCHANGED <<lapsed, due, promoted, work, history, outcome, session, refunds>>
    BY <1>2, <1>4 DEF PlaceOrder
  <2>2. req' = [req EXCEPT ![w] = r]
    BY <1>2, <1>4 DEF PlaceOrder, GoTo
  <2>3. r \in Request /\ r.at = "provider" /\ r.key = k /\ r.todo = req[w].todo
    BY <1>1, <1>2 DEF Request, Points
  <2> HIDE DEF r
  <2>4. req'[w] = r /\ (\A x \in Workers : x # w => req'[x] = req[x])
    BY <1>1, <2>2
  <2>5. /\ order'[k] = row /\ attempt'[k].status = "pending" /\ lines'[k] = rows
        /\ reserved'[k] = rows \cap CustomQuotes
    BY <1>1, <1>2, <2>1 DEF TypeOK, AttemptRow
  <2>6. row \in OrderRow
    BY DEF OrderRow, OrderStates, PaymentStates
  <2>7. TypeOK'
    <3>1. order' \in [Keys -> OrderRow] /\ attempt' \in [Keys -> AttemptRow]
      BY <1>1, <2>1, <2>6 DEF TypeOK, AttemptRow, PaymentStates
    <3>2. /\ lines' \in [Keys -> SUBSET Quotes] /\ reserved' \in [Keys -> SUBSET Quotes]
          /\ quote' \in [Quotes -> QuoteStates]
      BY <1>1, <2>1 DEF TypeOK, QuoteStates
    <3>3. cart' \in [state : CartStates, lines : SUBSET Quotes]
      BY <1>1, <2>1 DEF TypeOK, CartStates
    <3>4. req' \in [Workers -> Request]
      BY <1>1, <2>2, <2>3
    <3> QED BY <1>1, <2>1, <3>1, <3>2, <3>3, <3>4 DEF TypeOK
  <2>8. NotPlaced(k) /\ order[k].paid = FALSE
    BY <1>2, <1>4 DEF KeyInv, RowsAgree, NotPlaced, NoOrder
  <2>9. KeyInv(k)'
    <3>1. order'[k].paid = FALSE /\ order'[k].pay = "pending" /\ work'[k] = {}
      BY <1>2, <2>1, <2>5, <2>8 DEF KeyInv
    <3>2. k \notin refunds' /\ promoted'[k] = {}
      BY <1>2, <2>1, <2>8 DEF KeyInv, NotPlaced
    <3>3. outcome'[k]["success"] # "none" => "manual_review_required" \in history'[k]
      BY <1>2, <2>1, <2>8 DEF KeyInv
    <3> QED BY <2>5, <3>1, <3>2, <3>3 DEF KeyInv, RowsAgree, Settled
  <2>10. Grows(k)
    BY <1>4, <2>1, <2>5, <2>8 DEF Grows, NotPlaced, NoOrder
  <2>11. ASSUME NEW l \in Keys, l # k PROVE SameRows(l)
    BY <1>1, <2>1, <2>11 DEF SameRows, TypeOK
  <2>12. CartNotStuck'
    BY <1>2, <2>5 DEF CartNotStuck
  <2>13. RequestKnows(req[w])'
    <3>1. session'[k] = "none"
      BY <2>1, <2>8 DEF NotPlaced
    <3>2. \A l \in r.todo : attempt'[l].status # "none"
      BY <1>1, <2>3, <2>10, <2>11, SameRowsGrow DEF RequestKnows, Grows, Request
    <3> QED BY <1>2, <2>3, <2>4, <2>5, <3>1, <3>2 DEF RequestKnows, Placed
  <2>14. OneOpener'
    <3>1. ASSUME NEW x \in Workers, x # w, req[x].at = "provider" PROVE req[x].key # k
      <4>1. attempt[req[x].key].status # "none"
        BY <3>1, Split DEF RequestKnows, Placed, Points
      <4> QED BY <1>4, <4>1
    <3> QED BY <2>3, <2>4, <3>1, Split DEF OneOpener
  <2> QED BY <1>2, <2>1, <2>4, <2>7, <2>9, <2>10, <2>11, <2>12, <2>13, <2>14, RowStep
<1> QED BY <1>3, <1>4

LEMMA CheckOutStep ==
    ASSUME IInv, NEW w \in Workers, CheckOutLockedCart(w) \/ CheckOutUnlockedCart(w)
    PROVE  IInv'
<1>1. TypeOK
  BY Split
<1>2. cart \in [state : CartStates, lines : SUBSET Quotes] /\ req[w].rows \subseteq Quotes
  BY <1>1, RequestFields DEF TypeOK
<1>3. CASE CheckOutUnlockedCart(w)
  BY <1>2, <1>3, PlaceOrderStep DEF CheckOutUnlockedCart
<1>4. CASE CheckOutLockedCart(w)
  <2>1. CASE PlaceOrder(w, cart.lines)
    BY <1>2, <1>4, <2>1, PlaceOrderStep DEF CheckOutLockedCart, Ready
  <2>2. ASSUME NEW c \in {cart, Cleaned(cart)}, CartBecomes(w, c) PROVE IInv'
    <3>1. c \in [state : CartStates, lines : SUBSET Quotes] /\ c.state = cart.state
      BY <1>2 DEF Cleaned
    <3>2. quote \in [Quotes -> QuoteStates]
      BY <1>1 DEF TypeOK
    <3> QED BY <2>2, <3>1, <3>2, CartBecomesStep DEF CartBecomes, Rows, provider
  <2> QED BY <1>4, <2>1, <2>2 DEF CheckOutLockedCart
<1> QED BY <1>3, <1>4

LEMMA OpenSessionStep ==
    ASSUME IInv, NEW w \in Workers, OpenSession(w) PROVE IInv'
<1> USE DEF store, provider
<1>1. TypeOK /\ RequestKnows(req[w]) /\ req[w] \in Request /\ req \in [Workers -> Request]
  BY Split, RequestFields DEF TypeOK
<1>2. PICK k \in Keys : k = req[w].key /\ KeyInv(k)
  BY <1>1, Split DEF OpenSession, RequestKnows
<1>3. attempt[k].status # "none" /\ session[k] = "none"
  BY <1>1, <1>2 DEF OpenSession, RequestKnows, Placed, Points
<1> DEFINE r == [req[w] EXCEPT !.at = "store"]
<1>4. r \in Request /\ r.at = "store" /\ r.key = k /\ r.todo = req[w].todo
  BY <1>1, <1>2 DEF Request, Points
<1>5. req' = [req EXCEPT ![w] = r] /\ session' = [session EXCEPT ![k] = "open"]
  BY <1>2 DEF OpenSession, GoTo
<1>6. UNCHANGED <<cart, quote, lapsed, order, lines, attempt, due, reserved,
                  promoted, work, history, outcome, refunds>>
  BY DEF OpenSession
<1> HIDE DEF r
<1>7. req'[w] = r /\ (\A x \in Workers : x # w => req'[x] = req[x]) /\ session'[k] = "open"
  BY <1>1, <1>5 DEF TypeOK
<1>8. TypeOK'
  BY <1>1, <1>4, <1>5, <1>6 DEF TypeOK
<1>9. KeyInv(k)'
  BY <1>2, <1>3, <1>6 DEF KeyInv, RowsAgree
<1>10. Grows(k)
  BY <1>3, <1>6 DEF Grows
<1>11. ASSUME NEW l \in Keys, l # k PROVE SameRows(l)
  BY <1>1, <1>5, <1>6, <1>11 DEF SameRows, TypeOK
<1>12. RequestKnows(req[w])'
  BY <1>1, <1>3, <1>4, <1>6, <1>7 DEF RequestKnows, Placed
<1>13. OneOpener'
  BY <1>4, <1>7, Split, OpenerStep
<1>14. CartNotStuck'
  BY <1>6, Split, CartStep
<1>15. ASSUME NEW x \in Workers, x # w PROVE ~(req[x].at = "provider" /\ req[x].key = k)
  BY <1>2, <1>15, Split DEF OneOpener, OpenSession
<1> QED BY <1>7, <1>8, <1>9, <1>10, <1>11, <1>12, <1>13, <1>14, <1>15, RowStep

LEMMA ProviderFailsStep ==
    ASSUME IInv, NEW w \in Workers, ProviderFails(w) PROVE IInv'
<1> USE DEF store, provider
<1>1. TypeOK /\ RequestKnows(req[w]) /\ req[w] \in Request /\ req \in [Workers -> Request]
  BY Split, RequestFields DEF TypeOK
<1>2. PICK k \in Keys : k = req[w].key
  BY <1>1 DEF ProviderFails, RequestKnows
<1>3. attempt[k].status # "none"
  BY <1>1, <1>2 DEF ProviderFails, RequestKnows, Placed, Points
<1> DEFINE seen == [NoOrder EXCEPT !.state = "payment_pending", !.pay = "pending"]
<1>4. CancelAttempt(k, seen, "cancelled") /\ Finish(w)
  BY <1>2 DEF ProviderFails
<1>5. UNCHANGED <<quote, lapsed, lines, due, promoted, work, outcome, session, refunds>>
  BY DEF ProviderFails
<1> HIDE DEF seen
<1>6. /\ req'[w] = Idle /\ (\A x \in Workers : x # w => req'[x] = req[x])
      /\ req' \in [Workers -> Request]
  BY <1>1, <1>4, IdleIsRequest DEF Finish
<1>7. /\ TypeOK' /\ KeyInv(k)' /\ Grows(k) /\ CartNotStuck'
      /\ \A l \in Keys : l # k => SameRows(l)
  BY <1>3, <1>4, <1>5, <1>6, CancelEffect
<1>8. RequestKnows(req[w])' /\ req'[w].at # "provider"
  BY <1>6, IdleIsRequest DEF RequestKnows, Placed
<1>9. OneOpener'
  BY <1>6, <1>8, Split, OpenerStep
<1> QED BY <1>5, <1>6, <1>7, <1>8, <1>9, RowStep

LEMMA StoreSessionStep ==
    ASSUME IInv, NEW w \in Workers, StoreSession(w) PROVE IInv'
<1> USE DEF store, provider
<1>1. TypeOK /\ RequestKnows(req[w]) /\ req[w] \in Request /\ req \in [Workers -> Request]
  BY Split, RequestFields DEF TypeOK
<1>2. PICK k \in Keys : k = req[w].key /\ KeyInv(k)
  BY <1>1, Split DEF StoreSession, RequestKnows
<1>3. attempt' = [attempt EXCEPT ![k].url = TRUE] /\ Finish(w)
  BY <1>2 DEF StoreSession
<1>4. UNCHANGED <<cart, quote, lapsed, order, lines, due, reserved, promoted,
                  work, history, outcome, session, refunds>>
  BY DEF StoreSession
<1>5. /\ req'[w] = Idle /\ (\A x \in Workers : x # w => req'[x] = req[x])
      /\ req' \in [Workers -> Request]
  BY <1>1, <1>3, IdleIsRequest DEF Finish
<1>6. \A l \in Keys : attempt'[l].status = attempt[l].status
  BY <1>1, <1>3 DEF TypeOK, AttemptRow
<1>7. TypeOK'
  BY <1>1, <1>3, <1>4, <1>5 DEF TypeOK, AttemptRow
<1>8. KeyInv(k)'
  BY <1>2, <1>4, <1>6 DEF KeyInv, RowsAgree, NotPlaced
<1>9. Grows(k)
  BY <1>4, <1>6 DEF Grows
<1>10. ASSUME NEW l \in Keys, l # k PROVE SameRows(l)
  BY <1>1, <1>3, <1>4, <1>10 DEF SameRows, TypeOK
<1>11. RequestKnows(req[w])' /\ req'[w].at # "provider"
  BY <1>5, IdleIsRequest DEF RequestKnows, Placed
<1>12. OneOpener'
  BY <1>5, <1>11, Split, OpenerStep
<1>13. CartNotStuck'
  BY <1>4, <1>6, Split, CartStep
<1> QED BY <1>4, <1>5, <1>7, <1>8, <1>9, <1>10, <1>11, <1>12, <1>13, RowStep

LEMMA ProviderStep ==
    ASSUME IInv, NEW k \in Keys, Charge(k) \/ RefundAtProvider(k) PROVE IInv'
<1> USE DEF store, provider
<1>1. TypeOK /\ KeyInv(k)
  BY Split
<1>2. UNCHANGED <<cart, quote, lapsed, order, lines, attempt, due, reserved,
                  promoted, work, history, outcome, req>>
  BY DEF Charge, RefundAtProvider
<1>3. \/ session[k] = "open" /\ session' = [session EXCEPT ![k] = "paid"] /\ refunds' = refunds
      \/ session[k] = "paid" /\ session' = session /\ refunds' = refunds \cup {k}
  BY DEF Charge, RefundAtProvider
<1>4. TypeOK'
  BY <1>1, <1>2, <1>3 DEF TypeOK
<1>5. session'[k] = "paid" /\ session[k] # "none"
  BY <1>1, <1>3 DEF TypeOK
<1>6. KeyInv(k)'
  BY <1>1, <1>2, <1>3, <1>5 DEF KeyInv, RowsAgree, NotPlaced
<1>7. Grows(k)
  BY <1>2, <1>3, <1>5 DEF Grows
<1>8. ASSUME NEW l \in Keys, l # k PROVE SameRows(l)
  BY <1>1, <1>2, <1>3, <1>8 DEF SameRows, TypeOK
<1>9. ASSUME NEW x \in Workers PROVE ~(req[x].at = "provider" /\ req[x].key = k)
  BY <1>5, Split DEF RequestKnows
<1>10. OneOpener'
  BY <1>2, Split, OpenerStep
<1>11. CartNotStuck'
  BY <1>2, Split, CartStep
<1> QED BY <1>2, <1>4, <1>6, <1>7, <1>8, <1>9, <1>10, <1>11, RowStep

-----------------------------------------------------------------------------
(* Webhooks.                                                               *)

LEMMA DeliverStep ==
    ASSUME IInv, NEW w \in Workers, NEW k \in Keys, NEW e \in Kinds, Deliver(w, k, e)
    PROVE  IInv'
<1> USE DEF store, provider
<1>1. TypeOK /\ KeyInv(k) /\ req \in [Workers -> Request] /\ e \in EventKinds
  BY Split, CommerceAssumption DEF TypeOK
<1> DEFINE seen == IF e \in SuccessEvents THEN Promotable(k) ELSE {}
           r    == [Idle EXCEPT !.at = "apply", !.key = k, !.event = e, !.rows = seen,
                                !.ord = order[k], !.att = attempt[k].status]
<1>2. /\ seen \subseteq Quotes /\ order[k] \in OrderRow
      /\ attempt[k].status \in PaymentStates
  BY <1>1 DEF TypeOK, Promotable, AttemptRow
<1>3. /\ r \in Request /\ r.at = "apply" /\ r.key = k /\ r.event = e /\ r.rows = seen
      /\ r.ord = order[k] /\ r.att = attempt[k].status /\ r.todo = {}
  BY <1>1, <1>2 DEF Request, Idle, Points, Outcomes
<1>4. req' = [req EXCEPT ![w] = r] /\ UNCHANGED <<store, provider>>
  BY DEF Deliver
<1> HIDE DEF r
<1>5. /\ req'[w] = r /\ (\A x \in Workers : x # w => req'[x] = req[x])
      /\ req' \in [Workers -> Request]
  BY <1>1, <1>3, <1>4
<1>6. /\ e = "success" => session[k] = "paid"
      /\ e = "refund" => k \in refunds
      /\ session[k] # "none"
  BY <1>1 DEF Deliver, Emitted, EventKinds, KeyInv
<1>7. attempt[k].status # "none"
  BY <1>1, <1>6 DEF KeyInv, RowsAgree, NotPlaced
<1>8. e = "success" => seen = reserved[k]
  BY DEF SuccessEvents, Promotable
<1> HIDE DEF seen
<1>9. RequestKnows(req[w])' /\ req'[w].at # "provider"
  BY <1>1, <1>3, <1>4, <1>5, <1>6, <1>7, <1>8
     DEF RequestKnows, ApplyKnows, Placed, KeyInv, RowsAgree
<1>10. UNCHANGED <<quote, lapsed, due, Rows, cart>>
  BY <1>4 DEF Rows
<1>11. cart \in [state : CartStates, lines : SUBSET Quotes]
  BY <1>1 DEF TypeOK
<1> QED BY <1>5, <1>9, <1>10, <1>11, MoveStep

\* What is known of an event that is about to be applied.
LEMMA ApplyFacts ==
    ASSUME IInv, NEW w \in Workers, req[w].at = "apply"
    PROVE  /\ req[w].key \in Keys /\ KeyInv(req[w].key)
           /\ attempt[req[w].key].status # "none"
           /\ ApplyKnows(req[w]) /\ req[w].event \in EventKinds
           /\ TypeOK /\ req[w] \in Request /\ req \in [Workers -> Request]
<1>1. TypeOK /\ RequestKnows(req[w])
  BY Split
<1>2. req[w].key \in Keys
  BY <1>1 DEF RequestKnows
<1> QED BY <1>1, <1>2, Split, RequestFields DEF RequestKnows, Placed, Points, TypeOK

\* The request turns to the record of the event.
LEMMA AppliedRequest ==
    ASSUME TypeOK, NEW w \in Workers, NEW result \in Outcomes, Applied(w, result),
           req[w].key \in Keys
    PROVE  /\ req' \in [Workers -> Request]
           /\ \A x \in Workers : x # w => req'[x] = req[x]
           /\ req'[w].at = "record" /\ req'[w].key = req[w].key
           /\ req'[w].event = req[w].event /\ req'[w].goal = result
           /\ req'[w].todo = {}
<1> DEFINE r == [Idle EXCEPT !.at = "record", !.goal = result,
                             !.key = req[w].key, !.event = req[w].event]
<1>1. r \in Request /\ r.at = "record" /\ r.key = req[w].key
      /\ r.event = req[w].event /\ r.goal = result /\ r.todo = {}
  BY RequestFields DEF Request, Idle, Points, OrderRow, NoOrder, OrderStates, PaymentStates
<1>2. req' = [req EXCEPT ![w] = r] /\ req \in [Workers -> Request]
  BY DEF Applied, TypeOK
<1> HIDE DEF r
<1> QED BY <1>1, <1>2

\* The record of a success needs a paid order or a review.
LEMMA RecordKnows ==
    ASSUME NEW w \in Workers, NEW k \in Keys,
           req'[w].at = "record", req'[w].key = k, req'[w].todo = {},
           req'[w].goal \in Outcomes, req'[w].event \in EventKinds,
           attempt'[k].status # "none",
           req'[w].event = "success" =>
               order'[k].paid \/ "manual_review_required" \in history'[k]
    PROVE  RequestKnows(req[w])' /\ req'[w].at # "provider"
BY DEF RequestKnows, Placed

LEMMA IgnoreEventStep ==
    ASSUME IInv, NEW w \in Workers, IgnoreEvent(w) PROVE IInv'
<1> USE DEF store, provider
<1>1. req[w].at = "apply" /\ (req[w].event = "success" => req[w].att \in Settled)
  BY DEF IgnoreEvent, Applying
<1>2. PICK k \in Keys : k = req[w].key
  BY <1>1, ApplyFacts
<1>3. "out_of_order_ignored" \in Outcomes
  BY DEF Outcomes
<1>4. /\ req' \in [Workers -> Request] /\ (\A x \in Workers : x # w => req'[x] = req[x])
      /\ req'[w].at = "record" /\ req'[w].key = k /\ req'[w].event = req[w].event
      /\ req'[w].goal \in Outcomes /\ req'[w].todo = {}
  BY <1>1, <1>2, <1>3, ApplyFacts, AppliedRequest DEF IgnoreEvent
<1>5. UNCHANGED <<quote, lapsed, due, Rows, cart>>
  BY DEF IgnoreEvent, Rows
<1>6. RequestKnows(req[w])' /\ req'[w].at # "provider"
  BY <1>1, <1>2, <1>4, <1>5, ApplyFacts, RecordKnows DEF ApplyKnows, Rows
<1>7. cart \in [state : CartStates, lines : SUBSET Quotes]
  BY Split DEF TypeOK
<1> QED BY <1>4, <1>5, <1>6, <1>7, MoveStep

LEMMA ApplyPaymentStep ==
    ASSUME IInv, NEW w \in Workers, ApplyPayment(w) PROVE IInv'
<1> USE DEF store, provider
<1>1. req[w].at = "apply" /\ req[w].event = "success"
  BY DEF ApplyPayment, Applying, SuccessEvents
<1>2. PICK k \in Keys : k = req[w].key /\ KeyInv(k)
  BY <1>1, ApplyFacts
<1>3. /\ TypeOK /\ req \in [Workers -> Request] /\ req[w] \in Request
      /\ attempt[k].status # "none"
      /\ session[k] = "paid" /\ req[w].rows \subseteq lines[k] \cap CustomQuotes
      /\ \/ req[w].rows = lines[k] \cap CustomQuotes
         \/ order[k].paid
         \/ "released" \in history[k]
  BY <1>1, <1>2, ApplyFacts DEF ApplyKnows
<1>4. UNCHANGED <<session, refunds>>
  BY DEF ApplyPayment
<1>5. PICK images \in {req[w].rows, reserved[k]} :
         IF images \cap promoted[k] # {}
         THEN Finish(w) /\ UNCHANGED store
         ELSE /\ order' = [order EXCEPT ![k] =
                    [OrderWritten(k, req[w].ord, "paid", "paid") EXCEPT !.paid = TRUE]]
              /\ attempt' = [attempt EXCEPT ![k].status = "paid"]
              /\ promoted' = [promoted EXCEPT ![k] = @ \cup images]
              /\ work' = [work EXCEPT ![k] = @ \cup lines[k]]
              /\ Release(k, "closed")
              /\ Applied(w, "paid")
              /\ UNCHANGED <<quote, lapsed, lines, due, history, outcome>>
  BY <1>2 DEF ApplyPayment, Promotable, Planned
<1>6. CASE images \cap promoted[k] # {}
  <2>1. Finish(w) /\ UNCHANGED <<store, provider>>
    BY <1>4, <1>5, <1>6
  <2>2. cart \in [state : CartStates, lines : SUBSET Quotes] /\ quote \in [Quotes -> QuoteStates]
    BY <1>3 DEF TypeOK
  <2> QED BY <2>1, <2>2, CartBecomesStep DEF Rows
<1>7. CASE images \cap promoted[k] = {}
  <2> DEFINE old == OrderWritten(k, req[w].ord, "paid", "paid")
             row == [old EXCEPT !.paid = TRUE]
  <2>1. old \in OrderRow
    <3>1. "paid" \in OrderStates /\ "paid" \in PaymentStates
      BY DEF OrderStates, PaymentStates
    <3> QED BY <3>1, <1>3, OrderWrittenRow
  <2>2. row \in OrderRow /\ row.paid = TRUE
    BY <2>1 DEF OrderRow
  <2>3. /\ order' = [order EXCEPT ![k] = row]
        /\ attempt' = [attempt EXCEPT ![k].status = "paid"]
        /\ promoted' = [promoted EXCEPT ![k] = @ \cup images]
        /\ work' = [work EXCEPT ![k] = @ \cup lines[k]]
        /\ reserved' = [reserved EXCEPT ![k] = {}]
        /\ cart' = [cart EXCEPT !.state = "closed"]
        /\ UNCHANGED <<quote, lapsed, lines, due, history, outcome>>
        /\ Applied(w, "paid")
    BY <1>5, <1>7 DEF Release
  <2> HIDE DEF row
  <2>4. /\ order'[k] = row /\ attempt'[k].status = "paid" /\ reserved'[k] = {}
        /\ promoted'[k] = promoted[k] \cup images /\ work'[k] = work[k] \cup lines[k]
    BY <1>3, <2>3 DEF TypeOK, AttemptRow
  <2>5. "paid" \in Outcomes
    BY DEF Outcomes
  <2>6. /\ req' \in [Workers -> Request] /\ (\A x \in Workers : x # w => req'[x] = req[x])
        /\ req'[w].at = "record" /\ req'[w].key = k /\ req'[w].event = "success"
        /\ req'[w].goal \in Outcomes /\ req'[w].todo = {}
    BY <1>1, <1>2, <1>3, <2>3, <2>5, AppliedRequest
  <2>7. images \subseteq lines[k] \cap CustomQuotes
    BY <1>2, <1>3, <1>5 DEF KeyInv, RowsAgree
  <2>8. TypeOK'
    <3>1. order' \in [Keys -> OrderRow] /\ attempt' \in [Keys -> AttemptRow]
      BY <1>3, <2>2, <2>3 DEF TypeOK, AttemptRow, PaymentStates
    <3>2. lines[k] \subseteq Quotes
      BY <1>3 DEF TypeOK
    <3>3. /\ promoted' \in [Keys -> SUBSET Quotes] /\ work' \in [Keys -> SUBSET Quotes]
          /\ reserved' \in [Keys -> SUBSET Quotes]
      BY <1>3, <2>3, <2>7, <3>2 DEF TypeOK
    <3>4. cart' \in [state : CartStates, lines : SUBSET Quotes]
      BY <1>3, <2>3 DEF TypeOK, CartStates
    <3> QED BY <1>3, <1>4, <2>3, <2>6, <3>1, <3>3, <3>4 DEF TypeOK
  <2>9. KeyInv(k)'
    <3>1. work'[k] = lines[k]
      BY <1>2, <2>4 DEF KeyInv
    <3>2. "released" \notin history[k] => promoted'[k] = lines[k] \cap CustomQuotes
      BY <1>2, <1>3, <1>5, <2>4, <2>7 DEF KeyInv, RowsAgree
    <3>3. promoted'[k] \subseteq lines[k] \cap CustomQuotes
      BY <1>2, <2>4, <2>7 DEF KeyInv, RowsAgree
    <3> QED BY <1>2, <1>3, <1>4, <2>2, <2>3, <2>4, <3>1, <3>2, <3>3
            DEF KeyInv, RowsAgree, NotPlaced
  <2>10. Grows(k)
    BY <1>4, <2>2, <2>3, <2>4 DEF Grows
  <2>11. ASSUME NEW l \in Keys, l # k PROVE SameRows(l)
    BY <1>3, <1>4, <2>3, <2>11 DEF SameRows, TypeOK
  <2>12. RequestKnows(req[w])' /\ req'[w].at # "provider"
    BY <1>1, <1>3, <2>2, <2>4, <2>6, ApplyFacts, RecordKnows
  <2>13. OneOpener'
    BY <2>6, <2>12, Split, OpenerStep
  <2>14. CartNotStuck'
    BY <1>3, <2>3 DEF CartNotStuck, TypeOK
  <2> QED BY <1>4, <2>6, <2>8, <2>9, <2>10, <2>11, <2>12, <2>13, <2>14, RowStep
<1> QED BY <1>6, <1>7

\* A status column written by a session that may have seen an old value.
LEMMA WrittenStatus ==
    ASSUME TypeOK, NEW k \in Keys, NEW seen, NEW status \in PaymentStates \ {"none"},
           attempt[k].status # "none",
           attempt' = [attempt EXCEPT ![k].status = Written(@, seen, status)]
    PROVE  /\ attempt' \in [Keys -> AttemptRow]
           /\ attempt'[k].status \in {attempt[k].status, status}
           /\ attempt'[k].status # "none"
           /\ \A l \in Keys : l # k => attempt'[l] = attempt[l]
BY DEF TypeOK, AttemptRow, Written

LEMMA ReviewPaymentStep ==
    ASSUME IInv, NEW w \in Workers, ReviewPayment(w) PROVE IInv'
<1> USE DEF store, provider
<1>1. req[w].at = "apply"
  BY DEF ReviewPayment, NeedsReview, Applying
<1>2. PICK k \in Keys : k = req[w].key /\ KeyInv(k)
  BY <1>1, ApplyFacts
<1>3. TypeOK /\ attempt[k].status # "none" /\ req[w].event \in EventKinds
  BY <1>1, <1>2, ApplyFacts
<1> DEFINE row == OrderWritten(k, req[w].ord, "manual_review_required", "manual_review")
<1>4. /\ "manual_review_required" \in OrderStates /\ "manual_review" \in PaymentStates \ {"none"}
      /\ "manual_review" \in Outcomes /\ "manual_review_required" \in Actions
  BY DEF OrderStates, PaymentStates, Outcomes, Actions
<1>5. /\ row \in OrderRow /\ row.paid = order[k].paid
      /\ row.pay \in {order[k].pay, "manual_review"}
  BY <1>3, <1>4, OrderWrittenRow
<1>6. /\ order' = [order EXCEPT ![k] = row]
      /\ attempt' = [attempt EXCEPT ![k].status = Written(@, req[w].att, "manual_review")]
      /\ history' = [history EXCEPT ![k] = @ \cup {"manual_review_required"}]
      /\ Applied(w, "manual_review")
      /\ UNCHANGED <<cart, quote, lapsed, lines, due, reserved, promoted, work,
                     outcome, session, refunds>>
  BY <1>2 DEF ReviewPayment
<1> HIDE DEF row
<1>7. /\ attempt' \in [Keys -> AttemptRow]
      /\ attempt'[k].status \in {attempt[k].status, "manual_review"}
      /\ attempt'[k].status # "none"
      /\ \A l \in Keys : l # k => attempt'[l] = attempt[l]
  BY <1>3, <1>4, <1>6, WrittenStatus
<1>8. order'[k] = row /\ history'[k] = history[k] \cup {"manual_review_required"}
  BY <1>3, <1>6 DEF TypeOK
<1>9. /\ req' \in [Workers -> Request] /\ (\A x \in Workers : x # w => req'[x] = req[x])
      /\ req'[w].at = "record" /\ req'[w].key = k /\ req'[w].event = req[w].event
      /\ req'[w].goal \in Outcomes /\ req'[w].todo = {}
  BY <1>2, <1>3, <1>4, <1>6, AppliedRequest
<1>10. TypeOK'
  BY <1>3, <1>4, <1>5, <1>6, <1>7, <1>9 DEF TypeOK
<1>11. KeyInv(k)'
  BY <1>2, <1>3, <1>5, <1>6, <1>7, <1>8 DEF KeyInv, RowsAgree, NotPlaced, Settled
<1>12. Grows(k)
  BY <1>5, <1>6, <1>7, <1>8 DEF Grows
<1>13. ASSUME NEW l \in Keys, l # k PROVE SameRows(l)
  BY <1>3, <1>6, <1>7, <1>13 DEF SameRows, TypeOK
<1>14. RequestKnows(req[w])' /\ req'[w].at # "provider"
  BY <1>3, <1>7, <1>8, <1>9, RecordKnows
<1>15. OneOpener'
  BY <1>9, <1>14, Split, OpenerStep
<1>16. CartNotStuck'
  BY <1>5, <1>6, <1>7, <1>8, <1>13, Split, CartStep DEF SameRows
<1> QED BY <1>6, <1>9, <1>10, <1>11, <1>12, <1>13, <1>14, <1>15, <1>16, RowStep

LEMMA ApplyCancellationStep ==
    ASSUME IInv, NEW w \in Workers, ApplyCancellation(w) PROVE IInv'
<1> USE DEF store, provider
<1>1. req[w].at = "apply" /\ req[w].event # "success"
  BY DEF ApplyCancellation, Applying
<1>2. PICK k \in Keys : k = req[w].key
  BY <1>1, ApplyFacts
<1>3. TypeOK /\ attempt[k].status # "none" /\ req[w].event \in EventKinds
  BY <1>1, <1>2, ApplyFacts
<1>4. PICK status \in {"cancelled", "failed"} :
         /\ \/ /\ CancelAttempt(k, req[w].ord, status)
               /\ UNCHANGED <<quote, lapsed, lines, due, promoted, work, outcome>>
            \/ UNCHANGED store
         /\ Applied(w, status)
         /\ UNCHANGED provider
  BY <1>2 DEF ApplyCancellation
<1>5. status \in Outcomes
  BY DEF Outcomes
<1>6. /\ req' \in [Workers -> Request] /\ (\A x \in Workers : x # w => req'[x] = req[x])
      /\ req'[w].at = "record" /\ req'[w].key = k /\ req'[w].event = req[w].event
      /\ req'[w].goal \in Outcomes /\ req'[w].todo = {}
  BY <1>2, <1>3, <1>4, <1>5, AppliedRequest
<1>7. CASE CancelAttempt(k, req[w].ord, status)
           /\ UNCHANGED <<quote, lapsed, lines, due, promoted, work, outcome>>
  <2>1. /\ TypeOK' /\ KeyInv(k)' /\ Grows(k) /\ CartNotStuck'
        /\ \A l \in Keys : l # k => SameRows(l)
    BY <1>3, <1>4, <1>6, <1>7, CancelEffect
  <2>2. RequestKnows(req[w])' /\ req'[w].at # "provider"
    BY <1>1, <1>3, <1>6, <2>1, RecordKnows DEF Grows
  <2>3. OneOpener'
    BY <1>6, <2>2, Split, OpenerStep
  <2> QED BY <1>4, <1>6, <2>1, <2>2, <2>3, RowStep
<1>8. CASE UNCHANGED store
  <2>1. RequestKnows(req[w])' /\ req'[w].at # "provider"
    BY <1>1, <1>3, <1>6, <1>8, RecordKnows
  <2>2. cart \in [state : CartStates, lines : SUBSET Quotes]
    BY <1>3 DEF TypeOK
  <2> QED BY <1>4, <1>6, <1>8, <2>1, <2>2, MoveStep DEF Rows
<1> QED BY <1>4, <1>7, <1>8

LEMMA ApplyRefundStep ==
    ASSUME IInv, NEW w \in Workers, ApplyRefund(w) PROVE IInv'
<1> USE DEF store, provider
<1>1. req[w].at = "apply" /\ req[w].event = "refund" /\ req[w].ord.pay = "refund_pending"
  BY DEF ApplyRefund, Applying
<1>2. PICK k \in Keys : k = req[w].key /\ KeyInv(k)
  BY <1>1, ApplyFacts
<1>3. /\ TypeOK /\ attempt[k].status # "none" /\ req[w].event \in EventKinds
      /\ order[k].paid /\ k \in refunds
  BY <1>1, <1>2, ApplyFacts DEF ApplyKnows
<1> DEFINE row == OrderWritten(k, req[w].ord, "refunded", "refunded")
<1>4. /\ "refunded" \in OrderStates /\ "refunded" \in PaymentStates \ {"none"}
      /\ "refunded" \in Outcomes
  BY DEF OrderStates, PaymentStates, Outcomes
<1>5. /\ row \in OrderRow /\ row.paid = order[k].paid
      /\ row.pay \in {order[k].pay, "refunded"}
  BY <1>3, <1>4, OrderWrittenRow
<1>6. /\ order' = [order EXCEPT ![k] = row]
      /\ attempt' = [attempt EXCEPT ![k].status = Written(@, req[w].att, "refunded")]
      /\ Applied(w, "refunded")
      /\ UNCHANGED <<cart, quote, lapsed, lines, due, reserved, promoted, work,
                     history, outcome, session, refunds>>
  BY <1>2 DEF ApplyRefund
<1> HIDE DEF row
<1>7. /\ attempt' \in [Keys -> AttemptRow]
      /\ attempt'[k].status \in {attempt[k].status, "refunded"}
      /\ attempt'[k].status # "none"
      /\ \A l \in Keys : l # k => attempt'[l] = attempt[l]
  BY <1>3, <1>4, <1>6, WrittenStatus
<1>8. order'[k] = row
  BY <1>3, <1>6 DEF TypeOK
<1>9. /\ req' \in [Workers -> Request] /\ (\A x \in Workers : x # w => req'[x] = req[x])
      /\ req'[w].at = "record" /\ req'[w].key = k /\ req'[w].event = req[w].event
      /\ req'[w].goal \in Outcomes /\ req'[w].todo = {}
  BY <1>2, <1>3, <1>4, <1>6, AppliedRequest
<1>10. TypeOK'
  BY <1>3, <1>5, <1>6, <1>7, <1>9 DEF TypeOK
<1>11. KeyInv(k)'
  BY <1>2, <1>3, <1>5, <1>6, <1>7, <1>8 DEF KeyInv, RowsAgree, NotPlaced, Settled
<1>12. Grows(k)
  BY <1>5, <1>6, <1>7, <1>8 DEF Grows
<1>13. ASSUME NEW l \in Keys, l # k PROVE SameRows(l)
  BY <1>3, <1>6, <1>7, <1>13 DEF SameRows, TypeOK
<1>14. RequestKnows(req[w])' /\ req'[w].at # "provider"
  BY <1>1, <1>3, <1>7, <1>9, RecordKnows
<1>15. OneOpener'
  BY <1>9, <1>14, Split, OpenerStep
<1>16. CartNotStuck'
  BY <1>3, <1>6, <1>13, Split, CartStep DEF SameRows
<1> QED BY <1>6, <1>9, <1>10, <1>11, <1>12, <1>13, <1>14, <1>15, <1>16, RowStep

LEMMA RecordEventStep ==
    ASSUME IInv, NEW w \in Workers, RecordEvent(w) PROVE IInv'
<1> USE DEF store, provider
<1>1. TypeOK /\ RequestKnows(req[w]) /\ req[w] \in Request /\ req \in [Workers -> Request]
  BY Split, RequestFields DEF TypeOK
<1>2. PICK k \in Keys : k = req[w].key /\ KeyInv(k)
  BY <1>1, Split DEF RecordEvent, RequestKnows
<1>3. PICK e \in EventKinds : e = req[w].event
  BY <1>1 DEF RecordEvent, RequestKnows
<1>4. PICK goal \in Outcomes : goal = req[w].goal
  BY <1>1 DEF RecordEvent, RequestKnows
<1>5. e = "success" => order[k].paid \/ "manual_review_required" \in history[k]
  BY <1>1, <1>2, <1>3 DEF RecordEvent, RequestKnows
<1>6. /\ outcome' = [outcome EXCEPT ![k][e] = IF @ = "none" THEN goal ELSE @]
      /\ Finish(w)
      /\ UNCHANGED <<cart, quote, lapsed, order, lines, attempt, due, reserved,
                     promoted, work, history, session, refunds>>
  BY <1>2, <1>3, <1>4 DEF RecordEvent
<1>7. /\ req'[w] = Idle /\ (\A x \in Workers : x # w => req'[x] = req[x])
      /\ req' \in [Workers -> Request]
  BY <1>1, <1>6, IdleIsRequest DEF Finish
<1>8. /\ outcome' \in [Keys -> [EventKinds -> Outcomes]]
      /\ \A l \in Keys : l # k => outcome'[l] = outcome[l]
      /\ e # "success" => outcome'[k]["success"] = outcome[k]["success"]
  BY <1>1, <1>6 DEF TypeOK
<1>9. TypeOK'
  BY <1>1, <1>6, <1>7, <1>8 DEF TypeOK
<1>10. KeyInv(k)'
  BY <1>2, <1>5, <1>6, <1>8 DEF KeyInv, RowsAgree, NotPlaced
<1>11. Grows(k)
  BY <1>6 DEF Grows
<1>12. ASSUME NEW l \in Keys, l # k PROVE SameRows(l)
  BY <1>6, <1>8, <1>12 DEF SameRows
<1>13. RequestKnows(req[w])' /\ req'[w].at # "provider"
  BY <1>7, IdleIsRequest DEF RequestKnows, Placed
<1>14. OneOpener'
  BY <1>7, <1>13, Split, OpenerStep
<1>15. CartNotStuck'
  BY <1>6, Split, CartStep
<1> QED BY <1>6, <1>7, <1>9, <1>10, <1>11, <1>12, <1>13, <1>14, <1>15, RowStep

-----------------------------------------------------------------------------
(* Administration.                                                         *)

LEMMA BeginCommandStep ==
    ASSUME IInv, NEW w \in Workers, NEW k \in Keys,
           NEW point \in {"transition", "shipment", "refund"},
           NEW target \in OrderStates, BeginCommand(w, point, k, target),
           attempt[k].status # "none", point = "refund" => order[k].paid
    PROVE  IInv'
<1> USE DEF store, provider
<1>1. TypeOK /\ req \in [Workers -> Request] /\ order[k] \in OrderRow
  BY Split DEF TypeOK
<1> DEFINE r == [Idle EXCEPT !.at = point, !.key = k, !.goal = target, !.ord = order[k]]
<1>2. /\ r \in Request /\ r.at = point /\ r.key = k /\ r.goal = target /\ r.todo = {}
  BY <1>1 DEF Request, Idle, Points, PaymentStates
<1>3. req' = [req EXCEPT ![w] = r] /\ UNCHANGED <<store, provider>>
  BY DEF BeginCommand
<1> HIDE DEF r
<1>4. /\ req'[w] = r /\ (\A x \in Workers : x # w => req'[x] = req[x])
      /\ req' \in [Workers -> Request]
  BY <1>1, <1>2, <1>3
<1>5. RequestKnows(req[w])' /\ req'[w].at # "provider"
  BY <1>2, <1>3, <1>4 DEF RequestKnows, Placed
<1>6. UNCHANGED <<quote, lapsed, due, Rows, cart>>
  BY <1>3 DEF Rows
<1>7. cart \in [state : CartStates, lines : SUBSET Quotes]
  BY <1>1 DEF TypeOK
<1> QED BY <1>4, <1>5, <1>6, <1>7, MoveStep

LEMMA CommandArrivalStep ==
    ASSUME IInv, NEW w \in Workers, NEW k \in Keys,
           \/ \E target \in AdminTargets : BeginTransition(w, k, target)
           \/ \E target \in {"shipped", "delivered"} : BeginShipment(w, k, target)
           \/ BeginRefund(w, k)
    PROVE  IInv'
<1>1. KeyInv(k)
  BY Split
<1>2. order[k].state # "none" => attempt[k].status # "none"
  BY <1>1 DEF KeyInv, RowsAgree, NotPlaced, NoOrder
<1>3. ASSUME NEW target \in AdminTargets, BeginTransition(w, k, target) PROVE IInv'
  BY <1>2, <1>3, BeginCommandStep, CommerceAssumption DEF BeginTransition
<1>4. ASSUME NEW target \in {"shipped", "delivered"}, BeginShipment(w, k, target) PROVE IInv'
  BY <1>2, <1>4, BeginCommandStep DEF BeginShipment, OrderStates
<1>5. CASE BeginRefund(w, k)
  BY <1>1, <1>5, BeginCommandStep DEF BeginRefund, KeyInv, RowsAgree, OrderStates
<1> QED BY <1>3, <1>4, <1>5

LEMMA CommitShipmentStep ==
    ASSUME IInv, NEW w \in Workers, CommitShipment(w) PROVE IInv'
<1> USE DEF store, provider
<1>1. TypeOK /\ RequestKnows(req[w]) /\ req[w] \in Request /\ req \in [Workers -> Request]
  BY Split, RequestFields DEF TypeOK
<1>2. PICK k \in Keys : k = req[w].key /\ KeyInv(k) /\ attempt[k].status # "none"
  BY <1>1, Split DEF CommitShipment, RequestKnows, Placed, Points
<1>3. req[w].goal \in OrderStates /\ req[w].ord.pay \in PaymentStates
  BY <1>1, RequestFields DEF CommitShipment, RequestKnows, OrderRow
<1> DEFINE row == OrderWritten(k, req[w].ord, req[w].goal, req[w].ord.pay)
<1>4. row \in OrderRow /\ row.paid = order[k].paid
  BY <1>1, <1>3, OrderWrittenRow
<1>5. row.pay = order[k].pay
  BY DEF OrderWritten, Written
<1>6. /\ order' = [order EXCEPT ![k] = row] /\ Finish(w)
      /\ UNCHANGED <<cart, quote, lapsed, lines, attempt, due, reserved, promoted,
                     work, history, outcome, session, refunds>>
  BY <1>2 DEF CommitShipment
<1> HIDE DEF row
<1>7. /\ req'[w] = Idle /\ (\A x \in Workers : x # w => req'[x] = req[x])
      /\ req' \in [Workers -> Request] /\ order'[k] = row
  BY <1>1, <1>6, IdleIsRequest DEF Finish, TypeOK
<1>8. TypeOK'
  BY <1>1, <1>4, <1>6, <1>7 DEF TypeOK
<1>9. KeyInv(k)'
  BY <1>2, <1>4, <1>5, <1>6, <1>7 DEF KeyInv, RowsAgree
<1>10. Grows(k)
  BY <1>4, <1>6, <1>7 DEF Grows
<1>11. ASSUME NEW l \in Keys, l # k PROVE SameRows(l)
  BY <1>1, <1>6, <1>11 DEF SameRows, TypeOK
<1>12. RequestKnows(req[w])' /\ req'[w].at # "provider"
  BY <1>7, IdleIsRequest DEF RequestKnows, Placed
<1>13. OneOpener'
  BY <1>7, <1>12, Split, OpenerStep
<1>14. CartNotStuck'
  BY <1>4, <1>6, <1>7, <1>11, Split, CartStep DEF SameRows
<1> QED BY <1>6, <1>7, <1>8, <1>9, <1>10, <1>11, <1>12, <1>13, <1>14, RowStep

LEMMA CommitTransitionStep ==
    ASSUME IInv, NEW w \in Workers, CommitTransition(w) PROVE IInv'
<1> USE DEF store, provider
<1>1. TypeOK /\ RequestKnows(req[w]) /\ req[w] \in Request /\ req \in [Workers -> Request]
  BY Split, RequestFields DEF TypeOK
<1>2. PICK k \in Keys : k = req[w].key /\ KeyInv(k) /\ attempt[k].status # "none"
  BY <1>1, Split DEF CommitTransition, RequestKnows, Placed, Points
<1>3. req[w].goal \in OrderStates /\ req[w].ord.pay \in PaymentStates
  BY <1>1, RequestFields DEF CommitTransition, RequestKnows, OrderRow
<1> DEFINE final == req[w].goal \in {"cancelled", "refunded"}
           pay   == IF final THEN req[w].goal ELSE req[w].ord.pay
           row   == OrderWritten(k, req[w].ord, req[w].goal, pay)
<1>4. pay \in PaymentStates
  BY <1>3 DEF PaymentStates
<1>5. row \in OrderRow /\ row.paid = order[k].paid
  BY <1>1, <1>3, <1>4, OrderWrittenRow
<1>6. row.pay \in {order[k].pay, "cancelled", "refunded"}
  BY DEF OrderWritten, Written
<1>7. /\ order' = [order EXCEPT ![k] = row] /\ Finish(w)
      /\ \/ /\ attempt[k].status \notin Settled
            /\ attempt' = [attempt EXCEPT ![k].status = "cancelled"]
            /\ reserved' = [reserved EXCEPT ![k] = {}]
            /\ cart' = [cart EXCEPT !.state = "active"]
            /\ history' = [history EXCEPT ![k] = @ \cup {"released"}]
         \/ UNCHANGED <<attempt, reserved, cart, history>>
      /\ UNCHANGED <<quote, lapsed, lines, due, promoted, work, outcome, session, refunds>>
  BY <1>2 DEF CommitTransition, Release
<1> HIDE DEF row
<1>8. /\ req'[w] = Idle /\ (\A x \in Workers : x # w => req'[x] = req[x])
      /\ req' \in [Workers -> Request] /\ order'[k] = row /\ order' \in [Keys -> OrderRow]
  BY <1>1, <1>5, <1>7, IdleIsRequest DEF Finish, TypeOK
<1>9. RequestKnows(req[w])' /\ req'[w].at # "provider"
  BY <1>8, IdleIsRequest DEF RequestKnows, Placed
<1>10. OneOpener'
  BY <1>8, <1>9, Split, OpenerStep
<1>11. ASSUME NEW l \in Keys, l # k PROVE SameRows(l)
  BY <1>1, <1>7, <1>11 DEF SameRows, TypeOK
<1>12. CASE UNCHANGED <<attempt, reserved, cart, history>>
  <2>1. TypeOK'
    BY <1>1, <1>7, <1>8, <1>12 DEF TypeOK
  <2>2. KeyInv(k)'
    BY <1>2, <1>5, <1>6, <1>7, <1>8, <1>12 DEF KeyInv, RowsAgree
  <2>3. Grows(k)
    BY <1>5, <1>7, <1>8, <1>12 DEF Grows
  <2>4. CartNotStuck'
    BY <1>5, <1>8, <1>11, <1>12, Split, CartStep DEF SameRows
  <2> QED BY <1>7, <1>8, <1>9, <1>10, <1>11, <2>1, <2>2, <2>3, <2>4, RowStep
<1>13. CASE /\ attempt' = [attempt EXCEPT ![k].status = "cancelled"]
            /\ reserved' = [reserved EXCEPT ![k] = {}]
            /\ cart' = [cart EXCEPT !.state = "active"]
            /\ history' = [history EXCEPT ![k] = @ \cup {"released"}]
  <2>1. /\ attempt' \in [Keys -> AttemptRow] /\ attempt'[k].status = "cancelled"
        /\ reserved' \in [Keys -> SUBSET Quotes] /\ reserved'[k] = {}
        /\ history' \in [Keys -> SUBSET Actions] /\ history'[k] = history[k] \cup {"released"}
        /\ cart' \in [state : CartStates, lines : SUBSET Quotes]
        /\ cart'.state = "active"
    BY <1>1, <1>13 DEF TypeOK, AttemptRow, PaymentStates, Actions, CartStates
  <2>2. TypeOK'
    BY <1>1, <1>7, <1>8, <2>1 DEF TypeOK
  <2>3. KeyInv(k)'
    BY <1>2, <1>5, <1>6, <1>7, <1>8, <2>1 DEF KeyInv, RowsAgree, Settled
  <2>4. Grows(k)
    BY <1>5, <1>7, <1>8, <2>1 DEF Grows
  <2>5. CartNotStuck'
    BY <2>1 DEF CartNotStuck
  <2> QED BY <1>7, <1>8, <1>9, <1>10, <1>11, <2>2, <2>3, <2>4, <2>5, RowStep
<1> QED BY <1>7, <1>12, <1>13

LEMMA CommitRefundStep ==
    ASSUME IInv, NEW w \in Workers, CommitRefund(w) PROVE IInv'
<1> USE DEF store, provider
<1>1. TypeOK /\ RequestKnows(req[w]) /\ req[w] \in Request /\ req \in [Workers -> Request]
  BY Split, RequestFields DEF TypeOK
<1>2. PICK k \in Keys : /\ k = req[w].key /\ KeyInv(k) /\ attempt[k].status # "none"
                        /\ order[k].paid
  BY <1>1, Split DEF CommitRefund, RequestKnows, Placed, Points
<1> DEFINE row == OrderWritten(k, req[w].ord, "refund_pending", "refund_pending")
           r   == [req[w] EXCEPT !.at = "submit"]
<1>3. "refund_pending" \in OrderStates /\ "refund_pending" \in PaymentStates
  BY DEF OrderStates, PaymentStates
<1>4. row \in OrderRow /\ row.paid = order[k].paid
  BY <1>1, <1>3, OrderWrittenRow
<1>5. /\ order' = [order EXCEPT ![k] = row]
      /\ attempt' = [attempt EXCEPT ![k].status = "refund_pending"]
      /\ UNCHANGED <<cart, quote, lapsed, lines, due, reserved, promoted, work,
                     history, outcome, session, refunds>>
  BY <1>2 DEF CommitRefund
<1>6. req' = [req EXCEPT ![w] = r]
  BY DEF CommitRefund, GoTo
<1>7. r \in Request /\ r.at = "submit" /\ r.key = k /\ r.todo = req[w].todo
  BY <1>1, <1>2 DEF Request, Points
<1> HIDE DEF r, row
<1>8. /\ req'[w] = r /\ (\A x \in Workers : x # w => req'[x] = req[x])
      /\ req' \in [Workers -> Request]
  BY <1>1, <1>6, <1>7
<1>9. /\ order' \in [Keys -> OrderRow] /\ order'[k] = row
      /\ attempt' \in [Keys -> AttemptRow] /\ attempt'[k].status = "refund_pending"
  BY <1>1, <1>3, <1>4, <1>5 DEF TypeOK, AttemptRow
<1>10. TypeOK'
  BY <1>1, <1>5, <1>8, <1>9 DEF TypeOK
<1>11. KeyInv(k)'
  BY <1>2, <1>4, <1>5, <1>9 DEF KeyInv, RowsAgree, NotPlaced
<1>12. Grows(k)
  BY <1>4, <1>5, <1>9 DEF Grows
<1>13. ASSUME NEW l \in Keys, l # k PROVE SameRows(l)
  BY <1>1, <1>5, <1>13 DEF SameRows, TypeOK
<1>14. \A l \in r.todo : attempt'[l].status # "none"
  BY <1>1, <1>7, <1>12, <1>13, SameRowsGrow DEF RequestKnows, Grows, Request
<1>15. RequestKnows(req[w])' /\ req'[w].at # "provider"
  BY <1>2, <1>4, <1>7, <1>8, <1>9, <1>14 DEF RequestKnows, Placed
<1>16. OneOpener'
  BY <1>8, <1>15, Split, OpenerStep
<1>17. CartNotStuck'
  BY <1>2, <1>5, <1>13, Split, CartStep DEF SameRows
<1> QED BY <1>5, <1>8, <1>10, <1>11, <1>12, <1>13, <1>15, <1>16, <1>17, RowStep

LEMMA SubmitRefundStep ==
    ASSUME IInv, NEW w \in Workers, SubmitRefund(w) PROVE IInv'
<1> USE DEF store, provider
<1>1. TypeOK /\ RequestKnows(req[w]) /\ req[w] \in Request /\ req \in [Workers -> Request]
  BY Split, RequestFields DEF TypeOK
<1>2. PICK k \in Keys : /\ k = req[w].key /\ KeyInv(k) /\ attempt[k].status # "none"
                        /\ order[k].paid
  BY <1>1, Split DEF SubmitRefund, RequestKnows, Placed, Points
<1>3. /\ refunds' = refunds \cup {k}
      /\ UNCHANGED <<cart, quote, lapsed, order, lines, attempt, due, reserved, promoted,
                     work, history, outcome, session>>
  BY <1>2 DEF SubmitRefund
<1> DEFINE r == [req[w] EXCEPT !.at = "apply", !.event = "refund", !.goal = "none",
                               !.ord.state = "refund_pending",
                               !.ord.pay = "refund_pending", !.att = "refund_pending"]
<1>4. /\ r \in Request /\ r.at = "apply" /\ r.key = k /\ r.event = "refund"
      /\ r.todo = req[w].todo
  BY <1>1, <1>2 DEF Request, Points, EventKinds, Outcomes, OrderRow, OrderStates, PaymentStates
<1>5. req' = [req EXCEPT ![w] = r] \/ Finish(w)
  BY DEF SubmitRefund
<1> HIDE DEF r
<1>6. /\ req'[w] = r \/ req'[w] = Idle
      /\ \A x \in Workers : x # w => req'[x] = req[x]
      /\ req' \in [Workers -> Request]
  BY <1>1, <1>4, <1>5, IdleIsRequest DEF Finish
<1>7. TypeOK'
  BY <1>1, <1>3, <1>6 DEF TypeOK
<1>8. KeyInv(k)'
  BY <1>2, <1>3 DEF KeyInv, RowsAgree
<1>9. Grows(k)
  BY <1>3 DEF Grows
<1>10. ASSUME NEW l \in Keys, l # k PROVE SameRows(l)
  BY <1>3, <1>10 DEF SameRows
<1>11. RequestKnows(req[w])' /\ req'[w].at # "provider"
  <2>1. CASE req'[w] = Idle
    BY <2>1, IdleIsRequest DEF RequestKnows, Placed
  <2>2. CASE req'[w] = r
    <3>1. ApplyKnows(req[w])'
      BY <1>2, <1>3, <1>4, <2>2 DEF ApplyKnows
    <3> QED BY <1>1, <1>2, <1>3, <1>4, <2>2, <3>1 DEF RequestKnows, Placed, EventKinds
  <2> QED BY <1>6, <2>1, <2>2
<1>12. OneOpener'
  BY <1>6, <1>11, Split, OpenerStep
<1>13. CartNotStuck'
  BY <1>3, Split, CartStep
<1> QED BY <1>3, <1>6, <1>7, <1>8, <1>9, <1>10, <1>11, <1>12, <1>13, RowStep

LEMMA EndStep ==
    ASSUME IInv, NEW w \in Workers, RefundFails(w) \/ Crash(w) PROVE IInv'
<1>1. Finish(w) /\ UNCHANGED <<store, provider>>
  BY DEF RefundFails, Crash
<1>2. cart \in [state : CartStates, lines : SUBSET Quotes] /\ quote \in [Quotes -> QuoteStates]
  BY Split DEF TypeOK
<1> QED BY <1>1, <1>2, CartBecomesStep DEF Rows, store, provider

-----------------------------------------------------------------------------
(* Sales.  A quote is sold once if no checkout that goes without the lock  *)
(* of the cart overlaps another: the interleaving of the run sold_twice is *)
(* the only one that sells a quote twice.                                  *)

\* A checkout that has read the lines of an unlocked cart is alone with it.
UnlockedAlone ==
    \A w, x \in Workers :
        req[w].at = "commit" /\ w # x => req[x].at \notin {"checkout", "commit"}

SaleInv ==
    /\ \A k \in Keys : \A q \in lines[k] : quote[q] = "checked_out"
    /\ \A w \in Workers : req[w].at = "commit" =>
          \A k \in Keys : req[w].rows \cap lines[k] = {}
    /\ QuoteSoldOnce

\* A step that sells nothing: what was checked out stays so, and no request
\* comes to the point of a sale.
NoSale ==
    /\ lines' = lines
    /\ \A q \in Quotes : quote[q] = "checked_out" => quote'[q] = "checked_out"
    /\ \A w \in Workers : req'[w] = req[w] \/ req'[w].at # "commit"

LEMMA NoSaleStep == ASSUME TypeOK, SaleInv, NoSale PROVE SaleInv'
<1>1. \A k \in Keys : lines[k] \subseteq Quotes
  BY DEF TypeOK
<1> QED
  BY <1>1 DEF NoSale, SaleInv, QuoteSoldOnce

LEMMA EnvironmentSale ==
    ASSUME TypeOK, Environment \/ UNCHANGED vars PROVE NoSale
<1> USE DEF vars, store, provider, TypeOK, NoSale
<1>1. CASE UNCHANGED vars
  BY <1>1
<1>2. ASSUME NEW k \in Keys, CheckoutFallsDue(k) \/ Charge(k) \/ RefundAtProvider(k)
      PROVE  NoSale
  BY <1>2 DEF CheckoutFallsDue, Charge, RefundAtProvider
<1>3. ASSUME NEW q \in Quotes, QuoteLapses(q) \/ CreateQuote(q) PROVE NoSale
  BY <1>3 DEF QuoteLapses, CreateQuote
<1>4. ASSUME NEW read \in SUBSET Quotes, ExpireQuotes(read) PROVE NoSale
  BY <1>4 DEF ExpireQuotes
<1> QED
  BY <1>1, <1>2, <1>3, <1>4 DEF Environment

\* Where a request stands after its step.
LEMMA Steps ==
    ASSUME TypeOK, NEW w \in Workers, NEW r, r.at # "commit",
           req' = [req EXCEPT ![w] = r]
    PROVE  \A x \in Workers : req'[x] = req[x] \/ req'[x].at # "commit"
BY DEF TypeOK

LEMMA ArrivalSale == ASSUME TypeOK, NEW w \in Workers, Arrival(w) PROVE NoSale
<1>2. ASSUME NEW r, r.at # "commit", req' = [req EXCEPT ![w] = r],
             UNCHANGED <<store, provider>>
      PROVE  NoSale
  BY <1>2, Steps DEF NoSale, store
<1>3. ASSUME NEW point \in Points \ {"commit"}, NEW key, NEW rows,
             Begin(w, point, key, rows)
      PROVE  NoSale
  <2> DEFINE r == [Idle EXCEPT !.at = point, !.key = key, !.todo = Overdue, !.rows = rows]
  <2>1. r.at # "commit"
    BY <1>3 DEF Idle, Points
  <2>2. req' = [req EXCEPT ![w] = r] /\ UNCHANGED <<store, provider>>
    BY <1>3 DEF Begin
  <2> HIDE DEF r
  <2> QED
    BY <1>2, <2>1, <2>2
<1>4. ASSUME NEW point \in Points \ {"commit"}, NEW k, NEW target,
             BeginCommand(w, point, k, target)
      PROVE  NoSale
  <2> DEFINE r == [Idle EXCEPT !.at = point, !.key = k, !.goal = target, !.ord = order[k]]
  <2>1. r.at # "commit"
    BY <1>4 DEF Idle, Points
  <2>2. req' = [req EXCEPT ![w] = r] /\ UNCHANGED <<store, provider>>
    BY <1>4 DEF BeginCommand
  <2> HIDE DEF r
  <2> QED
    BY <1>2, <2>1, <2>2
<1>5. ASSUME NEW k \in Keys, BeginSandboxView(w, k) PROVE NoSale
  <2> DEFINE r == [Idle EXCEPT !.at = "customer", !.todo = Overdue \cap {k}]
  <2>1. r.at # "commit"
    BY <1>5 DEF Idle, Points
  <2>2. req' = [req EXCEPT ![w] = r] /\ UNCHANGED <<store, provider>>
    BY <1>5 DEF BeginSandboxView
  <2> HIDE DEF r
  <2> QED
    BY <1>2, <2>1, <2>2
<1>6. ASSUME NEW k \in Keys, NEW e \in Kinds, Deliver(w, k, e) PROVE NoSale
  <2> DEFINE r == [Idle EXCEPT !.at = "apply", !.key = k, !.event = e,
                             !.rows = IF e \in SuccessEvents THEN Promotable(k) ELSE {},
                             !.ord = order[k], !.att = attempt[k].status]
  <2>1. r.at # "commit"
    BY <1>6 DEF Idle, Points
  <2>2. req' = [req EXCEPT ![w] = r] /\ UNCHANGED <<store, provider>>
    BY <1>6 DEF Deliver
  <2> HIDE DEF r
  <2> QED
    BY <1>2, <2>1, <2>2
<1> QED
  BY <1>3, <1>4, <1>5, <1>6 DEF Arrival, Points, BeginCustomer, BeginAdd,
     BeginCheckout, BeginRefund, BeginTransition, BeginShipment

\* The steps of a checkout but those of a sale.
LEMMA CheckoutSale ==
    ASSUME TypeOK, NEW w \in Workers,
           \/ OpenCartForCheckout(w) \/ OpenSession(w) \/ ProviderFails(w)
           \/ StoreSession(w) \/ \E k \in Keys : ExpireAttempt(w, k)
    PROVE  NoSale
<1> USE DEF store, provider, NoSale, TypeOK
<1>1. req \in [Workers -> Request] /\ Idle.at = "idle"
  BY DEF Idle
<1>2. CASE OpenCartForCheckout(w)
  BY <1>1, <1>2 DEF OpenCartForCheckout, GoTo, Request
<1>3. CASE OpenSession(w)
  BY <1>1, <1>3 DEF OpenSession, GoTo, Request
<1>4. CASE ProviderFails(w)
  BY <1>1, <1>4 DEF ProviderFails, CancelAttempt, Finish
<1>5. CASE StoreSession(w)
  BY <1>1, <1>5 DEF StoreSession, Finish
<1>6. ASSUME NEW k \in Keys, ExpireAttempt(w, k) PROVE NoSale
  BY <1>1, <1>6 DEF ExpireAttempt, CancelAttempt, Request
<1> QED
  BY <1>2, <1>3, <1>4, <1>5, <1>6

\* The cart changes, no order does.
LEMMA CartSale ==
    ASSUME TypeOK, NEW w \in Workers,
           \/ ReadOrders(w) \/ GetCart(w) \/ EmptyCart(w) \/ AddToCart(w)
           \/ \E q \in Quotes : RemoveCartLine(w, q)
           \/ \E q, replacement \in Quotes : ChangeCartLine(w, q, replacement)
           \/ Crash(w) \/ RefundFails(w)
    PROVE  NoSale
<1>1. Idle.at # "commit"
  BY DEF Idle
<1>2. /\ UNCHANGED lines /\ Finish(w)
      /\ quote' \in [Quotes -> QuoteStates]
      /\ \A q \in Quotes : quote[q] = "checked_out" => quote'[q] = "checked_out"
  <2>1. ASSUME NEW c, CartBecomes(w, c)
        PROVE  UNCHANGED <<lines, quote>> /\ Finish(w)
    BY <2>1 DEF CartBecomes
  <2>2. CASE Crash(w) \/ RefundFails(w)
    BY <2>2 DEF Crash, RefundFails, store, TypeOK
  <2>3. ASSUME NEW q \in Quotes, NEW replacement \in Quotes,
               ChangeCartLine(w, q, replacement)
        PROVE  /\ UNCHANGED lines /\ Finish(w)
               /\ quote' \in [Quotes -> QuoteStates]
               /\ \A p \in Quotes :
                     quote[p] = "checked_out" => quote'[p] = "checked_out"
    BY <2>3 DEF ChangeCartLine, TypeOK, QuoteStates
  <2> QED
    BY <2>1, <2>2, <2>3 DEF ReadOrders, GetCart, EmptyCart, AddToCart, RemoveCartLine,
       TypeOK
<1> QED
  BY <1>1, <1>2, Steps DEF Finish, NoSale

\* Events and commands.
LEMMA BackOfficeSale ==
    ASSUME TypeOK, NEW w \in Workers, Webhook(w) \/ Administrator(w)
    PROVE  NoSale
<1> USE DEF store, provider
<1>1. req \in [Workers -> Request]
  BY DEF TypeOK
<1>2. UNCHANGED <<lines, quote>>
  <2>1. CASE Webhook(w)
    BY <2>1 DEF Webhook, ApplyPayment, ReviewPayment, ApplyCancellation,
       CancelAttempt, ApplyRefund, IgnoreEvent, RecordEvent
  <2>2. CASE Administrator(w)
    BY <2>2 DEF Administrator, CommitTransition, CommitShipment, CommitRefund,
       SubmitRefund, RefundFails
  <2> QED
    BY <2>1, <2>2
<1> DEFINE Moves == \A x \in Workers : req'[x] = req[x] \/ req'[x].at # "commit"
<1>3. Moves
  <2>1. ASSUME Finish(w) PROVE Moves
    BY <1>1, <2>1 DEF Finish, Idle
  <2>2. ASSUME NEW result, Applied(w, result) PROVE Moves
    <3> DEFINE r == [Idle EXCEPT !.at = "record", !.goal = result,
                                 !.key = req[w].key, !.event = req[w].event]
    <3>1. r.at # "commit"
      BY DEF Idle
    <3>2. req' = [req EXCEPT ![w] = r]
      BY <2>2 DEF Applied
    <3> HIDE DEF r
    <3> QED
      BY <3>1, <3>2, Steps
  <2>3. ASSUME GoTo(w, "submit") PROVE Moves
    BY <1>1, <2>3 DEF GoTo, Request
  <2>4. CASE SubmitRefund(w)
    <3> DEFINE r == [req[w] EXCEPT !.at = "apply", !.event = "refund", !.goal = "none",
                        !.ord.state = "refund_pending", !.ord.pay = "refund_pending",
                        !.att = "refund_pending"]
    <3>1. r.at # "commit"
      BY <1>1 DEF Request
    <3>2. Finish(w) \/ req' = [req EXCEPT ![w] = r]
      BY <2>4 DEF SubmitRefund
    <3> HIDE DEF r
    <3> QED
      BY <2>1, <3>1, <3>2, Steps
  <2> HIDE DEF Moves
  <2>5. CASE Webhook(w)
    BY <2>1, <2>2, <2>5 DEF Webhook, ApplyPayment, ReviewPayment, ApplyCancellation,
       ApplyRefund, IgnoreEvent, RecordEvent
  <2>6. CASE Administrator(w)
    BY <2>1, <2>3, <2>4, <2>6 DEF Administrator, CommitTransition, CommitShipment,
       CommitRefund, RefundFails
  <2> QED
    BY <2>5, <2>6
<1> QED
  BY <1>2, <1>3 DEF NoSale

\* An order is placed from quotes that no order has.
LEMMA PlaceOrderSale ==
    ASSUME TypeOK, UnlockedAlone, SaleInv, NEW w \in Workers, NEW rows \in SUBSET Quotes,
           req[w].at \in {"checkout", "commit"}, req[w].key \in Keys,
           \A k \in Keys : rows \cap lines[k] = {},
           PlaceOrder(w, rows)
    PROVE  SaleInv'
<1> DEFINE k == req[w].key
<1>1. /\ req \in [Workers -> Request] /\ lines \in [Keys -> SUBSET Quotes]
      /\ quote \in [Quotes -> QuoteStates]
  BY DEF TypeOK
<1>2. CASE Finish(w) /\ UNCHANGED <<store, provider>>
  <2>1. NoSale
    BY <1>1, <1>2 DEF Finish, Idle, NoSale, store
  <2> QED
    BY <2>1, NoSaleStep
<1>3. CASE /\ lines' = [lines EXCEPT ![k] = rows]
           /\ quote' = [q \in Quotes |-> IF q \in rows THEN "checked_out" ELSE quote[q]]
           /\ GoTo(w, "provider")
  <2>1. /\ \A l \in Keys : lines'[l] = IF l = k THEN rows ELSE lines[l]
        /\ \A x \in Workers : IF x = w THEN req'[x].at = "provider"
                                         ELSE req'[x] = req[x]
    BY <1>1, <1>3 DEF GoTo, Request
  <2>2. \A l \in Keys : \A q \in lines'[l] : quote'[q] = "checked_out"
    BY <1>1, <1>3, <2>1 DEF SaleInv
  <2>3. \A x \in Workers : req'[x].at # "commit"
    BY <2>1 DEF UnlockedAlone
  <2>4. QuoteSoldOnce'
    BY <2>1 DEF SaleInv, QuoteSoldOnce
  <2> QED
    BY <2>2, <2>3, <2>4 DEF SaleInv
<1> QED
  BY <1>2, <1>3 DEF PlaceOrder

LEMMA SaleStep ==
    ASSUME IInv, UnlockedAlone, SaleInv, NEW w \in Workers,
           CheckOutLockedCart(w) \/ ReadRows(w) \/ CheckOutUnlockedCart(w)
    PROVE  SaleInv'
<1>1. /\ TypeOK /\ req \in [Workers -> Request] /\ RequestKnows(req[w])
      /\ cart.lines \subseteq Quotes /\ req[w].rows \subseteq Quotes
  BY Split DEF TypeOK, Request
<1>2. ASSUME NEW c, CartBecomes(w, c) PROVE SaleInv'
  <2>1. NoSale
    BY <1>1, <1>2 DEF CartBecomes, Finish, Idle, NoSale
  <2> QED
    BY <1>1, <2>1, NoSaleStep
<1>3. cart.lines \subseteq Sellable => \A k \in Keys : cart.lines \cap lines[k] = {}
  BY <1>1 DEF SaleInv, Sellable
<1>4. CASE CheckOutLockedCart(w)
  <2>1. req[w].at = "checkout" /\ req[w].key \in Keys
    BY <1>1, <1>4 DEF CheckOutLockedCart, Ready, RequestKnows
  <2> QED
    BY <1>1, <1>2, <1>3, <1>4, <2>1, PlaceOrderSale DEF CheckOutLockedCart
<1>5. CASE CheckOutUnlockedCart(w)
  <2>1. req[w].at = "commit" /\ req[w].key \in Keys
    BY <1>1, <1>5 DEF CheckOutUnlockedCart, RequestKnows
  <2> QED
    BY <1>1, <1>5, <2>1, PlaceOrderSale DEF CheckOutUnlockedCart, SaleInv
<1>6. CASE /\ cart.lines \subseteq Sellable
           /\ req' = [req EXCEPT ![w].at = "commit", ![w].rows = cart.lines]
           /\ UNCHANGED <<store, provider>>
  <2>1. /\ req'[w].rows = cart.lines
        /\ \A x \in Workers : x # w => req'[x] = req[x]
        /\ UNCHANGED <<lines, quote>>
    BY <1>1, <1>6 DEF Request, store
  <2> QED
    BY <1>3, <1>6, <2>1 DEF SaleInv, QuoteSoldOnce
<1> QED
  BY <1>2, <1>4, <1>5, <1>6 DEF ReadRows

LEMMA NextSale ==
    ASSUME IInv, UnlockedAlone, SaleInv, [Next]_vars PROVE SaleInv'
<1>1. TypeOK
  BY Split
<1>2. CASE Environment \/ UNCHANGED vars
  BY <1>1, <1>2, EnvironmentSale, NoSaleStep
<1>3. ASSUME NEW w \in Workers, Arrival(w) PROVE SaleInv'
  BY <1>1, <1>3, ArrivalSale, NoSaleStep
<1>4. ASSUME NEW w \in Workers, Proceed(w) PROVE SaleInv'
  <2>1. CASE CheckOutLockedCart(w) \/ ReadRows(w) \/ CheckOutUnlockedCart(w)
    BY <2>1, SaleStep
  <2>2. CASE Webhook(w) \/ Administrator(w)
    BY <1>1, <2>2, BackOfficeSale, NoSaleStep
  <2> QED
    BY <1>1, <1>4, <2>1, <2>2, CheckoutSale, CartSale, NoSaleStep DEF Proceed, Customer
<1> QED
  BY <1>2, <1>3, <1>4 DEF Next

-----------------------------------------------------------------------------
(* Commerce implements Purchases: what each step of a request is to one    *)
(* who sees only the money, the goods and the books.                       *)

Shows == Shop!Next \/ UNCHANGED Shop!vars

\* What is seen of a step that changes the rows of one checkout.
LEMMA Seen ==
    ASSUME TypeOK, NEW k \in Keys, \A l \in Keys : l # k => SameRows(l)
    PROVE  /\ Books' = [Books EXCEPT ![k] = attempt'[k].status]
           /\ attempt'[k].status = attempt[k].status => Books' = Books
           /\ order'[k].paid = order[k].paid => Sold' = Sold
           /\ order'[k].paid => Sold' = Sold \cup {k}
           /\ history'[k] = history[k] => Referred' = Referred
           /\ history'[k] = history[k] \cup {"released"} => Referred' = Referred
           /\ "manual_review_required" \in history'[k] => Referred' = Referred \cup {k}
           /\ outcome'[k]["success"] = outcome[k]["success"] => Answered' = Answered
           /\ outcome'[k]["success"] # "none" => Answered' = Answered \cup {k}
<1>1. Books' = [Books EXCEPT ![k] = attempt'[k].status]
  BY DEF Books, SameRows
<1>2. attempt'[k].status = attempt[k].status => Books' = Books
  BY DEF Books, SameRows
<1>3. /\ order'[k].paid = order[k].paid => Sold' = Sold
      /\ order'[k].paid => Sold' = Sold \cup {k}
  BY DEF Sold, SameRows
<1>4. /\ history'[k] = history[k] => Referred' = Referred
      /\ history'[k] = history[k] \cup {"released"} => Referred' = Referred
      /\ "manual_review_required" \in history'[k] => Referred' = Referred \cup {k}
  BY DEF Referred, SameRows
<1>5. /\ outcome'[k]["success"] = outcome[k]["success"] => Answered' = Answered
      /\ outcome'[k]["success"] # "none" => Answered' = Answered \cup {k}
  BY DEF Answered, SameRows
<1> QED BY <1>1, <1>2, <1>3, <1>4, <1>5

LEMMA QuietShows ==
    ASSUME UNCHANGED Rows PROVE Shows
BY DEF Rows, Shows, Shop!vars, Sold, Books, Referred, Answered

\* The sets of the abstract state, checkout by checkout.
LEMMA Member ==
    ASSUME NEW k \in Keys
    PROVE  /\ k \in Shop!Placed <=> attempt[k].status # "none"
           /\ k \in Sold <=> order[k].paid
           /\ k \in Referred <=> "manual_review_required" \in history[k]
BY DEF Shop!Placed, Books, Sold, Referred

\* _cancel_attempt drops the checkout, whatever rows the session had seen.
LEMMA CancelShows ==
    ASSUME IInv, NEW k \in Keys, NEW seen, NEW status \in {"cancelled", "failed"},
           attempt[k].status # "none", CancelAttempt(k, seen, status),
           UNCHANGED <<quote, lapsed, lines, due, promoted, work, outcome,
                       session, refunds>>
    PROVE  Shows
<1>1. TypeOK
  BY Split
<1>2. \A l \in Keys : l # k => SameRows(l)
  BY CancelEffect
<1>3. /\ attempt'[k].status = status
      /\ reserved' = [reserved EXCEPT ![k] = {}]
      /\ history'[k] = history[k] \cup {"released"}
      /\ order'[k].paid = order[k].paid
  BY <1>1 DEF CancelAttempt, Release, OrderWritten, TypeOK, AttemptRow
<1>4. Shop!Drop(k, status)
  BY <1>1, <1>2, <1>3, Seen, Member DEF Shop!Drop
<1> QED BY <1>4 DEF Shows, Shop!Next, Shop!Step

\* An order is placed once and is never empty.
LEMMA PlaceOrderShows ==
    ASSUME IInv, NEW w \in Workers, NEW rows \in SUBSET Quotes, rows # {},
           req[w].at \in {"checkout", "commit"}, PlaceOrder(w, rows)
    PROVE  Shows
<1> USE DEF store, provider
<1>1. TypeOK /\ RequestKnows(req[w])
  BY Split
<1>2. PICK k \in Keys : k = req[w].key /\ KeyInv(k)
  BY <1>1, Split DEF RequestKnows
<1>3. CASE attempt[k].status # "none"
  BY <1>2, <1>3, QuietShows DEF PlaceOrder, Rows
<1>4. CASE attempt[k].status = "none"
  <2>1. /\ order' = [order EXCEPT ![k] = [state |-> "payment_pending",
                                          pay |-> "pending", paid |-> FALSE]]
        /\ attempt' = [attempt EXCEPT ![k].status = "pending"]
        /\ lines' = [lines EXCEPT ![k] = rows]
        /\ reserved' = [reserved EXCEPT ![k] = rows \cap CustomQuotes]
        /\ UNCHANGED <<promoted, work, history, outcome, session, refunds>>
    BY <1>2, <1>4 DEF PlaceOrder
  <2>2. attempt'[k].status = "pending" /\ order'[k].paid = FALSE
    BY <1>1, <2>1 DEF TypeOK, AttemptRow
  <2>3. order[k].paid = FALSE
    BY <1>2, <1>4 DEF KeyInv, RowsAgree, NotPlaced, NoOrder
  <2>4. \A l \in Keys : l # k => SameRows(l)
    BY <1>1, <2>1 DEF SameRows, TypeOK
  <2>5. Shop!Place(k, rows)
    BY <1>1, <1>4, <2>1, <2>2, <2>3, <2>4, Seen, Member DEF Shop!Place
  <2> QED BY <2>5 DEF Shows, Shop!Next, Shop!Step
<1> QED BY <1>3, <1>4

LEMMA CheckOutShows ==
    ASSUME IInv, NEW w \in Workers, CheckOutLockedCart(w) \/ CheckOutUnlockedCart(w)
    PROVE  Shows
<1>1. TypeOK /\ RequestKnows(req[w]) /\ req[w].rows \subseteq Quotes
  BY Split, RequestFields
<1>2. cart.lines \subseteq Quotes
  BY <1>1 DEF TypeOK
<1>3. CASE CheckOutUnlockedCart(w)
  BY <1>1, <1>3, PlaceOrderShows DEF CheckOutUnlockedCart, RequestKnows
<1>4. ASSUME CheckOutLockedCart(w), cart.lines # {}, PlaceOrder(w, cart.lines)
      PROVE  Shows
  BY <1>2, <1>4, PlaceOrderShows DEF CheckOutLockedCart, Ready
<1>5. ASSUME NEW c, CartBecomes(w, c) PROVE Shows
  BY <1>5, QuietShows DEF CartBecomes, Rows, provider
<1> QED BY <1>3, <1>4, <1>5 DEF CheckOutLockedCart

\* The hosted session of a checkout is opened once.
LEMMA OpenSessionShows ==
    ASSUME IInv, NEW w \in Workers, OpenSession(w) PROVE Shows
<1>1. TypeOK /\ RequestKnows(req[w])
  BY Split
<1>2. PICK k \in Keys : /\ k = req[w].key /\ session[k] = "none"
                        /\ attempt[k].status # "none"
  BY <1>1 DEF OpenSession, RequestKnows, Placed, Points
<1>3. /\ session' = [session EXCEPT ![k] = "open"]
      /\ UNCHANGED <<store, refunds>>
  BY <1>2 DEF OpenSession
<1>4. Sold' = Sold /\ Books' = Books /\ Referred' = Referred /\ Answered' = Answered
  BY <1>3 DEF store, Sold, Books, Referred, Answered
<1>5. Shop!Offer(k)
  BY <1>2, <1>3, <1>4, Member DEF Shop!Offer, store
<1> QED BY <1>5 DEF Shows, Shop!Next, Shop!Step

LEMMA ProviderShows ==
    ASSUME IInv, NEW k \in Keys, Charge(k) \/ RefundAtProvider(k) PROVE Shows
<1>1. UNCHANGED store /\ KeyInv(k)
  BY Split DEF Charge, RefundAtProvider
<1>2. Sold' = Sold /\ Books' = Books /\ Referred' = Referred /\ Answered' = Answered
  BY <1>1 DEF store, Sold, Books, Referred, Answered
<1>3. CASE Charge(k)
  <2>1. k \notin Sold
    BY <1>1, <1>3, Member DEF Charge, KeyInv
  <2>2. Shop!Pay(k)
    BY <1>1, <1>2, <1>3, <2>1 DEF Charge, Shop!Pay, store
  <2> QED BY <2>2 DEF Shows, Shop!Next, Shop!Step
<1>4. CASE RefundAtProvider(k)
  <2>1. Shop!Return(k)
    BY <1>1, <1>2, <1>4 DEF RefundAtProvider, Shop!Return, store
  <2> QED BY <2>1 DEF Shows, Shop!Next, Shop!Step
<1> QED BY <1>3, <1>4

\* A verified payment is a sale, also when it is applied a second time.
LEMMA ApplyPaymentShows ==
    ASSUME IInv, NEW w \in Workers, ApplyPayment(w) PROVE Shows
<1> USE DEF store, provider
<1>1. req[w].at = "apply" /\ req[w].event = "success"
  BY DEF ApplyPayment, Applying, SuccessEvents
<1>2. PICK k \in Keys : k = req[w].key /\ KeyInv(k)
  BY <1>1, ApplyFacts
<1>3. TypeOK /\ session[k] = "paid"
  BY <1>1, <1>2, ApplyFacts DEF ApplyKnows
<1>4. CASE UNCHANGED Rows
  BY <1>4, QuietShows
<1>5. CASE ~UNCHANGED Rows
  <2>1. PICK images :
          /\ order' = [order EXCEPT ![k] =
                 [OrderWritten(k, req[w].ord, "paid", "paid") EXCEPT !.paid = TRUE]]
          /\ attempt' = [attempt EXCEPT ![k].status = "paid"]
          /\ promoted' = [promoted EXCEPT ![k] = @ \cup images]
          /\ work' = [work EXCEPT ![k] = @ \cup lines[k]]
          /\ reserved' = [reserved EXCEPT ![k] = {}]
          /\ UNCHANGED <<lines, history, outcome, session, refunds>>
    BY <1>2, <1>5 DEF ApplyPayment, Release, Planned, Rows
  <2>2. attempt'[k].status = "paid" /\ order'[k].paid
    BY <1>3, <2>1 DEF OrderWritten, TypeOK, AttemptRow
  <2>3. work' = [work EXCEPT ![k] = lines[k]]
    BY <1>2, <1>3, <2>1 DEF KeyInv, TypeOK
  <2>4. \A l \in Keys : l # k => SameRows(l)
    BY <1>3, <2>1 DEF SameRows, TypeOK
  <2>5. Shop!Sell(k)
    BY <1>3, <2>1, <2>2, <2>3, <2>4, Seen DEF Shop!Sell
  <2> QED BY <2>5 DEF Shows, Shop!Next, Shop!Step
<1> QED BY <1>4, <1>5

\* Everything that needs a person is referred to one.
LEMMA ReviewPaymentShows ==
    ASSUME IInv, NEW w \in Workers, ReviewPayment(w) PROVE Shows
<1> USE DEF store, provider
<1>1. req[w].at = "apply"
  BY DEF ReviewPayment, NeedsReview, Applying
<1>2. PICK k \in Keys : k = req[w].key /\ attempt[k].status # "none" /\ TypeOK
  BY <1>1, ApplyFacts
<1>3. /\ order' = [order EXCEPT ![k] = OrderWritten(k, req[w].ord,
                        "manual_review_required", "manual_review")]
      /\ attempt' = [attempt EXCEPT ![k].status = Written(@, req[w].att, "manual_review")]
      /\ history' = [history EXCEPT ![k] = @ \cup {"manual_review_required"}]
      /\ UNCHANGED <<lines, reserved, promoted, work, outcome, session, refunds>>
  BY <1>2 DEF ReviewPayment
<1>4. /\ attempt'[k].status \in {attempt[k].status, "manual_review"}
      /\ order'[k].paid = order[k].paid
      /\ "manual_review_required" \in history'[k]
  BY <1>2, <1>3 DEF OrderWritten, Written, TypeOK, AttemptRow
<1>5. \A l \in Keys : l # k => SameRows(l)
  BY <1>2, <1>3 DEF SameRows, TypeOK
<1>6. Shop!Refer(k)
  BY <1>2, <1>3, <1>4, <1>5, Seen, Member DEF Shop!Refer
<1> QED BY <1>6 DEF Shows, Shop!Next, Shop!Step

LEMMA ApplyCancellationShows ==
    ASSUME IInv, NEW w \in Workers, ApplyCancellation(w) PROVE Shows
<1> USE DEF store, provider
<1>1. req[w].at = "apply"
  BY DEF ApplyCancellation, Applying
<1>2. PICK k \in Keys : k = req[w].key /\ attempt[k].status # "none"
  BY <1>1, ApplyFacts
<1>3. CASE UNCHANGED Rows
  BY <1>3, QuietShows
<1>4. CASE ~UNCHANGED Rows
  <2>1. PICK status \in {"cancelled", "failed"} : CancelAttempt(k, req[w].ord, status)
    BY <1>2, <1>4 DEF ApplyCancellation, Rows
  <2>2. UNCHANGED <<quote, lapsed, lines, due, promoted, work, outcome, session, refunds>>
    BY <1>2, <1>4 DEF ApplyCancellation, Rows
  <2> QED BY <1>2, <2>1, <2>2, CancelShows
<1> QED BY <1>3, <1>4

\* A refund is settled in the books only after the provider was asked.
LEMMA ApplyRefundShows ==
    ASSUME IInv, NEW w \in Workers, ApplyRefund(w) PROVE Shows
<1> USE DEF store, provider
<1>1. req[w].at = "apply" /\ req[w].event = "refund" /\ req[w].ord.pay = "refund_pending"
  BY DEF ApplyRefund, Applying
<1>2. PICK k \in Keys : k = req[w].key /\ TypeOK /\ ApplyKnows(req[w])
  BY <1>1, ApplyFacts
<1>3. k \in refunds /\ order[k].paid
  BY <1>1, <1>2 DEF ApplyKnows
<1>4. /\ order' = [order EXCEPT ![k] = OrderWritten(k, req[w].ord, "refunded", "refunded")]
      /\ attempt' = [attempt EXCEPT ![k].status = Written(@, req[w].att, "refunded")]
      /\ UNCHANGED <<lines, reserved, promoted, work, history, outcome, session, refunds>>
  BY <1>2 DEF ApplyRefund
<1>5. /\ attempt'[k].status \in {attempt[k].status, "refunded"}
      /\ order'[k].paid = order[k].paid
  BY <1>2, <1>4 DEF OrderWritten, Written, TypeOK, AttemptRow
<1>6. \A l \in Keys : l # k => SameRows(l)
  BY <1>2, <1>4 DEF SameRows, TypeOK
<1>7. CASE attempt'[k].status = attempt[k].status
  BY <1>2, <1>4, <1>5, <1>6, <1>7, Seen DEF Shows, Shop!vars
<1>8. CASE attempt'[k].status = "refunded"
  <2>1. Shop!EndRefund(k)
    BY <1>2, <1>3, <1>4, <1>5, <1>6, <1>8, Seen, Member DEF Shop!EndRefund
  <2> QED BY <2>1 DEF Shows, Shop!Next, Shop!Step
<1> QED BY <1>5, <1>7, <1>8

\* The payment is acknowledged when it was accepted or referred.
LEMMA RecordEventShows ==
    ASSUME IInv, NEW w \in Workers, RecordEvent(w) PROVE Shows
<1>1. TypeOK /\ RequestKnows(req[w])
  BY Split
<1>2. PICK k \in Keys : k = req[w].key
  BY <1>1 DEF RecordEvent, RequestKnows
<1>3. PICK e \in EventKinds : e = req[w].event
  BY <1>1 DEF RecordEvent, RequestKnows
<1>4. e = "success" => k \in Sold \cup Referred
  BY <1>1, <1>2, <1>3, Member DEF RecordEvent, RequestKnows
<1>5. /\ outcome' = [outcome EXCEPT ![k][e] = IF @ = "none" THEN req[w].goal ELSE @]
      /\ UNCHANGED <<order, lines, attempt, reserved, promoted, work, history,
                     session, refunds>>
  BY <1>2, <1>3 DEF RecordEvent, provider
<1>6. \A l \in Keys : l # k => SameRows(l)
  BY <1>1, <1>5 DEF SameRows, TypeOK
<1>7. CASE outcome'[k]["success"] = outcome[k]["success"]
  BY <1>1, <1>5, <1>6, <1>7, Seen DEF Shows, Shop!vars
<1>8. CASE outcome'[k]["success"] # outcome[k]["success"]
  <2>1. e = "success" /\ outcome[k]["success"] = "none"
    BY <1>1, <1>5, <1>8 DEF TypeOK
  <2>2. Shop!Answer(k)
    BY <1>1, <1>4, <1>5, <1>6, <1>8, <2>1, Seen DEF Shop!Answer
  <2> QED BY <2>2 DEF Shows, Shop!Next, Shop!Step
<1> QED BY <1>7, <1>8

\* A transition of the order changes no more of a purchase than its hold.
LEMMA CommitTransitionShows ==
    ASSUME IInv, NEW w \in Workers, CommitTransition(w) PROVE Shows
<1> USE DEF store, provider
<1>1. TypeOK /\ RequestKnows(req[w])
  BY Split
<1>2. PICK k \in Keys : k = req[w].key /\ attempt[k].status # "none"
  BY <1>1 DEF CommitTransition, RequestKnows, Placed, Points
<1>3. PICK row : /\ order' = [order EXCEPT ![k] = row] /\ row.paid = order[k].paid
                 /\ UNCHANGED <<lines, promoted, work, outcome, session, refunds>>
  BY <1>2 DEF CommitTransition, OrderWritten
<1>4. order'[k].paid = order[k].paid
  BY <1>1, <1>3 DEF TypeOK
<1>5. CASE UNCHANGED <<attempt, reserved, history>>
  <2>1. \A l \in Keys : l # k => SameRows(l)
    BY <1>1, <1>3, <1>5 DEF SameRows, TypeOK
  <2> QED BY <1>1, <1>3, <1>4, <1>5, <2>1, Seen DEF Shows, Shop!vars
<1>6. CASE /\ attempt' = [attempt EXCEPT ![k].status = "cancelled"]
           /\ reserved' = [reserved EXCEPT ![k] = {}]
           /\ history' = [history EXCEPT ![k] = @ \cup {"released"}]
  <2>1. \A l \in Keys : l # k => SameRows(l)
    BY <1>1, <1>3, <1>6 DEF SameRows, TypeOK
  <2>2. attempt'[k].status = "cancelled" /\ history'[k] = history[k] \cup {"released"}
    BY <1>1, <1>6 DEF TypeOK, AttemptRow
  <2>3. Shop!Drop(k, "cancelled")
    BY <1>1, <1>2, <1>3, <1>4, <1>6, <2>1, <2>2, Seen, Member DEF Shop!Drop
  <2> QED BY <2>3 DEF Shows, Shop!Next, Shop!Step
<1> QED BY <1>2, <1>5, <1>6 DEF CommitTransition, Release

LEMMA CommitShipmentShows ==
    ASSUME IInv, NEW w \in Workers, CommitShipment(w) PROVE Shows
<1>1. TypeOK
  BY Split
<1>2. /\ \A l \in Keys : order'[l].paid = order[l].paid
      /\ UNCHANGED <<lines, attempt, reserved, work, history, outcome, session, refunds>>
  BY <1>1 DEF CommitShipment, OrderWritten, provider, TypeOK
<1> QED BY <1>2 DEF Shows, Shop!vars, Sold, Books, Referred, Answered

\* refund: the books first, then the provider.
LEMMA RefundShows ==
    ASSUME IInv, NEW w \in Workers, CommitRefund(w) \/ SubmitRefund(w) PROVE Shows
<1> USE DEF store, provider
<1>1. TypeOK /\ RequestKnows(req[w])
  BY Split
<1>2. PICK k \in Keys : k = req[w].key /\ KeyInv(k) /\ order[k].paid
  BY <1>1, Split DEF CommitRefund, SubmitRefund, RequestKnows, Placed, Points
<1>3. CASE CommitRefund(w)
  <2>1. /\ order' = [order EXCEPT ![k] = OrderWritten(k, req[w].ord,
                        "refund_pending", "refund_pending")]
        /\ attempt' = [attempt EXCEPT ![k].status = "refund_pending"]
        /\ UNCHANGED <<lines, reserved, promoted, work, history, outcome, session, refunds>>
    BY <1>2, <1>3 DEF CommitRefund
  <2>2. attempt'[k].status = "refund_pending" /\ order'[k].paid = order[k].paid
    BY <1>1, <2>1 DEF OrderWritten, TypeOK, AttemptRow
  <2>3. \A l \in Keys : l # k => SameRows(l)
    BY <1>1, <2>1 DEF SameRows, TypeOK
  <2>4. Shop!BeginRefund(k)
    BY <1>1, <1>2, <2>1, <2>2, <2>3, Seen, Member DEF Shop!BeginRefund
  <2> QED BY <2>4 DEF Shows, Shop!Next, Shop!Step
<1>4. CASE SubmitRefund(w)
  <2>1. refunds' = refunds \cup {k} /\ UNCHANGED <<store, session>>
    BY <1>2, <1>4 DEF SubmitRefund
  <2>2. Sold' = Sold /\ Books' = Books /\ Referred' = Referred /\ Answered' = Answered
    BY <2>1 DEF Sold, Books, Referred, Answered
  <2>3. Shop!Return(k)
    BY <1>2, <2>1, <2>2 DEF Shop!Return, KeyInv
  <2> QED BY <2>3 DEF Shows, Shop!Next, Shop!Step
<1> QED BY <1>3, <1>4

\* The steps that no one sees who sees only the purchases.
LEMMA HiddenSteps ==
    ASSUME IInv, NEW w \in Workers,
           \/ Arrival(w) \/ ReadOrders(w) \/ GetCart(w) \/ EmptyCart(w) \/ AddToCart(w)
           \/ \E q \in Quotes : RemoveCartLine(w, q)
           \/ \E q, replacement \in Quotes : ChangeCartLine(w, q, replacement)
           \/ OpenCartForCheckout(w) \/ ReadRows(w)
           \/ IgnoreEvent(w) \/ RefundFails(w) \/ Crash(w)
    PROVE  Shows
<1>1. UNCHANGED Rows
  <2> USE DEF Rows, store, provider
  <2>1. CASE Arrival(w)
    BY <2>1 DEF Arrival, BeginCustomer, BeginAdd, BeginCheckout, Begin, BeginSandboxView,
       BeginRefund, Deliver, BeginTransition, BeginShipment, BeginCommand
  <2>2. ASSUME NEW c, CartBecomes(w, c) PROVE UNCHANGED Rows
    BY <2>2 DEF CartBecomes
  <2>3. ASSUME NEW q \in Quotes, NEW replacement \in Quotes,
               ChangeCartLine(w, q, replacement) PROVE UNCHANGED Rows
    BY <2>3 DEF ChangeCartLine
  <2>4. CASE OpenCartForCheckout(w) \/ IgnoreEvent(w) \/ RefundFails(w) \/ Crash(w)
    BY <2>4 DEF OpenCartForCheckout, IgnoreEvent, RefundFails, Crash
  <2>5. CASE ReadRows(w)
    BY <2>2, <2>5 DEF ReadRows
  <2> QED BY <2>1, <2>2, <2>3, <2>4, <2>5 DEF ReadOrders, GetCart, EmptyCart, AddToCart,
             RemoveCartLine
<1> QED BY <1>1, QuietShows

LEMMA EnvironmentShows ==
    ASSUME IInv, Environment \/ UNCHANGED vars PROVE Shows
<1>1. CASE UNCHANGED vars
  BY <1>1, QuietShows DEF vars, store, provider, Rows
<1>2. ASSUME NEW k \in Keys, CheckoutFallsDue(k) PROVE Shows
  BY <1>2, QuietShows DEF CheckoutFallsDue, provider, Rows
<1>3. ASSUME NEW q \in Quotes, QuoteLapses(q) \/ CreateQuote(q) PROVE Shows
  BY <1>3, QuietShows DEF QuoteLapses, CreateQuote, provider, Rows
<1>4. ASSUME NEW read, ExpireQuotes(read) PROVE Shows
  BY <1>4, QuietShows DEF ExpireQuotes, provider, Rows
<1> QED BY <1>1, <1>2, <1>3, <1>4, ProviderShows DEF Environment

\* The two ways to the end of a checkout that was not paid.
LEMMA DropShows ==
    ASSUME IInv, NEW w \in Workers,
           ProviderFails(w) \/ \E k \in Keys : ExpireAttempt(w, k)
    PROVE  Shows
<1>1. RequestKnows(req[w])
  BY Split
<1>2. ASSUME NEW k \in Keys, ExpireAttempt(w, k) PROVE Shows
  BY <1>1, <1>2, CancelShows DEF ExpireAttempt, RequestKnows, provider
<1>3. CASE ProviderFails(w)
  BY <1>1, <1>3, CancelShows DEF ProviderFails, RequestKnows, Placed, Points, provider
<1> QED BY <1>2, <1>3

LEMMA StoreSessionShows ==
    ASSUME IInv, NEW w \in Workers, StoreSession(w) PROVE Shows
<1>1. /\ \A l \in Keys : attempt'[l].status = attempt[l].status
      /\ UNCHANGED <<order, lines, reserved, work, history, outcome, session, refunds>>
  BY Split DEF StoreSession, provider, TypeOK, AttemptRow
<1> QED BY <1>1 DEF Shows, Shop!vars, Sold, Books, Referred, Answered

\* Every step of Commerce is a step of Purchases or is not seen.
LEMMA StepShows == ASSUME IInv, [Next]_vars PROVE Shows
<1>1. CASE Environment \/ UNCHANGED vars
  BY <1>1, EnvironmentShows
<1>2. ASSUME NEW w \in Workers, Arrival(w) \/ Proceed(w) PROVE Shows
  <2>1. CASE Customer(w)
    BY <2>1, HiddenSteps, DropShows, CheckOutShows, OpenSessionShows, StoreSessionShows
       DEF Customer
  <2>2. CASE Webhook(w)
    BY <2>2, HiddenSteps, ApplyPaymentShows, ReviewPaymentShows, ApplyCancellationShows,
       ApplyRefundShows, RecordEventShows DEF Webhook
  <2>3. CASE Administrator(w)
    BY <2>3, HiddenSteps, CommitTransitionShows, CommitShipmentShows, RefundShows
       DEF Administrator
  <2> QED BY <1>2, <2>1, <2>2, <2>3, HiddenSteps DEF Proceed
<1> QED BY <1>1, <1>2 DEF Next

-----------------------------------------------------------------------------
(* The theorems.                                                           *)

LEMMA NextInvariant ==
    ASSUME IInv, [Next]_vars PROVE IInv'
<1>1. CASE UNCHANGED vars
  <2>1. TypeOK'
    BY <1>1, Split DEF vars, store, provider, TypeOK
  <2> QED BY <1>1, <2>1, QuietStep DEF vars, store, provider, Rows
<1>2. CASE Environment
  <2>1. \A q \in Quotes : {q} \in SUBSET Quotes
    OBVIOUS
  <2> QED BY <1>2, <2>1, TimeStep, ProviderStep DEF Environment
<1>3. ASSUME NEW w \in Workers, Arrival(w) PROVE IInv'
  <2>1. CASE BeginCustomer(w)
    BY <2>1, BeginStep DEF BeginCustomer
  <2>2. ASSUME NEW q \in Quotes, BeginAdd(w, q) PROVE IInv'
    BY <2>2, BeginStep DEF BeginAdd
  <2>3. ASSUME NEW k \in Keys, BeginCheckout(w, k) PROVE IInv'
    BY <2>3, BeginStep DEF BeginCheckout
  <2> QED BY <1>3, <2>1, <2>2, <2>3, BeginSandboxViewStep, DeliverStep,
             CommandArrivalStep DEF Arrival
<1>4. ASSUME NEW w \in Workers, Proceed(w) PROVE IInv'
  <2>1. CASE Customer(w)
    BY <2>1, ExpireAttemptStep, CustomerCartStep, CheckoutCartStep, CheckOutStep,
       OpenSessionStep, ProviderFailsStep, StoreSessionStep DEF Customer
  <2>2. CASE Webhook(w)
    BY <2>2, ApplyPaymentStep, ReviewPaymentStep, ApplyCancellationStep,
       ApplyRefundStep, IgnoreEventStep, RecordEventStep DEF Webhook
  <2>3. CASE Administrator(w)
    BY <2>3, CommitTransitionStep, CommitShipmentStep, CommitRefundStep,
       SubmitRefundStep, EndStep DEF Administrator
  <2> QED BY <1>4, <2>1, <2>2, <2>3, EndStep DEF Proceed
<1> QED BY <1>1, <1>2, <1>3, <1>4 DEF Next

\* The inductive invariant holds always, for any sets of checkouts, quotes and
\* requests in progress, and for either provider.
THEOREM Invariance == Spec => []IInv
<1>1. Init => IInv
  BY InitInvariant
<1>2. IInv /\ [Next]_vars => IInv'
  BY NextInvariant
<1> QED BY <1>1, <1>2, PTL DEF Spec

\* Every row and every request holds values of its type.
THEOREM TypeCorrect == Spec => []TypeOK
<1>1. IInv => TypeOK
  BY DEF IInv
<1> QED BY <1>1, Invariance, PTL

\* An order is marked paid only when the provider has the money for it
\* (process_webhook is the only way to paid_at).
THEOREM PaidOrdersWereCharged == Spec => []PaidWasCharged
<1>1. IInv => PaidWasCharged
  BY DEF IInv, PaymentInvariant
<1> QED BY <1>1, Invariance, PTL

\* Images are held while the customer may pay, and only then or while the
\* payment is under review (_cancel_attempt, _promote_assets, transition_order).
THEOREM ImagesAreHeld == Spec => [](PendingHoldsImages /\ HeldOnlyWhileOpen)
<1>1. IInv => PendingHoldsImages /\ HeldOnlyWhileOpen
  BY DEF IInv, PaymentInvariant
<1> QED BY <1>1, Invariance, PTL

\* A paid order has a work row for each of its lines, and no other order has any,
\* whatever raced with the payment or crashed after it.
THEOREM PaidOrdersArePlanned == Spec => []WorkForPaidLines
<1>1. IInv => WorkForPaidLines
  BY DEF IInv, PaymentInvariant
<1> QED BY <1>1, Invariance, PTL

\* A paid order has its own copies of its images, unless they had been given
\* back before the payment was processed (_promote_assets).
THEOREM PaidOrdersKeepImages == Spec => []PaidKeepsImages
<1>1. IInv => PaidKeepsImages
  BY DEF IInv, PaymentInvariant
<1> QED BY <1>1, Invariance, PTL

\* A success that was acknowledged left a paid order or a review, also if the
\* process died between the effect and its record.
THEOREM SuccessesAreKept == Spec => []SuccessIsKept
<1>1. IInv => SuccessIsKept
  BY DEF IInv, PaymentInvariant
<1> QED BY <1>1, Invariance, PTL

\* The provider is asked only for money it has, and a refund is booked only when
\* it was asked.
THEOREM RefundsMoveMoney == Spec => []RefundMovesMoney
<1>1. IInv => RefundMovesMoney
  BY DEF IInv, PaymentInvariant
<1> QED BY <1>1, Invariance, PTL

\* A cart that waits for a checkout waits for one that can still end.
THEOREM CartIsNeverStuck == Spec => []CartNotStuck
<1>1. IInv => CartNotStuck
  BY DEF IInv
<1> QED BY <1>1, Invariance, PTL

\* A quote is sold once, with any number of requests in progress, as long as a
\* checkout that read its lines without the lock of the cart has no other beside
\* it.
THEOREM QuotesAreSoldOnce == Spec /\ []UnlockedAlone => []QuoteSoldOnce
<1>1. Init => SaleInv
  BY DEF Init, SaleInv, QuoteSoldOnce, Idle
<1>2. IInv /\ UnlockedAlone /\ SaleInv /\ [Next]_vars => SaleInv'
  BY NextSale
<1>3. SaleInv => QuoteSoldOnce
  BY DEF SaleInv
<1> QED BY <1>1, <1>2, <1>3, Invariance, PTL DEF Spec

\* Commerce implements Purchases: with stale rows, late and repeated events and
\* crashes between the transactions, the money, the goods and the books of every
\* checkout still move by the atomic steps of the abstract specification.
THEOREM PurchasesImplemented == Spec => PurchasesAreKept
<1>1. Init => Shop!Init
  BY DEF Init, Shop!Init, NoOrder, NoAttempt, Sold, Books, Referred, Answered, EventKinds
<1>2. IInv /\ [Next]_vars => [Shop!Next]_Shop!vars
  BY StepShows DEF Shows
<1> QED BY <1>1, <1>2, Invariance, PTL DEF Spec, PurchasesAreKept, Shop!Spec
=============================================================================
