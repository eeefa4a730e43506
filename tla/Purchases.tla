------------------------------ MODULE Purchases ------------------------------
(***************************************************************************)
(* What the shop promises of a checkout, from its order to its refund: the *)
(* money, the goods and the books agree after every single step.  Here     *)
(* every step is atomic.  Commerce implements it with requests that read   *)
(* in one transaction and write in another, events that come late or       *)
(* twice, and a server that may die in between.                            *)
(***************************************************************************)

CONSTANTS
    Keys,       \* the checkouts
    Quotes,     \* what can be ordered
    CustomQuotes    \* what needs an image of the customer's

VARIABLES
    contents,   \* what was ordered in each checkout
    held,       \* the images that are held for it
    money,      \* the customer's money: not asked for, asked for, or paid
    returned,   \* the checkouts whose money was asked back from the provider
    sold,       \* the checkouts whose payment was accepted
    planned,    \* what production was told to make
    books,      \* what the shop's books say of the payment
    referred,   \* the checkouts a person was asked to look at
    answered    \* the checkouts whose payment was acknowledged to the provider

vars == <<contents, held, money, returned, sold, planned, books, referred, answered>>

Init ==
    /\ contents = [k \in Keys |-> {}]
    /\ held = [k \in Keys |-> {}]
    /\ money = [k \in Keys |-> "none"]
    /\ planned = [k \in Keys |-> {}]
    /\ books = [k \in Keys |-> "none"]
    /\ returned = {} /\ sold = {} /\ referred = {} /\ answered = {}

Placed == {k \in Keys : books[k] # "none"}

\* An order is placed once, is never empty, and its images are held from then.
Place(k, items) ==
    /\ k \notin Placed
    /\ items # {}
    /\ contents' = [contents EXCEPT ![k] = items]
    /\ held' = [held EXCEPT ![k] = items \cap CustomQuotes]
    /\ books' = [books EXCEPT ![k] = "pending"]
    /\ UNCHANGED <<money, returned, sold, planned, referred, answered>>

\* The customer is asked for the money of an order, once ...
Offer(k) ==
    /\ k \in Placed /\ money[k] = "none"
    /\ money' = [money EXCEPT ![k] = "open"]
    /\ UNCHANGED <<contents, held, returned, sold, planned, books, referred, answered>>

\* ... and pays it, once.
Pay(k) ==
    /\ money[k] = "open" /\ k \notin sold
    /\ money' = [money EXCEPT ![k] = "paid"]
    /\ UNCHANGED <<contents, held, returned, sold, planned, books, referred, answered>>

\* The checkout is given up and its images are let go.  That the books say so
\* of a checkout that is sold takes nothing from the sale.
Drop(k, reason) ==
    /\ k \in Placed
    /\ held' = [held EXCEPT ![k] = {}]
    /\ books' = [books EXCEPT ![k] = reason]
    /\ UNCHANGED <<contents, money, returned, sold, planned, referred, answered>>

\* Money that was paid is accepted, and with it production is told of all
\* that was ordered: never a part of it, never without the money.
Sell(k) ==
    /\ money[k] = "paid"
    /\ sold' = sold \cup {k}
    /\ planned' = [planned EXCEPT ![k] = contents[k]]
    /\ held' = [held EXCEPT ![k] = {}]
    /\ books' = [books EXCEPT ![k] = "paid"]
    /\ UNCHANGED <<contents, money, returned, referred, answered>>

\* A person is asked to look at the checkout, which keeps what it holds.
Refer(k) ==
    /\ k \in Placed
    /\ referred' = referred \cup {k}
    /\ books' \in {books, [books EXCEPT ![k] = "manual_review"]}
    /\ UNCHANGED <<contents, held, money, returned, sold, planned, answered>>

\* The provider's report of the payment is acknowledged, which ends its
\* redelivery: only when the money was accepted or a person knows of it.
Answer(k) ==
    /\ k \in sold \cup referred
    /\ answered' = answered \cup {k}
    /\ UNCHANGED <<contents, held, money, returned, sold, planned, books, referred>>

\* A refund is begun for what was sold, ...
BeginRefund(k) ==
    /\ k \in sold
    /\ books' = [books EXCEPT ![k] = "refund_pending"]
    /\ UNCHANGED <<contents, held, money, returned, sold, planned, referred, answered>>

\* ... the provider is asked for it, which the customer must have paid, ...
Return(k) ==
    /\ money[k] = "paid"
    /\ returned' = returned \cup {k}
    /\ UNCHANGED <<contents, held, money, sold, planned, books, referred, answered>>

\* ... and only then do the books say so.
EndRefund(k) ==
    /\ k \in sold \cap returned
    /\ books' = [books EXCEPT ![k] = "refunded"]
    /\ UNCHANGED <<contents, held, money, returned, sold, planned, referred, answered>>

Step(k) ==
    \/ \E items \in SUBSET Quotes : Place(k, items)
    \/ \E reason \in {"cancelled", "failed"} : Drop(k, reason)
    \/ Offer(k) \/ Pay(k) \/ Sell(k) \/ Refer(k) \/ Answer(k)
    \/ BeginRefund(k) \/ Return(k) \/ EndRefund(k)

Next == \E k \in Keys : Step(k)

Spec == Init /\ [][Next]_vars
=============================================================================
