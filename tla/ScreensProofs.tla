--------------------------- MODULE ScreensProofs ---------------------------
(***************************************************************************)
(* Proofs about the screens that load resources: the administrator's       *)
(* (Operating), the projects (Projects) and the shop's (Shopping), for any *)
(* number of filters, orders, projects, sessions and calls in flight.      *)
(*                                                                         *)
(* None of the three properties is inductive: each is about data that      *)
(* settled under some key, perhaps long ago, so the invariants follow      *)
(* every resource from its key over the answer that is on its way to what  *)
(* settled, also under a key that is not shown.                            *)
(***************************************************************************)
EXTENDS OpeningProofs, DesignProofs, SessionProofs

\* The fields of what a resource remembers.
Hook(r) == DOMAIN r = {"deps", "load", "settled", "data", "error", "fresh", "background"}

-----------------------------------------------------------------------------
(* The production queue and the orders of the administration. *)

Rows == [filters : Filters, revision : Nat]
OperatingShape(p, s) ==
    /\ DOMAIN p = {"session", "admin", "screen", "filters", "queue", "orders",
                   "message", "refused", "selected", "question"}
    /\ Hook(p.queue) /\ Hook(p.orders)
    /\ p.filters \in Filters /\ p.refused \in Nat
    /\ DOMAIN s = {"sessions", "refunded", "revision"} /\ s.revision \in Nat

\* Whatever is on its way or settled is as new as what refused the last action,
\* unless it was asked for again since.
NewEnough(p, row) == p.message = "refused" => p.refused <= row.revision

\* The queue is asked for under the key of the screen.  What is on its way is of
\* the filters of the screen, what settled of those it settled under.
QueueKept(p, revision) ==
    LET r == p.queue
    IN  /\ r.deps = Operating!Key(p) /\ ~r.background
        /\ r.load # None => r.deps # None
        /\ r.data \in Rows \cup {None}
        /\ r.data # None => r.data.revision <= revision
        /\ p.message = "refused" => p.refused <= revision
        /\ r.load \notin {None, Asked} =>
             /\ r.load \in Rows /\ r.load.filters = p.filters
             /\ r.load.revision <= revision /\ NewEnough(p, r.load)
        /\ r.settled # None /\ ~r.error /\ r.data # None =>
             /\ r.data.filters = r.settled[2]
             /\ r.fresh => NewEnough(p, r.data)

\* The orders that settled are those of the session they settled under.
OrdersKept(p) ==
    LET r == p.orders
    IN  /\ r.deps = Operating!AdminKey(p)
        /\ r.load # None => r.deps # None
        /\ r.settled # None /\ r.data # None => r.settled = <<r.data>>

\* Actions carry the key they were sent under, and no revision to come.
ActionsKept(c, revision) == \A u \in c :
    IF u.name = "update"
    THEN /\ DOMAIN u = {"name", "key", "answer", "revision"} /\ u.key # None
         /\ u.revision \in Nat /\ u.revision <= revision
    ELSE u.key = <<u.key[1]>>

OperatingGood(p, c, s) ==
    /\ OperatingShape(p, s)
    /\ QueueKept(p, s.revision) /\ OrdersKept(p) /\ ActionsKept(c, s.revision)
OperatingInv == OperatingGood(page, calls, server)

\* A screen whose key may have changed asks anew, and remembers the rest.
LEMMA OperatingKeyed ==
    ASSUME NEW p, NEW q, NEW s, OperatingShape(p, s), OperatingShape(q, s),
           QueueKept(p, s.revision), OrdersKept(p),
           q.queue = p.queue, q.orders = p.orders, q.refused = p.refused,
           q.message \in {p.message, "none"}
    PROVE  LET n == Operating!Keyed(q)
           IN  /\ OperatingShape(n, s)
               /\ QueueKept(n, s.revision) /\ OrdersKept(n)
<1> DEFINE n == Operating!Keyed(q)
           queue == Operating!Rekeyed(q.queue, Operating!Key(q))
           orders == Operating!Rekeyed(q.orders, Operating!AdminKey(q))
<1>1. /\ Hook(queue) /\ queue.deps = Operating!Key(q) /\ queue.settled = p.queue.settled
      /\ queue.data = p.queue.data /\ queue.error = p.queue.error
      /\ queue.fresh = p.queue.fresh /\ queue.background = p.queue.background
      /\ \/ Operating!Key(q) = Operating!Key(p) /\ queue.load = p.queue.load
         \/ queue.load = IF Operating!Key(q) = None THEN None ELSE Asked
  BY DEF Operating!Rekeyed, Hook, OperatingShape, QueueKept
<1>2. /\ Hook(orders) /\ orders.deps = Operating!AdminKey(q)
      /\ orders.settled = p.orders.settled /\ orders.data = p.orders.data
      /\ \/ Operating!AdminKey(q) = Operating!AdminKey(p) /\ orders.load = p.orders.load
         \/ orders.load = IF Operating!AdminKey(q) = None THEN None ELSE Asked
  BY DEF Operating!Rekeyed, Hook, OperatingShape, OrdersKept
<1> HIDE DEF queue, orders
<1>3. n = [q EXCEPT !.queue = queue, !.orders = orders]
  BY DEF Operating!Keyed, queue, orders
<1>4. /\ OperatingShape(n, s) /\ n.queue = queue /\ n.orders = orders
      /\ n.session = q.session /\ n.admin = q.admin /\ n.screen = q.screen
      /\ n.filters = q.filters /\ n.message = q.message /\ n.refused = q.refused
  BY <1>1, <1>2, <1>3 DEF OperatingShape
<1> HIDE DEF n
<1>5. /\ Operating!Key(n) = Operating!Key(q)
      /\ Operating!AdminKey(n) = Operating!AdminKey(q)
  BY <1>4 DEF Operating!Key, Operating!AdminKey
<1>6. Operating!Key(q) = Operating!Key(p) /\ Operating!Key(p) # None
        => q.filters = p.filters
  BY DEF Operating!Key
<1>7. QueueKept(n, s.revision)
  BY <1>1, <1>4, <1>5, <1>6 DEF QueueKept, NewEnough
<1>8. OrdersKept(n)
  BY <1>2, <1>4, <1>5 DEF OrdersKept
<1> QED
  BY <1>4, <1>7, <1>8 DEF n

\* Steps that change the page only, and leave what the screen is keyed by.
LEMMA QueueStepsKeep ==
    ASSUME OperatingInv,
           \/ Operating!Refresh \/ Operating!QueueServed \/ Operating!QueueAnswers
           \/ Operating!QueueFails \/ Operating!AskRefund \/ Operating!OrdersAnswer
    PROVE  OperatingGood(page', calls, server)
<1> USE DEF OperatingInv, OperatingGood
<1>1. CASE Operating!Refresh
  <2> DEFINE r == Operating!Reloaded(page.queue, Operating!Key(page), FALSE)
  <2>1. /\ Hook(r) /\ r.deps = page.queue.deps /\ r.settled = page.queue.settled
        /\ r.data = page.queue.data /\ r.error = page.queue.error
        /\ ~r.fresh /\ ~r.background
        /\ r.load = IF page.queue.deps = None THEN None ELSE Asked
    BY <1>1 DEF Operating!Refresh, Operating!Reloaded, Hook, OperatingShape
  <2>2. page' = [page EXCEPT !.message = "none", !.queue = r]
    BY <1>1 DEF Operating!Refresh
  <2> HIDE DEF r
  <2>3. /\ OperatingShape(page', server) /\ page'.queue = r /\ page'.orders = page.orders
        /\ page'.message = "none" /\ page'.filters = page.filters
        /\ Operating!Key(page') = Operating!Key(page)
        /\ Operating!AdminKey(page') = Operating!AdminKey(page)
    BY <2>1, <2>2 DEF OperatingShape, Operating!Key, Operating!AdminKey
  <2> QED
    BY <2>1, <2>3 DEF QueueKept, OrdersKept, NewEnough
<1>2. CASE Operating!QueueServed
  <2> DEFINE row == [filters |-> page.filters, revision |-> server.revision]
  <2>1. /\ row \in Rows /\ row.filters = page.filters
        /\ row.revision = server.revision /\ server.revision \in Nat
    BY DEF Rows, OperatingShape
  <2>2. page' = [page EXCEPT !.queue.load = row]
    BY <1>2 DEF Operating!QueueServed
  <2> HIDE DEF row
  <2>3. /\ OperatingShape(page', server) /\ page'.orders = page.orders
        /\ page'.queue = [page.queue EXCEPT !.load = row]
        /\ page'.message = page.message /\ page'.filters = page.filters
        /\ page'.refused = page.refused
        /\ Operating!Key(page') = Operating!Key(page)
        /\ Operating!AdminKey(page') = Operating!AdminKey(page)
    BY <2>2 DEF OperatingShape, Operating!Key, Operating!AdminKey, Hook
  <2>4. page.queue.load # None
    BY <1>2, VisitAssumption DEF Operating!QueueServed
  <2>5. /\ page'.queue.load = row /\ page'.queue.deps = page.queue.deps
        /\ page'.queue.settled = page.queue.settled /\ page'.queue.data = page.queue.data
        /\ page'.queue.error = page.queue.error /\ page'.queue.fresh = page.queue.fresh
        /\ page'.queue.background = page.queue.background
    BY <2>3 DEF OperatingShape, Hook
  <2>6. QueueKept(page', server.revision)
    BY <2>1, <2>3, <2>4, <2>5 DEF QueueKept, NewEnough
  <2> QED
    BY <2>3, <2>6 DEF OrdersKept
<1>3. CASE Operating!QueueAnswers \/ Operating!QueueFails
  <2> DEFINE r == page'.queue
  <2>1. /\ page' = [page EXCEPT !.queue = r]
        /\ \/ /\ page.queue.load \notin {None, Asked}
              /\ r = Operating!Loaded(page.queue, page.queue.load)
           \/ page.queue.load # None /\ r = Operating!LoadFailed(page.queue, TRUE)
    BY <1>3 DEF Operating!QueueAnswers, Operating!QueueFails, OperatingShape
  <2>2. /\ Hook(r) /\ r.deps = page.queue.deps /\ r.settled = page.queue.deps
        /\ r.background = page.queue.background /\ r.load = None
        /\ \/ /\ page.queue.load \notin {None, Asked} /\ r.data = page.queue.load
           \/ r.error /\ r.data = page.queue.data
    BY <2>1 DEF Operating!Loaded, Operating!LoadFailed, Hook, OperatingShape
  <2>3. /\ OperatingShape(page', server) /\ page'.orders = page.orders
        /\ page'.message = page.message /\ page'.filters = page.filters
        /\ page'.refused = page.refused
        /\ Operating!Key(page') = Operating!Key(page)
        /\ Operating!AdminKey(page') = Operating!AdminKey(page)
    BY <2>1, <2>2 DEF OperatingShape, Operating!Key, Operating!AdminKey
  <2> HIDE DEF r
  <2>4. page.queue.deps # None /\ page.queue.deps[2] = page.filters
    <3>1. page.queue.deps # None /\ page.queue.deps = Operating!Key(page)
      BY <2>1 DEF QueueKept
    <3>2. Operating!Key(page) = <<page.session, page.filters>>
      BY <3>1 DEF Operating!Key
    <3> QED
      BY <3>1, <3>2
  <2>5. page'.queue = r
    BY DEF r
  <2>6. QueueKept(page', server.revision)
    BY <2>2, <2>3, <2>4, <2>5 DEF QueueKept, NewEnough
  <2> QED
    BY <2>3, <2>6 DEF OrdersKept
<1>4. CASE Operating!AskRefund
  <2>1. page' = [page EXCEPT !.question = ~@]
    BY <1>4 DEF Operating!AskRefund
  <2>2. /\ OperatingShape(page', server) /\ page'.orders = page.orders
        /\ page'.queue = page.queue
        /\ page'.message = page.message /\ page'.filters = page.filters
        /\ page'.refused = page.refused
        /\ Operating!Key(page') = Operating!Key(page)
        /\ Operating!AdminKey(page') = Operating!AdminKey(page)
    BY <2>1 DEF OperatingShape, Operating!Key, Operating!AdminKey
  <2> QED
    BY <2>2 DEF QueueKept, OrdersKept, NewEnough
<1>5. CASE Operating!OrdersAnswer
  <2>1. PICK r : /\ page' = [page EXCEPT !.orders = r]
                 /\ \/ r = Operating!Loaded(page.orders, page.session)
                    \/ r = Operating!LoadFailed(page.orders, FALSE)
    BY <1>5 DEF Operating!OrdersAnswer
  <2>2. /\ Hook(r) /\ r.deps = page.orders.deps /\ r.settled = page.orders.deps
        /\ r.load = None
        /\ \/ r.data = page.session
           \/ r.data = IF page.orders.settled = page.orders.deps THEN page.orders.data
                       ELSE None
    BY <2>1 DEF Operating!Loaded, Operating!LoadFailed, Hook, OperatingShape
  <2>3. /\ OperatingShape(page', server) /\ page'.orders = r /\ page'.queue = page.queue
        /\ page'.message = page.message /\ page'.filters = page.filters
        /\ page'.refused = page.refused
        /\ Operating!Key(page') = Operating!Key(page)
        /\ Operating!AdminKey(page') = Operating!AdminKey(page)
    BY <2>1, <2>2 DEF OperatingShape, Operating!Key, Operating!AdminKey
  <2>4. page.orders.deps # None => page.orders.deps = <<page.session>>
    BY DEF OrdersKept, Operating!AdminKey
  <2> QED
    BY <2>2, <2>3, <2>4 DEF QueueKept, OrdersKept, NewEnough
<1> QED
  BY <1>1, <1>2, <1>3, <1>4, <1>5

\* An action is sent with the revision that is shown, under the key of the screen.
LEMMA SendingKeeps ==
    ASSUME OperatingInv,
           \/ Operating!Update \/ Operating!ChangeOrder \/ Operating!Refund
           \/ \E order \in Orders : Operating!OpenOrder(order)
    PROVE  OperatingGood(page', calls', server)
<1> USE DEF OperatingInv, OperatingGood
<1>1. CASE Operating!Update
  <2> DEFINE u == [name |-> "update", key |-> Operating!Key(page), answer |-> Asked,
                   revision |-> Operating!Queue(page).revision]
  <2>1. /\ Operating!Key(page) # None /\ page.queue.data # None
        /\ Operating!Queue(page) = page.queue.data
    BY <1>1 DEF Operating!Update, Operating!Queue, Operating!DataFor
  <2>2. page.queue.data.revision \in Nat /\ page.queue.data.revision <= server.revision
    BY <2>1 DEF QueueKept, Rows
  <2>3. calls' = calls \cup {u} /\ page' = [page EXCEPT !.message = "none"]
    BY <1>1 DEF Operating!Update
  <2>4. /\ u.name = "update" /\ DOMAIN u = {"name", "key", "answer", "revision"}
        /\ u.key = Operating!Key(page) /\ u.revision = page.queue.data.revision
    BY <2>1
  <2> HIDE DEF u
  <2>5. ActionsKept(calls', server.revision)
    BY <2>1, <2>2, <2>3, <2>4 DEF ActionsKept
  <2>6. /\ OperatingShape(page', server) /\ page'.orders = page.orders
        /\ page'.queue = page.queue
        /\ page'.message = "none" /\ page'.filters = page.filters
        /\ Operating!Key(page') = Operating!Key(page)
        /\ Operating!AdminKey(page') = Operating!AdminKey(page)
    BY <2>3 DEF OperatingShape, Operating!Key, Operating!AdminKey
  <2> QED
    BY <2>5, <2>6 DEF QueueKept, OrdersKept, NewEnough
<1>2. ASSUME NEW name \in {"open", "change", "refund"}, NEW order,
             Operating!AdminReady, Operating!Action(name, order), UNCHANGED page
      PROVE  OperatingGood(page', calls', server)
  <2> DEFINE a == [name |-> name, key |-> Operating!AdminKey(page), order |-> order]
  <2>1. calls' = calls \cup {a}
    BY <1>2 DEF Operating!Action
  <2>2. a.name = name /\ a.key = <<page.session>>
    BY <1>2 DEF Operating!AdminReady, Operating!AdminKey
  <2> HIDE DEF a
  <2>3. a.key = <<a.key[1]>> /\ a.name # "update"
    BY <2>2
  <2> QED
    BY <1>2, <2>1, <2>3 DEF ActionsKept
<1> QED
  BY <1>1, <1>2 DEF Operating!ChangeOrder, Operating!Refund, Operating!OpenOrder

\* A newer revision of the work takes nothing back.
LEMMA NewerRevisionKeeps ==
    ASSUME NEW p, NEW c, NEW old \in Nat, NEW new \in Nat, old <= new,
           QueueKept(p, old), ActionsKept(c, old), p.refused \in Nat
    PROVE  QueueKept(p, new) /\ ActionsKept(c, new)
<1>1. QueueKept(p, new)
  <2>1. p.queue.data # None => p.queue.data.revision \in Nat
    BY DEF QueueKept, Rows
  <2>2. p.queue.load \notin {None, Asked} => p.queue.load.revision \in Nat
    BY DEF QueueKept, Rows
  <2> QED
    BY <2>1, <2>2 DEF QueueKept
<1>2. ActionsKept(c, new)
  BY DEF ActionsKept
<1> QED
  BY <1>1, <1>2

\* The server decides about an action; its answer has the revision that is there.
LEMMA ServingKeeps ==
    ASSUME OperatingInv,
           Operating!WorkElsewhere \/ \E u \in calls : Operating!UpdateServed(u)
    PROVE  OperatingGood(page', calls', server')
<1> USE DEF OperatingInv, OperatingGood
<1>1. /\ UNCHANGED page
      /\ server' = server \/ server' = [server EXCEPT !.revision = @ + 1]
  BY DEF Operating!WorkElsewhere, Operating!UpdateServed
<1>2. /\ server.revision \in Nat /\ server'.revision \in Nat
      /\ server.revision <= server'.revision /\ OperatingShape(page, server')
  BY <1>1 DEF OperatingShape
<1>3. QueueKept(page, server'.revision) /\ ActionsKept(calls, server'.revision)
  BY <1>2, NewerRevisionKeeps DEF OperatingShape
<1>4. ActionsKept(calls', server'.revision)
  <2>1. CASE Operating!WorkElsewhere
    BY <2>1, <1>3 DEF Operating!WorkElsewhere
  <2>2. ASSUME NEW u \in calls, Operating!UpdateServed(u)
        PROVE  ActionsKept(calls', server'.revision)
    <3>1. PICK answer : calls' = (calls \ {u}) \cup
                {[u EXCEPT !.answer = answer, !.revision = server'.revision]}
      BY <2>2 DEF Operating!UpdateServed
    <3> DEFINE v == [u EXCEPT !.answer = answer, !.revision = server'.revision]
    <3>2. u.name = "update" /\ DOMAIN u = {"name", "key", "answer", "revision"}
          /\ u.key # None
      BY <2>2 DEF Operating!UpdateServed, ActionsKept
    <3>3. /\ v.name = "update" /\ DOMAIN v = {"name", "key", "answer", "revision"}
          /\ v.key = u.key /\ v.revision = server'.revision
      BY <3>2
    <3>4. calls' = (calls \ {u}) \cup {v}
      BY <3>1
    <3> HIDE DEF v
    <3> QED
      BY <1>2, <1>3, <3>2, <3>3, <3>4 DEF ActionsKept
  <2> QED
    BY <2>1, <2>2
<1> QED
  BY <1>1, <1>2, <1>3, <1>4

\* An action is answered: a refused one makes what is shown old.
LEMMA UpdateAnswersKeeps ==
    ASSUME OperatingInv, NEW u \in calls, Operating!UpdateAnswers(u)
    PROVE  OperatingGood(page', calls', server)
<1> USE DEF OperatingInv, OperatingGood
<1>1. /\ u.key # None /\ u.revision \in Nat /\ u.revision <= server.revision
      /\ calls' = calls \ {u}
  BY DEF Operating!UpdateAnswers, ActionsKept
<1>2. ActionsKept(calls', server.revision)
  BY <1>1 DEF ActionsKept
<1>3. CASE u.answer = "success"
  <2> DEFINE row == IF page.queue.data = None THEN None
                    ELSE [page.queue.data EXCEPT !.revision = u.revision]
             r == Operating!Updated(page.queue, u.key, TRUE, row)
  <2>1. page' = [page EXCEPT !.message = "success", !.queue = r]
    BY <1>3 DEF Operating!UpdateAnswers
  <2>2. page.queue.data # None => /\ row \in Rows /\ row.revision = u.revision
                                  /\ row.filters = page.queue.data.filters
    BY <1>1 DEF QueueKept, Rows
  <2> HIDE DEF row
  <2>3. /\ Hook(r) /\ r.deps = page.queue.deps /\ r.settled = page.queue.settled
        /\ r.error = page.queue.error /\ r.load = page.queue.load
        /\ r.background = page.queue.background
        /\ \/ r.data = page.queue.data
           \/ page.queue.data # None /\ r.data = row
    BY DEF Operating!Updated, Hook, OperatingShape
  <2> HIDE DEF r
  <2>4. /\ OperatingShape(page', server) /\ page'.orders = page.orders
        /\ page'.queue = r
        /\ page'.message = "success" /\ page'.filters = page.filters
        /\ Operating!Key(page') = Operating!Key(page)
        /\ Operating!AdminKey(page') = Operating!AdminKey(page)
    BY <2>1, <2>3 DEF OperatingShape, Operating!Key, Operating!AdminKey
  <2>5. QueueKept(page', server.revision)
    BY <1>1, <2>2, <2>3, <2>4 DEF QueueKept, NewEnough
  <2> QED
    BY <1>2, <2>4, <2>5 DEF OrdersKept
<1>4. CASE u.answer # "success"
  <2> DEFINE r == Operating!Reloaded(page.queue, u.key, FALSE)
             least == IF u.answer = "conflict" THEN u.revision ELSE 0
  <2>1. page' = [page EXCEPT !.message = "refused", !.queue = r, !.refused = least]
    BY <1>4 DEF Operating!UpdateAnswers
  <2>2. /\ Hook(r) /\ r.deps = page.queue.deps /\ r.settled = page.queue.settled
        /\ r.data = page.queue.data /\ r.error = page.queue.error
        /\ ~r.fresh /\ ~r.background
        /\ r.load = IF page.queue.deps = None THEN None ELSE Asked
    BY <1>1 DEF Operating!Reloaded, Hook, OperatingShape
  <2>3. least \in Nat /\ least <= server.revision
    BY <1>1 DEF OperatingShape
  <2> HIDE DEF r, least
  <2>4. /\ OperatingShape(page', server) /\ page'.orders = page.orders
        /\ page'.queue = r /\ page'.refused = least
        /\ page'.filters = page.filters
        /\ Operating!Key(page') = Operating!Key(page)
        /\ Operating!AdminKey(page') = Operating!AdminKey(page)
    BY <2>1, <2>2, <2>3 DEF OperatingShape, Operating!Key, Operating!AdminKey
  <2>5. QueueKept(page', server.revision)
    BY <2>2, <2>3, <2>4 DEF QueueKept, NewEnough
  <2> QED
    BY <1>2, <2>4, <2>5 DEF OrdersKept
<1> QED
  BY <1>3, <1>4

\* An action of the administration is answered; the order it was about is shown.
LEMMA ActionAnswersKeeps ==
    ASSUME OperatingInv, NEW a \in calls, Operating!ActionAnswers(a)
    PROVE  OperatingGood(page', calls', server')
<1> USE DEF OperatingInv, OperatingGood
<1>1. /\ a.key = <<a.key[1]>> /\ calls' = calls \ {a}
  BY DEF Operating!ActionAnswers, ActionsKept
<1>2. server'.revision = server.revision /\ DOMAIN server' = DOMAIN server
  BY DEF Operating!ActionAnswers, OperatingShape
<1>3. ActionsKept(calls', server'.revision)
  BY <1>1, <1>2 DEF ActionsKept
<1>4. CASE UNCHANGED page
  BY <1>2, <1>3, <1>4 DEF OperatingShape
<1>5. CASE ~UNCHANGED page
  <2> DEFINE r == IF a.name = "open" THEN page.orders
                  ELSE Operating!Updated(page.orders, a.key, FALSE, a.key[1])
             asks == page.question /\ a.name # "refund"
  <2>1. page' = [page EXCEPT !.selected = a.order, !.question = asks, !.orders = r]
    BY <1>5 DEF Operating!ActionAnswers
  <2>2. /\ Hook(r) /\ r.deps = page.orders.deps /\ r.settled = page.orders.settled
        /\ r.load = page.orders.load
        /\ \/ r.data = page.orders.data
           \/ page.orders.settled = a.key /\ r.data = a.key[1]
    BY DEF Operating!Updated, Hook, OperatingShape
  <2> HIDE DEF r, asks
  <2>3. /\ OperatingShape(page', server') /\ page'.orders = r
        /\ page'.queue = page.queue
        /\ page'.message = page.message /\ page'.filters = page.filters
        /\ page'.refused = page.refused
        /\ Operating!Key(page') = Operating!Key(page)
        /\ Operating!AdminKey(page') = Operating!AdminKey(page)
    BY <1>2, <2>1, <2>2 DEF OperatingShape, Operating!Key, Operating!AdminKey
  <2>4. OrdersKept(page')
    BY <1>1, <2>2, <2>3 DEF OrdersKept
  <2> QED
    BY <1>2, <1>3, <2>3, <2>4 DEF QueueKept, NewEnough
<1> QED
  BY <1>4, <1>5

\* Other filters, and a session that starts or ends.
LEMMA KeysKeep ==
    ASSUME OperatingInv,
           \/ \E f \in Filters : Operating!ChooseFilters(f)
           \/ Operating!SignIn \/ Operating!SessionEnds
    PROVE  OperatingGood(page', calls', server')
<1> USE DEF OperatingInv, OperatingGood
<1>1. /\ UNCHANGED calls /\ server'.revision = server.revision
      /\ DOMAIN server' = DOMAIN server
  BY DEF Operating!ChooseFilters, Operating!SignIn, Operating!SessionEnds, OperatingShape
<1>2. ASSUME NEW q, page' = Operating!Keyed(q), OperatingShape(q, server'),
             q.queue = page.queue, q.orders = page.orders,
             q.refused = page.refused, q.message \in {page.message, "none"}
      PROVE  OperatingGood(page', calls', server')
  <2>1. OperatingShape(page, server')
    BY <1>1 DEF OperatingShape
  <2> QED
    BY <1>1, <1>2, <2>1, OperatingKeyed
<1>3. ASSUME NEW f \in Filters, Operating!ChooseFilters(f)
      PROVE  OperatingGood(page', calls', server')
  <2> DEFINE q == [page EXCEPT !.filters = f, !.message = "none"]
  <2>1. page' = Operating!Keyed(q)
    BY <1>3 DEF Operating!ChooseFilters
  <2>2. /\ OperatingShape(q, server') /\ q.queue = page.queue /\ q.orders = page.orders
        /\ q.refused = page.refused /\ q.message = "none"
    BY <1>1 DEF OperatingShape
  <2> QED
    BY <1>2, <2>1, <2>2
<1>4. CASE Operating!SignIn
  <2>1. PICK admin : page' = Operating!Keyed(
                [page EXCEPT !.session = server.sessions + 1, !.admin = admin])
    BY <1>4 DEF Operating!SignIn
  <2> DEFINE q == [page EXCEPT !.session = server.sessions + 1, !.admin = admin]
  <2>2. /\ OperatingShape(q, server') /\ q.queue = page.queue /\ q.orders = page.orders
        /\ q.refused = page.refused /\ q.message = page.message
    BY <1>1 DEF OperatingShape
  <2> QED
    BY <1>2, <2>1, <2>2
<1>5. CASE Operating!SessionEnds
  <2> DEFINE q == [page EXCEPT !.session = None, !.admin = FALSE]
  <2>1. page' = Operating!Keyed(q)
    BY <1>5 DEF Operating!SessionEnds
  <2>2. /\ OperatingShape(q, server') /\ q.queue = page.queue /\ q.orders = page.orders
        /\ q.refused = page.refused /\ q.message = page.message
    BY <1>1 DEF OperatingShape
  <2> QED
    BY <1>2, <2>1, <2>2
<1> QED
  BY <1>3, <1>4, <1>5

LEMMA OperatingInitKeeps == ASSUME Operating!Init PROVE OperatingInv
<1>1. PICK screen \in {"production", "admin"}, f \in Filters :
        page = Operating!Screen(1, TRUE, screen, f)
  BY DEF Operating!Init
<1> DEFINE q == [session |-> 1, admin |-> TRUE, screen |-> screen, filters |-> f,
                 queue |-> Operating!EmptyResource, orders |-> Operating!EmptyResource,
                 message |-> "none", refused |-> 0, selected |-> None,
                 question |-> FALSE]
           p == [q EXCEPT !.session = None]
<1>2. page = Operating!Keyed(q)
  BY <1>1 DEF Operating!Screen
<1>3. calls = {} /\ server.revision = 1
      /\ DOMAIN server = {"sessions", "refunded", "revision"}
  BY DEF Operating!Init
<1>4. OperatingShape(p, server) /\ OperatingShape(q, server)
  BY <1>3 DEF OperatingShape, Hook, Operating!EmptyResource
<1>5. QueueKept(p, server.revision) /\ OrdersKept(p)
  BY DEF QueueKept, OrdersKept, Operating!Key, Operating!AdminKey,
         Operating!EmptyResource
<1>6. /\ q.queue = p.queue /\ q.orders = p.orders /\ q.refused = p.refused
      /\ q.message = p.message
  OBVIOUS
<1> HIDE DEF p, q
<1>7. OperatingShape(page, server) /\ QueueKept(page, server.revision)
      /\ OrdersKept(page)
  BY <1>2, <1>4, <1>5, <1>6, OperatingKeyed
<1> QED
  BY <1>3, <1>7 DEF OperatingInv, OperatingGood, ActionsKept

LEMMA OperatingInvariant ==
    ASSUME OperatingInv, Operating!Next \/ UNCHANGED Operating!vars
    PROVE  OperatingInv'
<1>1. OperatingGood(page', calls', server')
  <2>1. ASSUME UNCHANGED <<calls, server>>, OperatingGood(page', calls, server)
        PROVE  OperatingGood(page', calls', server')
    BY <2>1
  <2>2. ASSUME UNCHANGED server, OperatingGood(page', calls', server)
        PROVE  OperatingGood(page', calls', server')
    BY <2>2
  <2>3. CASE UNCHANGED Operating!vars
    BY <2>3 DEF OperatingInv, Operating!vars
  <2>4. CASE \/ Operating!Refresh \/ Operating!QueueServed \/ Operating!QueueAnswers
             \/ Operating!QueueFails \/ Operating!AskRefund \/ Operating!OrdersAnswer
    <3>1. UNCHANGED <<calls, server>>
      BY <2>4 DEF Operating!Refresh, Operating!QueueServed, Operating!QueueAnswers,
                  Operating!QueueFails, Operating!AskRefund, Operating!OrdersAnswer
    <3> QED
      BY <2>1, <2>4, <3>1, QueueStepsKeep
  <2>5. CASE \/ Operating!Update \/ Operating!ChangeOrder \/ Operating!Refund
             \/ \E order \in Orders : Operating!OpenOrder(order)
    <3>1. UNCHANGED server
      BY <2>5 DEF Operating!Update, Operating!ChangeOrder, Operating!Refund,
                  Operating!OpenOrder
    <3> QED
      BY <2>2, <2>5, <3>1, SendingKeeps
  <2>6. ASSUME NEW u \in calls, Operating!UpdateAnswers(u)
        PROVE  OperatingGood(page', calls', server')
    <3>1. UNCHANGED server
      BY <2>6 DEF Operating!UpdateAnswers
    <3> QED
      BY <2>2, <2>6, <3>1, UpdateAnswersKeeps
  <2> QED
    BY <2>3, <2>4, <2>5, <2>6, ServingKeeps, ActionAnswersKeeps, KeysKeep
       DEF Operating!Next
<1> QED
  BY <1>1 DEF OperatingInv, OperatingGood

LEMMA OperatingShows ==
    ASSUME OperatingInv PROVE Operating!QueueIsNewest /\ Operating!OwnDataShown
<1> USE DEF OperatingInv, OperatingGood
<1> DEFINE k == Operating!Key(page)  r == page.queue
<1>1. ASSUME Operating!Queue(page) # None PROVE k # None /\ Operating!Queue(page) = r.data
  BY <1>1 DEF Operating!Queue, Operating!DataFor
<1>2. Operating!QueueIsNewest
  <2> SUFFICES ASSUME Operating!Queue(page) # None, ~Operating!LoadingFor(r, k),
                      ~Operating!QueueError(page)
               PROVE  /\ Operating!Queue(page).filters = page.filters
                      /\ page.message = "refused" =>
                           Operating!Queue(page).revision >= page.refused
    BY DEF Operating!QueueIsNewest
  <2>1. k # None /\ r.settled = k /\ r.fresh /\ ~r.error /\ r.data # None
    BY <1>1 DEF Operating!LoadingFor, Operating!QueueError, Operating!ErrorFor, QueueKept
  <2>2. k = <<page.session, page.filters>>
    BY <2>1 DEF Operating!Key
  <2>3. r.data \in Rows /\ r.data.filters = k[2] /\ NewEnough(page, r.data)
    BY <2>1 DEF QueueKept
  <2> QED
    BY <1>1, <2>2, <2>3 DEF NewEnough, Rows, OperatingShape
<1>3. Operating!Queue(page) # None => page.admin
  BY <1>1 DEF Operating!Key
<1>4. LET shown == Operating!DataFor(page.orders, Operating!AdminKey(page), FALSE)
      IN  shown # None => page.admin /\ shown = page.session
  BY DEF Operating!DataFor, Operating!AdminKey, OrdersKept
<1> QED
  BY <1>2, <1>3, <1>4 DEF Operating!OwnDataShown

-----------------------------------------------------------------------------
(* The shop's screens.  What the hosted checkout shows is of no session. *)

ShoppingShape(p, s) ==
    /\ DOMAIN p = {"session", "screen", "asks", "returns", "list", "order",
                   "timer", "busy", "price", "terms"}
    /\ Hook(p.list) /\ Hook(p.order)
    /\ p.session \in (Nat \ {0}) \cup {None}
    /\ DOMAIN s = {"sessions", "paid", "acknowledged", "success"} /\ s.sessions \in Nat

\* What settled belongs to the session it settled under, shown or not.
Owns(r) == r.settled \notin {None, Shopping!Hosted} /\ r.data # None =>
               r.data.owner = r.settled
ShoppingGood(p, s) ==
    /\ ShoppingShape(p, s)
    /\ p.list.deps = Shopping!ListKey(p) /\ Owns(p.list)
    /\ p.order.deps = Shopping!OrderKey(p) /\ Owns(p.order)
ShoppingInv == ShoppingGood(page, server)

\* The poll is scheduled besides: it says nothing of what is shown.
LEMMA ShowsKeeps ==
    ASSUME NEW p, NEW s, NEW answered, ShoppingGood(p, s), Shopping!Shows(p, answered)
    PROVE  ShoppingGood(page', s)
<1> DEFINE timer == Shopping!Polling(p) /\ (p.timer \/ ~Shopping!Polling(page) \/ answered)
<1>1. page' = [p EXCEPT !.timer = timer]
  BY DEF Shopping!Shows
<1> HIDE DEF timer
<1>2. /\ DOMAIN page' = DOMAIN p /\ page'.session = p.session /\ page'.screen = p.screen
      /\ page'.asks = p.asks /\ page'.list = p.list /\ page'.order = p.order
  BY <1>1 DEF ShoppingGood, ShoppingShape
<1> QED
  BY <1>2 DEF ShoppingGood, ShoppingShape, Shopping!ListKey, Shopping!OrderKey

\* A screen with other keys asks anew and remembers what settled.
LEMMA ShoppingKeyed ==
    ASSUME NEW p, NEW s, ShoppingShape(p, s), Owns(p.list), Owns(p.order)
    PROVE  ShoppingGood(Shopping!Keyed(p), s)
<1> DEFINE l == Shopping!Rekeyed(p.list, Shopping!ListKey(p))
           o == Shopping!Rekeyed(p.order, Shopping!OrderKey(p))
           q == Shopping!Keyed(p)
<1>1. Hook(l) /\ l.deps = Shopping!ListKey(p) /\ Owns(l)
  BY DEF Shopping!Rekeyed, ShoppingShape, Hook, Owns
<1>2. Hook(o) /\ o.deps = Shopping!OrderKey(p) /\ Owns(o)
  BY DEF Shopping!Rekeyed, ShoppingShape, Hook, Owns
<1> HIDE DEF l, o
<1>3. q = [p EXCEPT !.list = l, !.order = o]
  BY DEF Shopping!Keyed, l, o
<1> HIDE DEF q
<1>4. /\ DOMAIN q = DOMAIN p /\ q.session = p.session /\ q.screen = p.screen
      /\ q.asks = p.asks /\ q.list = l /\ q.order = o
  BY <1>3 DEF ShoppingShape
<1>5. ShoppingGood(q, s)
  BY <1>1, <1>2, <1>4 DEF ShoppingGood, ShoppingShape, Shopping!ListKey, Shopping!OrderKey
<1> QED
  BY <1>5 DEF q

\* A screen that is opened shows nothing yet.
LEMMA ScreenKeeps ==
    ASSUME NEW key \in (Nat \ {0}) \cup {None}, NEW screen, NEW s,
           DOMAIN s = {"sessions", "paid", "acknowledged", "success"}, s.sessions \in Nat,
           NEW asks, NEW returns
    PROVE  ShoppingGood(Shopping!Screen(key, screen, asks, returns), s)
<1> DEFINE p == [session |-> key, screen |-> screen, asks |-> asks,
                 returns |-> returns, list |-> Shopping!EmptyResource,
                 order |-> Shopping!EmptyResource, timer |-> FALSE,
                 busy |-> None, price |-> FALSE, terms |-> FALSE]
<1>1. ShoppingShape(p, s) /\ Owns(p.list) /\ Owns(p.order)
  BY DEF ShoppingShape, Owns, Hook, Shopping!EmptyResource
<1>2. Shopping!Screen(key, screen, asks, returns) = Shopping!Keyed(p)
  BY DEF Shopping!Screen
<1> HIDE DEF p
<1> QED
  BY <1>1, <1>2, ShoppingKeyed

\* The same screen with a list and an order of its own.
LEMMA SameScreen ==
    ASSUME NEW p, NEW q, NEW s, ShoppingGood(p, s),
           DOMAIN q = DOMAIN p, q.session = p.session, q.screen = p.screen,
           q.asks = p.asks, Hook(q.list), q.list.deps = p.list.deps, Owns(q.list),
           Hook(q.order), q.order.deps = p.order.deps, Owns(q.order)
    PROVE  ShoppingGood(q, s)
BY DEF ShoppingGood, ShoppingShape, Shopping!ListKey, Shopping!OrderKey

\* A session that starts or ends, another screen, from the list to an order.
LEMMA ShoppingKeysKeep ==
    ASSUME ShoppingInv,
           \/ \E screen \in Shopping!Screens : Shopping!Visit(screen)
           \/ Shopping!Switch \/ Shopping!SignIn \/ Shopping!SessionEnds
           \/ \E c \in calls.changes : Shopping!CheckedOut(c)
           \/ \E f \in calls.finish : Shopping!Completed(f)
    PROVE  ShoppingInv'
<1> USE DEF ShoppingInv
<1>1. ShoppingShape(page, server) /\ Owns(page.list) /\ Owns(page.order)
  BY DEF ShoppingGood
<1>2. ASSUME NEW screen, NEW asks, NEW returns, server'.sessions = server.sessions,
             DOMAIN server' = DOMAIN server,
             Shopping!Shows(Shopping!Screen(page.session, screen, asks, returns), FALSE)
      PROVE  ShoppingGood(page', server')
  BY <1>1, <1>2, ScreenKeeps, ShowsKeeps DEF ShoppingShape
<1>3. ASSUME NEW q, ShoppingShape(q, server'), q.list = page.list, q.order = page.order,
             Shopping!Shows(Shopping!Keyed(q), FALSE)
      PROVE  ShoppingGood(page', server')
  BY <1>1, <1>3, ShoppingKeyed, ShowsKeeps
<1>4. CASE \E screen \in Shopping!Screens : Shopping!Visit(screen)
  BY <1>2, <1>4 DEF Shopping!Visit
<1>5. CASE Shopping!Switch
  <2> DEFINE q == [page EXCEPT !.asks = ~@]
  <2>1. Shopping!Shows(Shopping!Keyed(q), FALSE) /\ UNCHANGED server
    BY <1>5 DEF Shopping!Switch
  <2>2. ShoppingShape(q, server') /\ q.list = page.list /\ q.order = page.order
    BY <1>1, <2>1 DEF ShoppingShape
  <2> QED
    BY <1>3, <2>1, <2>2
<1>6. CASE Shopping!SignIn
  <2> DEFINE q == [page EXCEPT !.session = server.sessions + 1]
  <2>1. /\ Shopping!Shows(Shopping!Keyed(q), FALSE)
        /\ server' = [server EXCEPT !.sessions = @ + 1]
    BY <1>6 DEF Shopping!SignIn
  <2>2. DOMAIN server' = DOMAIN server /\ server'.sessions \in Nat
    BY <1>1, <2>1 DEF ShoppingShape
  <2>3. ShoppingShape(q, server') /\ q.list = page.list /\ q.order = page.order
    BY <1>1, <2>2 DEF ShoppingShape
  <2> QED
    BY <1>3, <2>1, <2>3
<1>7. CASE Shopping!SessionEnds
  <2> DEFINE q == [page EXCEPT !.session = None]
  <2>1. Shopping!Shows(Shopping!Keyed(q), FALSE) /\ UNCHANGED server
    BY <1>7 DEF Shopping!SessionEnds
  <2>2. ShoppingShape(q, server') /\ q.list = page.list /\ q.order = page.order
    BY <1>1, <2>1 DEF ShoppingShape
  <2> QED
    BY <1>3, <2>1, <2>2
<1>8. CASE \E c \in calls.changes : Shopping!CheckedOut(c)
  BY <1>2, <1>8 DEF Shopping!CheckedOut
<1>9. ASSUME NEW f \in calls.finish, Shopping!Completed(f) PROVE ShoppingGood(page', server')
  <2>1. DOMAIN server' = DOMAIN server /\ server'.sessions = server.sessions
    BY <1>1, <1>9 DEF Shopping!Completed, ShoppingShape
  <2> QED
    BY <1>2, <1>9, <2>1 DEF Shopping!Completed
<1> QED
  BY <1>4, <1>5, <1>6, <1>7, <1>8, <1>9

\* What is asked for is the session's; a failure keeps or drops what was there.
LEMMA ShoppingAnswersKeep ==
    ASSUME ShoppingInv,
           \/ Shopping!ListAnswers \/ Shopping!OrderAnswers \/ Shopping!OrderFails
           \/ Shopping!PollTimer \/ Shopping!Refresh
    PROVE  ShoppingInv'
<1> USE DEF ShoppingInv
<1>1. UNCHANGED server
  BY DEF Shopping!ListAnswers, Shopping!OrderAnswers, Shopping!OrderFails,
         Shopping!PollTimer, Shopping!Refresh
<1>0. /\ Hook(page.list) /\ Hook(page.order) /\ Owns(page.list) /\ Owns(page.order)
      /\ page.list.deps \in {None, Shopping!Hosted, page.session}
      /\ page.order.deps \in {None, page.session}
  BY DEF ShoppingGood, ShoppingShape, Shopping!ListKey, Shopping!OrderKey
<1>2. ASSUME NEW r, NEW q, q = [page EXCEPT !.list = r], Hook(r),
             r.deps = page.list.deps, Owns(r), Shopping!Shows(q, FALSE)
      PROVE  ShoppingInv'
  <2>1. /\ DOMAIN q = DOMAIN page /\ q.session = page.session /\ q.screen = page.screen
        /\ q.asks = page.asks /\ q.list = r /\ q.order = page.order
    BY <1>2 DEF ShoppingGood, ShoppingShape
  <2>2. ShoppingGood(q, server)
    BY <1>2, <2>1, SameScreen, <1>0
  <2> QED
    BY <1>1, <1>2, <2>2, ShowsKeeps
<1>3. ASSUME NEW r, NEW q, NEW timer, NEW answered,
             q = [page EXCEPT !.order = r, !.timer = timer], Hook(r),
             r.deps = page.order.deps, Owns(r), Shopping!Shows(q, answered)
      PROVE  ShoppingInv'
  <2>1. /\ DOMAIN q = DOMAIN page /\ q.session = page.session /\ q.screen = page.screen
        /\ q.asks = page.asks /\ q.list = page.list /\ q.order = r
    BY <1>3 DEF ShoppingGood, ShoppingShape
  <2>2. ShoppingGood(q, server)
    BY <1>3, <2>1, SameScreen, <1>0
  <2> QED
    BY <1>1, <1>3, <2>2, ShowsKeeps
<1>4. ASSUME NEW r, NEW q, NEW answered,
             q = [page EXCEPT !.order = r], Hook(r),
             r.deps = page.order.deps, Owns(r), Shopping!Shows(q, answered)
      PROVE  ShoppingInv'
  <2>1. q = [page EXCEPT !.order = r, !.timer = page.timer]
    BY <1>4 DEF ShoppingGood, ShoppingShape
  <2> QED
    BY <1>3, <1>4, <2>1
<1>6. CASE Shopping!ListAnswers
  <2> DEFINE data == [owner |-> page.session, paid |-> FALSE]
             l == Shopping!Loaded(page.list, data)
             f == Shopping!LoadFailed(page.list, FALSE)
  <2>1. Hook(l) /\ l.deps = page.list.deps /\ Owns(l)
    BY <1>0 DEF Hook, Shopping!Loaded, Owns
  <2>2. Hook(f) /\ f.deps = page.list.deps /\ Owns(f)
    BY <1>0 DEF Hook, Shopping!LoadFailed, Owns
  <2>3. \/ Shopping!Shows([page EXCEPT !.list = l], FALSE)
        \/ Shopping!Shows([page EXCEPT !.list = f], FALSE)
    BY <1>6 DEF Shopping!ListAnswers
  <2> HIDE DEF l, f
  <2> QED
    BY <1>2, <2>1, <2>2, <2>3
<1>7. CASE Shopping!OrderAnswers
  <2> DEFINE data == [owner |-> page.session, paid |-> server.paid]
             r == Shopping!Loaded(page.order, data)
  <2>1. Hook(r) /\ r.deps = page.order.deps /\ Owns(r)
    BY <1>0 DEF Hook, Shopping!Loaded, Owns
  <2>2. Shopping!Shows([page EXCEPT !.order = r], TRUE)
    BY <1>7 DEF Shopping!OrderAnswers
  <2> HIDE DEF r
  <2> QED
    BY <1>4, <2>1, <2>2
<1>8. CASE Shopping!OrderFails
  <2> DEFINE r == Shopping!LoadFailed(page.order, FALSE)
  <2>1. Hook(r) /\ r.deps = page.order.deps /\ Owns(r)
    BY <1>0 DEF Hook, Shopping!LoadFailed, Owns
  <2>2. Shopping!Shows([page EXCEPT !.order = r], TRUE)
    BY <1>8 DEF Shopping!OrderFails
  <2> HIDE DEF r
  <2> QED
    BY <1>4, <2>1, <2>2
<1>9. CASE Shopping!PollTimer
  <2> DEFINE r == Shopping!Reloaded(page.order, Shopping!OrderKey(page), TRUE)
  <2>1. Hook(r) /\ r.deps = page.order.deps /\ Owns(r)
    BY <1>0 DEF Hook, Shopping!Reloaded, Owns
  <2>2. Shopping!Shows([page EXCEPT !.order = r, !.timer = FALSE], FALSE)
    BY <1>9 DEF Shopping!PollTimer
  <2> HIDE DEF r
  <2> QED
    BY <1>3, <2>1, <2>2
<1>10. CASE Shopping!Refresh
  <2> DEFINE r == Shopping!Reloaded(page.order, Shopping!OrderKey(page), FALSE)
  <2>1. Hook(r) /\ r.deps = page.order.deps /\ Owns(r)
    BY <1>0 DEF Hook, Shopping!Reloaded, Owns
  <2>2. Shopping!Shows([page EXCEPT !.order = r], FALSE)
    BY <1>10 DEF Shopping!Refresh
  <2> HIDE DEF r
  <2> QED
    BY <1>4, <2>1, <2>2
<1> QED
  BY <1>6, <1>7, <1>8, <1>9, <1>10

\* Changes and payments: what one writes is of the session that asked for it.
LEMMA ShoppingChangesKeep ==
    ASSUME ShoppingInv,
           \/ \E s \in DOMAIN Shopping!Changes :
                \E name \in Shopping!Changes[s] : Shopping!Change(name)
           \/ Shopping!ChooseVersion \/ Shopping!Terms
           \/ \E c \in calls.changes : Shopping!Changed(c)
           \/ \E outcome \in Shopping!Outcomes : Shopping!Finish(outcome)
           \/ \E f \in calls.finish : Shopping!FinishFails(f)
    PROVE  ShoppingInv'
<1> USE DEF ShoppingInv
<1>1. UNCHANGED server
  BY DEF Shopping!Change, Shopping!ChooseVersion, Shopping!Terms, Shopping!Changed,
         Shopping!Finish, Shopping!FinishFails
<1>2. /\ Hook(page.list) /\ Hook(page.order) /\ Owns(page.list) /\ Owns(page.order)
  BY DEF ShoppingGood, ShoppingShape
<1>3. ASSUME NEW r, DOMAIN page' = DOMAIN page, page'.session = page.session,
             page'.screen = page.screen, page'.asks = page.asks,
             page'.order = page.order, page'.list = r,
             Hook(r), r.deps = page.list.deps, Owns(r)
      PROVE  ShoppingInv'
  BY <1>1, <1>2, <1>3, SameScreen
<1>4. ASSUME NEW name, Shopping!Change(name) PROVE ShoppingInv'
  <2> DEFINE r == Shopping!ErrorCleared(page.list, page.session)
  <2>1. Hook(r) /\ r.deps = page.list.deps /\ Owns(r)
    BY <1>2 DEF Hook, Shopping!ErrorCleared, Owns
  <2>2. page' = [page EXCEPT !.list = r, !.busy = name]
    BY <1>4 DEF Shopping!Change
  <2> HIDE DEF r
  <2>3. /\ DOMAIN page' = DOMAIN page /\ page'.session = page.session
        /\ page'.screen = page.screen /\ page'.asks = page.asks
        /\ page'.order = page.order /\ page'.list = r
    BY <2>2 DEF ShoppingGood, ShoppingShape
  <2> QED
    BY <1>3, <2>1, <2>3
<1>5. ASSUME NEW c \in calls.changes, Shopping!Changed(c) PROVE ShoppingInv'
  <2> DEFINE data == [owner |-> c.session, paid |-> FALSE]
             r == Shopping!Updated(page.list, c.session, FALSE, data)
             l == IF c.name = "quote" THEN r ELSE page.list
  <2>1. Hook(r) /\ r.deps = page.list.deps /\ Owns(r)
    BY <1>2 DEF Hook, Shopping!Updated, Owns
  <2>2. \/ page' = [page EXCEPT !.busy = None, !.list = r]
        \/ page' = [page EXCEPT !.busy = None, !.price = TRUE, !.list = l]
        \/ page' = page \/ page' = [page EXCEPT !.busy = None]
    BY <1>5 DEF Shopping!Changed
  <2>3. l \in {r, page.list}
    OBVIOUS
  <2> HIDE DEF r, l
  <2>4. /\ DOMAIN page' = DOMAIN page /\ page'.session = page.session
        /\ page'.screen = page.screen /\ page'.asks = page.asks
        /\ page'.order = page.order /\ page'.list \in {r, page.list}
    BY <2>2, <2>3 DEF ShoppingGood, ShoppingShape
  <2> QED
    BY <1>2, <1>3, <2>1, <2>4
<1>6. CASE \/ Shopping!ChooseVersion \/ Shopping!Terms
           \/ \E outcome \in Shopping!Outcomes : Shopping!Finish(outcome)
           \/ \E f \in calls.finish : Shopping!FinishFails(f)
  <2>1. \/ page' = [page EXCEPT !.price = FALSE]
        \/ page' = [page EXCEPT !.terms = ~@]
        \/ \E outcome : page' = [page EXCEPT !.busy = outcome]
        \/ page' = page
    BY <1>6 DEF Shopping!ChooseVersion, Shopping!Terms, Shopping!Finish,
                Shopping!FinishFails
  <2>2. /\ DOMAIN page' = DOMAIN page /\ page'.session = page.session
        /\ page'.screen = page.screen /\ page'.asks = page.asks
        /\ page'.order = page.order /\ page'.list = page.list
    BY <2>1 DEF ShoppingGood, ShoppingShape
  <2> QED
    BY <1>2, <1>3, <2>2
<1> QED
  BY <1>4, <1>5, <1>6

LEMMA ShoppingInitKeeps == ASSUME Shopping!Init PROVE ShoppingInv
<1>1. PICK screen \in Shopping!Screens, key \in {1, None}, asks \in BOOLEAN :
        page = Shopping!Screen(key, screen, asks, asks)
  BY DEF Shopping!Init
<1>2. /\ DOMAIN server = {"sessions", "paid", "acknowledged", "success"}
      /\ server.sessions \in Nat
  BY DEF Shopping!Init
<1> QED
  BY <1>1, <1>2, ScreenKeeps DEF ShoppingInv

LEMMA ShoppingInvariant ==
    ASSUME ShoppingInv, Shopping!Next \/ UNCHANGED Shopping!vars
    PROVE  ShoppingInv'
<1>1. CASE UNCHANGED Shopping!vars
  BY <1>1 DEF Shopping!vars, ShoppingInv
<1>2. ASSUME UNCHANGED page, DOMAIN server' = DOMAIN server,
             server'.sessions = server.sessions
      PROVE  ShoppingInv'
  BY <1>2 DEF ShoppingInv, ShoppingGood, ShoppingShape
<1>3. CASE Shopping!Settles
  BY <1>2, <1>3 DEF Shopping!Settles, ShoppingInv, ShoppingGood, ShoppingShape
<1>4. ASSUME NEW f \in calls.finish, Shopping!Acknowledged(f) PROVE ShoppingInv'
  BY <1>2, <1>4 DEF Shopping!Acknowledged, ShoppingInv, ShoppingGood, ShoppingShape
<1> QED
  BY <1>1, <1>3, <1>4, ShoppingKeysKeep, ShoppingAnswersKeep, ShoppingChangesKeep
     DEF Shopping!Next

LEMMA ShoppingShows == ASSUME ShoppingInv PROVE Shopping!OwnDataShown
<1> USE DEF ShoppingInv, ShoppingGood
<1>1. ASSUME page.screen # "checkout",
             Shopping!DataFor(page.list, Shopping!ListKey(page), FALSE) # None
      PROVE  page.list.data.owner = page.session
  BY <1>1 DEF Shopping!DataFor, Shopping!ListKey, Shopping!Hosted, Owns, ShoppingShape
<1>2. ASSUME Shopping!Order(page) # None PROVE page.order.data.owner = page.session
  BY <1>2 DEF Shopping!Order, Shopping!DataFor, Shopping!OrderKey, Shopping!Hosted, Owns,
              ShoppingShape
<1> QED
  BY <1>1, <1>2 DEF Shopping!OwnDataShown, Shopping!Order, Shopping!DataFor

-----------------------------------------------------------------------------
(* The view of a project. *)

ProjectsShape(p, s) ==
    /\ DOMAIN p = {"session", "project", "view", "link", "announced", "question"}
    /\ Hook(p.view) /\ p.project \in Ids \cup {None}
    /\ DOMAIN s = {"sessions", "revision", "shares"} /\ s.revision \in [Ids -> Nat]

\* A record of the project is at the revision that is announced or newer.
AsAnnounced(p, record) ==
    p.announced # None /\ p.announced.id = record.id =>
        record.revision >= p.announced.revision

\* What is on its way is of the project that is open, what settled of the one it
\* settled under.
ViewKept(p) ==
    LET r == p.view
    IN  /\ r.deps = Projects!Key(p) /\ ~r.background
        /\ r.load # None => r.deps # None
        /\ r.load \notin {None, Asked} =>
             /\ r.load.id = p.project /\ r.load.revision \in Nat
             /\ AsAnnounced(p, r.load)
        /\ r.settled # None /\ ~r.error /\ r.data # None =>
             /\ r.data.id = r.settled[2]
             /\ r.fresh => AsAnnounced(p, r.data)

\* No answer is ahead of its project, unless the project was deleted.
Reached(id, revision, s) ==
    /\ id \in Ids /\ revision \in Nat
    /\ s.revision[id] > 0 => revision <= s.revision[id]
AnswerKept(a, s) ==
    /\ DOMAIN a = {"name", "key", "id", "share", "here", "answer"}
    /\ a.key # None /\ a.id \in Ids
    /\ a.answer # Asked => Reached(a.id, a.answer, s)
AnswersKept(p, c, s) ==
    /\ p.announced # None => Reached(p.announced.id, p.announced.revision, s)
    /\ \A a \in c : AnswerKept(a, s)

ProjectsGood(p, c, s) ==
    ProjectsShape(p, s) /\ ViewKept(p) /\ AnswersKept(p, c, s)
ProjectsInv == ProjectsGood(page, calls, server)

\* Another project, or none, or another session: the view of the project that is
\* open from now on is asked for; without one nothing is remembered.
LEMMA ShownKeeps ==
    ASSUME NEW p, NEW q, NEW c, NEW s, ProjectsGood(p, c, s), ProjectsShape(q, s),
           q.view = p.view, q.announced = p.announced, Projects!Shown(q)
    PROVE  ProjectsGood(page', c, s)
<1>1. CASE Projects!Key(q) = None
  <2>1. page' = Projects!NoView(q)
    BY <1>1 DEF Projects!Shown
  <2>2. /\ ProjectsShape(page', s) /\ page'.session = q.session
        /\ page'.project = q.project /\ page'.announced = None
        /\ page'.view = Projects!EmptyResource
    BY <2>1 DEF Projects!NoView, ProjectsShape, Hook, Projects!EmptyResource
  <2>3. Projects!Key(page') = None
    BY <1>1, <2>2 DEF Projects!Key
  <2> QED
    BY <2>2, <2>3 DEF ProjectsGood, ViewKept, AnswersKept, Projects!EmptyResource
<1>2. CASE Projects!Key(q) # None
  <2> DEFINE r == Projects!Rekeyed(p.view, Projects!Key(q))
  <2>1. /\ Hook(r) /\ r.deps = Projects!Key(q) /\ r.settled = p.view.settled
        /\ r.data = p.view.data /\ r.error = p.view.error
        /\ r.fresh = p.view.fresh /\ r.background = p.view.background
        /\ \/ r.load = Asked
           \/ Projects!Key(q) = p.view.deps /\ r.load = p.view.load
    BY <1>2 DEF Projects!Rekeyed, Hook, ProjectsShape, ProjectsGood
  <2>2. page' = [q EXCEPT !.view = r]
    BY <1>2 DEF Projects!Shown
  <2> HIDE DEF r
  <2>3. /\ ProjectsShape(page', s) /\ page'.session = q.session
        /\ page'.project = q.project /\ page'.announced = p.announced
        /\ page'.view = r
    BY <2>1, <2>2 DEF ProjectsShape
  <2>4. Projects!Key(page') = Projects!Key(q)
    BY <2>3 DEF Projects!Key
  <2>5. p.view.deps = Projects!Key(p)
    BY DEF ProjectsGood, ViewKept
  <2>6. Projects!Key(q) = p.view.deps => q.project = p.project
    BY <1>2, <2>5 DEF Projects!Key
  <2>7. ViewKept(page')
    BY <1>2, <2>1, <2>3, <2>4, <2>6 DEF ProjectsGood, ViewKept, AsAnnounced
  <2> QED
    BY <2>3, <2>7 DEF ProjectsGood, AnswersKept
<1> QED
  BY <1>1, <1>2

\* Fewer actions, or the same ones of a view that is gone.
LEMMA UnheardKeeps ==
    ASSUME NEW p, NEW c, NEW s, AnswersKept(p, c, s), NEW d \in SUBSET c
    PROVE  AnswersKept(p, d, s) /\ AnswersKept(p, Projects!Unheard(d), s)
<1>1. ASSUME NEW a \in Projects!Unheard(d) PROVE AnswerKept(a, s)
  <2>1. PICK x \in d : a = [x EXCEPT !.here = FALSE]
    BY DEF Projects!Unheard
  <2>2. DOMAIN a = DOMAIN x /\ a.key = x.key /\ a.id = x.id /\ a.answer = x.answer
    BY <2>1 DEF AnswersKept, AnswerKept
  <2> QED
    BY <2>2 DEF AnswersKept, AnswerKept
<1> QED
  BY <1>1 DEF AnswersKept

LEMMA ProjectKeysKeep ==
    ASSUME ProjectsInv,
           \/ \E id \in Ids : Projects!Open(id)
           \/ Projects!List \/ Projects!SessionEnds \/ Projects!SignIn
    PROVE  ProjectsInv'
<1> USE DEF ProjectsInv
<1>1. AnswersKept(page, calls', server') /\ ProjectsShape(page, server')
      /\ server'.revision = server.revision /\ DOMAIN server' = DOMAIN server
  <2>1. AnswersKept(page, calls', server)
    BY UnheardKeeps DEF Projects!Open, Projects!List, Projects!SessionEnds,
                        Projects!SignIn, ProjectsGood
  <2>2. server'.revision = server.revision /\ DOMAIN server' = DOMAIN server
    BY DEF Projects!Open, Projects!List, Projects!SessionEnds, Projects!SignIn,
           ProjectsGood, ProjectsShape
  <2> QED
    BY <2>1, <2>2 DEF AnswersKept, AnswerKept, Reached, ProjectsGood, ProjectsShape
<1>2. ProjectsGood(page, calls', server')
  BY <1>1 DEF ProjectsGood
<1>3. ASSUME NEW q, DOMAIN q = DOMAIN page, q.view = page.view,
             q.announced = page.announced, q.project \in Ids \cup {None},
             Projects!Shown(q)
      PROVE  ProjectsInv'
  BY <1>1, <1>2, <1>3, ShownKeeps DEF ProjectsShape
<1>4. ASSUME NEW id \in Ids, Projects!Open(id) PROVE ProjectsInv'
  <2> DEFINE q == [page EXCEPT !.project = id]
  <2>1. /\ DOMAIN q = DOMAIN page /\ q.view = page.view /\ q.project = id
        /\ q.announced = page.announced
    BY <1>1 DEF ProjectsShape
  <2> QED
    BY <1>3, <1>4, <2>1 DEF Projects!Open
<1>5. CASE Projects!List
  <2> DEFINE q == [page EXCEPT !.project = None]
  <2>1. /\ DOMAIN q = DOMAIN page /\ q.view = page.view /\ q.project = None
        /\ q.announced = page.announced
    BY <1>1 DEF ProjectsShape
  <2> QED
    BY <1>3, <1>5, <2>1 DEF Projects!List
<1>6. ASSUME NEW key, Projects!Shown([page EXCEPT !.session = key]) PROVE ProjectsInv'
  <2> DEFINE q == [page EXCEPT !.session = key]
  <2>1. /\ DOMAIN q = DOMAIN page /\ q.view = page.view /\ q.project = page.project
        /\ q.announced = page.announced
    BY <1>1 DEF ProjectsShape
  <2> QED
    BY <1>1, <1>3, <1>6, <2>1 DEF ProjectsShape
<1> QED
  BY <1>4, <1>5, <1>6 DEF Projects!SessionEnds, Projects!SignIn

\* The view is served, answered, and asked for again.
LEMMA ViewStepsKeep ==
    ASSUME ProjectsInv,
           Projects!ViewServed \/ Projects!ViewAnswers \/ Projects!RetryView
    PROVE  ProjectsInv'
<1> USE DEF ProjectsInv
<1>1. UNCHANGED <<calls, server>>
  BY DEF Projects!ViewServed, Projects!ViewAnswers, Projects!RetryView
<1>2. PICK r : page' = [page EXCEPT !.view = r] /\ r = page'.view
  BY DEF Projects!ViewServed, Projects!ViewAnswers, Projects!RetryView,
         ProjectsGood, ProjectsShape
<1>3. ASSUME Hook(r), r.deps = page.view.deps, ViewKept(page')
      PROVE  ProjectsInv'
  <2>1. ProjectsShape(page', server') /\ page'.announced = page.announced
    BY <1>1, <1>2, <1>3 DEF ProjectsGood, ProjectsShape
  <2> QED
    BY <1>1, <1>3, <2>1 DEF ProjectsGood, AnswersKept, AnswerKept
<1>4. /\ page'.session = page.session /\ page'.project = page.project
      /\ page'.announced = page.announced /\ Projects!Key(page') = Projects!Key(page)
  BY <1>2 DEF ProjectsGood, ProjectsShape, Projects!Key
<1>5. CASE Projects!ViewServed
  <2> DEFINE record == [id |-> page.project, revision |-> server.revision[page.project],
                        shares |-> server.shares[page.project]]
  <2>1. page.project \in Ids /\ page.view.deps # None
    BY <1>5, VisitAssumption
       DEF Projects!ViewServed, ProjectsGood, ProjectsShape, ViewKept, Projects!Key
  <2>2. record.id = page.project /\ record.revision \in Nat /\ AsAnnounced(page, record)
    BY <1>5, <2>1 DEF Projects!ViewServed, ProjectsGood, ProjectsShape, AnswersKept, AnswerKept,
                      Reached, AsAnnounced
  <2>3. page' = [page EXCEPT !.view.load = record]
    BY <1>5 DEF Projects!ViewServed
  <2> HIDE DEF record
  <2>4. r = [page.view EXCEPT !.load = record]
    BY <1>2, <2>3 DEF ProjectsGood, ProjectsShape, Hook
  <2>5. /\ Hook(r) /\ r.deps = page.view.deps /\ r.settled = page.view.settled
        /\ r.load = record /\ r.data = page.view.data /\ r.error = page.view.error
        /\ r.fresh = page.view.fresh /\ r.background = page.view.background
    BY <2>4 DEF ProjectsGood, ProjectsShape, Hook
  <2>6. ViewKept(page')
    BY <1>2, <1>4, <2>1, <2>2, <2>5 DEF ProjectsGood, ViewKept, AsAnnounced
  <2> QED
    BY <1>3, <2>5, <2>6
<1>6. CASE Projects!ViewAnswers
  <2>1. \/ page' = [page EXCEPT !.view = Projects!LoadFailed(page.view, FALSE)]
        \/ /\ page.view.load \notin {None, Asked}
           /\ page' = [page EXCEPT !.view = Projects!Loaded(page.view, page.view.load)]
    BY <1>6 DEF Projects!ViewAnswers
  <2>2. \/ r = Projects!LoadFailed(page.view, FALSE)
        \/ /\ page.view.load \notin {None, Asked}
           /\ r = Projects!Loaded(page.view, page.view.load)
    BY <1>2, <2>1 DEF ProjectsGood, ProjectsShape
  <2>3. /\ Hook(r) /\ r.deps = page.view.deps /\ r.settled = page.view.deps
        /\ r.background = page.view.background /\ r.load = None
        /\ \/ r.error
           \/ page.view.load \notin {None, Asked} /\ r.data = page.view.load
    BY <2>2 DEF Projects!Loaded, Projects!LoadFailed, Hook, ProjectsGood, ProjectsShape
  <2>4. page.view.deps # None => page.view.deps[2] = page.project
    BY DEF ProjectsGood, ViewKept, Projects!Key
  <2>5. ViewKept(page')
    BY <1>2, <1>4, <2>3, <2>4 DEF ProjectsGood, ViewKept, AsAnnounced
  <2> QED
    BY <1>3, <2>3, <2>5
<1>7. CASE Projects!RetryView
  <2>1. r = Projects!Reloaded(page.view, Projects!Key(page), FALSE)
        /\ Projects!Key(page) # None
    BY <1>2, <1>7 DEF Projects!RetryView, ProjectsGood, ProjectsShape
  <2>2. /\ Hook(r) /\ r.deps = page.view.deps /\ r.settled = page.view.settled
        /\ r.load \in {None, Asked} /\ (r.load # None => r.deps # None)
        /\ r.data = page.view.data /\ r.error = page.view.error
        /\ ~r.fresh /\ ~r.background
    BY <2>1 DEF Projects!Reloaded, ProjectsGood, ProjectsShape, Hook
  <2>3. ViewKept(page')
    BY <1>2, <1>4, <2>2 DEF ProjectsGood, ViewKept, AsAnnounced
  <2> QED
    BY <1>3, <2>2, <2>3
<1> QED
  BY <1>5, <1>6, <1>7

\* An action is sent; it announces nothing yet.
LEMMA ActKeeps ==
    ASSUME ProjectsInv, Projects!AskDelete \/ \E name \in Projects!Actions : Projects!Act(name)
    PROVE  ProjectsInv'
<1> USE DEF ProjectsInv
<1>1. UNCHANGED server
  BY DEF Projects!AskDelete, Projects!Act
<1>2. \/ page' = [page EXCEPT !.announced = None]
      \/ page' = [page EXCEPT !.question = ~@]
  BY DEF Projects!AskDelete, Projects!Act
<1>3. /\ ProjectsShape(page', server') /\ page'.session = page.session
      /\ page'.project = page.project /\ page'.view = page.view
      /\ page'.announced \in {None, page.announced}
      /\ Projects!Key(page') = Projects!Key(page)
  BY <1>1, <1>2 DEF ProjectsGood, ProjectsShape, Projects!Key
<1>4. ViewKept(page')
  BY <1>3 DEF ProjectsGood, ViewKept, AsAnnounced
<1>5. AnswersKept(page', calls', server')
  <2>1. CASE Projects!AskDelete
    BY <1>1, <1>3, <2>1 DEF Projects!AskDelete, ProjectsGood, AnswersKept, AnswerKept
  <2>2. ASSUME NEW name, Projects!Act(name) PROVE AnswersKept(page', calls', server')
    <3>1. PICK share :
            calls' = calls \cup {[name |-> name, key |-> Projects!Key(page),
                                  id |-> page.project, share |-> share, here |-> TRUE,
                                  answer |-> Asked]}
      BY <2>2 DEF Projects!Act
    <3>2. Projects!Key(page) # None /\ page.project \in Ids
      BY <2>2 DEF Projects!Act, Projects!Ready, Projects!Key, ProjectsGood, ProjectsShape
    <3> QED
      BY <1>1, <1>3, <3>1, <3>2 DEF ProjectsGood, AnswersKept, AnswerKept
  <2> QED
    BY <2>1, <2>2
<1> QED
  BY <1>3, <1>4, <1>5 DEF ProjectsGood

\* The server carries an action out: revisions grow, or end.
LEMMA ServedKeeps ==
    ASSUME ProjectsInv, NEW c \in calls, Projects!Served(c)
    PROVE  ProjectsInv'
<1> USE DEF ProjectsInv
<1> DEFINE revision == IF c.name = "remove" THEN 0 ELSE server.revision[c.id] + 1
<1>1. /\ c.answer = Asked /\ server.revision[c.id] > 0 /\ UNCHANGED page
      /\ calls' = (calls \ {c}) \cup {[c EXCEPT !.answer = revision]}
  BY DEF Projects!Served
<1>2. \E shares : server' = [server EXCEPT !.revision[c.id] = revision,
                                           !.shares[c.id] = shares]
  BY DEF Projects!Served
<1>3. c.id \in Ids /\ server.revision \in [Ids -> Nat]
  BY DEF ProjectsGood, ProjectsShape, AnswersKept, AnswerKept
<1>4. revision \in Nat /\ (revision > 0 => revision > server.revision[c.id])
  BY <1>3
<1> HIDE DEF revision
<1>5. /\ DOMAIN server' = DOMAIN server
      /\ server'.revision = [server.revision EXCEPT ![c.id] = revision]
  BY <1>2 DEF ProjectsGood, ProjectsShape
<1>6. ProjectsShape(page', server')
  BY <1>1, <1>3, <1>4, <1>5 DEF ProjectsGood, ProjectsShape
<1>7. ASSUME NEW id, NEW n, Reached(id, n, server) PROVE Reached(id, n, server')
  BY <1>1, <1>3, <1>4, <1>5, <1>7 DEF Reached
<1>8. Reached(c.id, revision, server')
  BY <1>3, <1>4, <1>5 DEF Reached
<1>9. AnswersKept(page', calls', server')
  <2>1. ASSUME NEW a \in calls' PROVE AnswerKept(a, server')
    <3>1. CASE a \in calls
      BY <1>7, <3>1 DEF ProjectsGood, AnswersKept, AnswerKept
    <3>2. CASE a = [c EXCEPT !.answer = revision]
      <4>1. /\ DOMAIN a = DOMAIN c /\ a.key = c.key /\ a.id = c.id
            /\ a.answer = revision
        BY <3>2 DEF ProjectsGood, AnswersKept, AnswerKept
      <4> QED
        BY <1>1, <1>8, <4>1 DEF ProjectsGood, AnswersKept, AnswerKept
    <3> QED
      BY <1>1, <3>1, <3>2
  <2> QED
    BY <1>1, <1>7, <2>1 DEF ProjectsGood, AnswersKept
<1> QED
  BY <1>1, <1>6, <1>9 DEF ProjectsGood, ViewKept

\* An action is answered or refused.  What it reports makes the view old.
LEMMA AnsweredKeeps ==
    ASSUME ProjectsInv, NEW c \in calls, Projects!Answered(c) \/ Projects!Refused(c)
    PROVE  ProjectsInv'
<1> USE DEF ProjectsInv
<1>1. UNCHANGED server /\ AnswersKept(page, calls', server')
  BY UnheardKeeps DEF Projects!Answered, Projects!Refused, ProjectsGood
<1>2. ProjectsGood(page, calls', server')
  BY <1>1 DEF ProjectsGood
<1>3. CASE UNCHANGED page
  BY <1>2, <1>3
<1>4. CASE page' = [page EXCEPT !.question = FALSE]
  <2>1. /\ ProjectsShape(page', server') /\ page'.session = page.session
        /\ page'.project = page.project /\ page'.view = page.view
        /\ page'.announced = page.announced /\ Projects!Key(page') = Projects!Key(page)
    BY <1>2, <1>4 DEF ProjectsGood, ProjectsShape, Projects!Key
  <2> QED
    BY <1>2, <2>1 DEF ProjectsGood, ViewKept, AnswersKept, AnswerKept, AsAnnounced
<1>5. CASE Projects!Shown([page EXCEPT !.project = None])
  <2> DEFINE q == [page EXCEPT !.project = None]
  <2>1. /\ ProjectsShape(q, server') /\ q.view = page.view
        /\ q.announced = page.announced
    BY <1>2 DEF ProjectsGood, ProjectsShape
  <2> QED
    BY <1>2, <1>5, <2>1, ShownKeeps
<1>6. CASE Projects!Answered(c) /\ c.name # "remove" /\ c.here
  <2> DEFINE r == Projects!Reloaded(page.view, c.key, FALSE)
             news == [id |-> c.id, revision |-> c.answer]
             link == CASE c.name = "share" -> c.answer
                       [] c.name = "revoke" -> None
                       [] OTHER -> page.link
  <2>1. page' = [page EXCEPT !.view = r, !.announced = news, !.link = link]
    BY <1>6 DEF Projects!Answered
  <2>2. c.key # None /\ Reached(news.id, news.revision, server')
    BY <1>1, <1>6 DEF Projects!Answered, ProjectsGood, AnswersKept, AnswerKept
  <2>3. /\ Hook(r) /\ r.deps = page.view.deps /\ r.settled = page.view.settled
        /\ r.load \in {None, Asked} /\ (r.load # None => r.deps # None)
        /\ r.data = page.view.data /\ r.error = page.view.error
        /\ ~r.fresh /\ ~r.background
    BY <2>2 DEF Projects!Reloaded, ProjectsGood, ProjectsShape, Hook
  <2> HIDE DEF r, news, link
  <2>4. /\ ProjectsShape(page', server') /\ page'.session = page.session
        /\ page'.project = page.project /\ page'.view = r /\ page'.announced = news
        /\ Projects!Key(page') = Projects!Key(page)
    BY <1>1, <2>1, <2>3 DEF ProjectsGood, ProjectsShape, Projects!Key
  <2>5. ViewKept(page')
    BY <2>3, <2>4 DEF ProjectsGood, ViewKept
  <2> QED
    BY <1>2, <2>2, <2>4, <2>5 DEF ProjectsGood, AnswersKept, AnswerKept
<1> QED
  BY <1>3, <1>4, <1>5, <1>6 DEF Projects!Answered, Projects!Refused

LEMMA ProjectsInitKeeps == ASSUME Projects!Init PROVE ProjectsInv
<1>1. /\ page.session = None /\ page.project = None /\ page.announced = None
      /\ page.view = Projects!EmptyResource
      /\ DOMAIN page = {"session", "project", "view", "link", "announced", "question"}
      /\ calls = {} /\ server.revision = [id \in Ids |-> 1]
      /\ DOMAIN server = {"sessions", "revision", "shares"}
  BY DEF Projects!Init
<1> QED
  BY <1>1 DEF ProjectsInv, ProjectsGood, ProjectsShape, ViewKept, AnswersKept, AnswerKept, Hook,
              Projects!EmptyResource, Projects!Key

LEMMA ProjectsInvariant ==
    ASSUME ProjectsInv, Projects!Next \/ UNCHANGED Projects!vars
    PROVE  ProjectsInv'
<1>1. CASE UNCHANGED Projects!vars
  BY <1>1 DEF Projects!vars, ProjectsInv
<1> QED
  BY <1>1, ProjectKeysKeep, ViewStepsKeep, ActKeeps, ServedKeeps, AnsweredKeeps
     DEF Projects!Next

LEMMA ProjectsShows == ASSUME ProjectsInv PROVE Projects!ReportedIsShown
<1> USE DEF ProjectsInv, ProjectsGood
<1> DEFINE k == Projects!Key(page)  r == page.view
<1>1. SUFFICES ASSUME Projects!Ready
               PROVE  /\ Projects!View(page).id = page.project
                      /\ page.announced # None /\ page.announced.id = page.project =>
                           Projects!View(page).revision >= page.announced.revision
  BY DEF Projects!ReportedIsShown
<1>2. /\ k # None /\ r.settled = k /\ r.fresh /\ ~r.error /\ r.data # None
      /\ Projects!View(page) = r.data
  BY <1>1 DEF Projects!Ready, Projects!LoadingFor, Projects!ErrorFor, Projects!View,
              Projects!DataFor, ViewKept
<1>3. k[2] = page.project
  BY <1>2 DEF Projects!Key
<1> QED
  BY <1>2, <1>3 DEF ViewKept, AsAnnounced

-----------------------------------------------------------------------------
(* The theorems. *)

\* A queue that is neither loading nor in error is the one of the chosen filters,
\* and after a refused action it is at the revision that refused it or newer, in
\* whatever order the answers of loads and actions come
\* (production-operations-screen.tsx 39-136).
THEOREM QueueStaysNewest == Spec => []QueueIsNewest
<1> DEFINE I == part = "operating" => OperatingInv
<1>1. Init => I
  BY OperatingInitKeeps DEF Init
<1>2. I => QueueIsNewest
  BY OperatingShows DEF QueueIsNewest
<1>3. I /\ [Next]_vars => I'
  <2>1. I /\ UNCHANGED vars => I'
    BY OperatingInvariant DEF vars, visit, Operating!vars
  <2>2. I /\ Next => I'
    BY OperatingInvariant DEF Next
  <2> QED
    BY <2>1, <2>2
<1> QED
  BY <1>1, <1>2, <1>3, PTL DEF Spec

\* What a screen shows was loaded for its own session, and the administration's
\* data only for an administrator, although the answers of earlier sessions and
\* roles arrive at any time (use-account-resource.ts 23-60, use-resource.ts
\* 131-143): on the screens with a session, in the shop and in the administration.
THEOREM ScreensShowOwn == Spec => []ScreenShowsOwnSession
<1> DEFINE I == /\ Owned
                /\ part = "shopping" => ShoppingInv
                /\ part = "operating" => OperatingInv
<1>1. Init => I
  BY OwnedInit, ShoppingInitKeeps, OperatingInitKeeps DEF Init, Owned
<1>2. I => ScreenShowsOwnSession
  BY OwnedShows, ShoppingShows, OperatingShows DEF ScreenShowsOwnSession
<1>3. I /\ [Next]_vars => I'
  <2>1. I /\ UNCHANGED vars => I'
    BY OwnedInvariant, ShoppingInvariant, OperatingInvariant
       DEF vars, visit, Operating!vars, Shopping!vars
  <2>2. I /\ Next => I'
    BY OwnedInvariant, ShoppingInvariant, OperatingInvariant DEF Next
  <2> QED
    BY <2>1, <2>2
<1> QED
  BY <1>1, <1>2, <1>3, PTL DEF Spec

\* The view of a project that is neither loading nor in error is of the project
\* that is open, and as new as the last action it reports, in whatever order
\* actions are served and answered and however often the view is reloaded
\* (projects-screen.tsx 113-226, use-resource.ts 64-130).
THEOREM ProjectIsAsReported == Spec => []ReportedIsShown
<1> DEFINE I == part = "projects" => ProjectsInv
<1>1. Init => I
  BY ProjectsInitKeeps DEF Init
<1>2. I => ReportedIsShown
  BY ProjectsShows DEF ReportedIsShown
<1>3. I /\ [Next]_vars => I'
  <2>1. I /\ UNCHANGED vars => I'
    BY ProjectsInvariant DEF vars, visit, Projects!vars
  <2>2. I /\ Next => I'
    BY ProjectsInvariant DEF Next
  <2> QED
    BY <2>1, <2>2
<1> QED
  BY <1>1, <1>2, <1>3, PTL DEF Spec

-----------------------------------------------------------------------------
(* The types of the administration. *)

\* What a hook remembers, of keys and of data.
Hooks(keys, data) ==
    [deps : keys, load : data \cup {None, Asked}, settled : keys, data : data \cup {None},
     error : BOOLEAN, fresh : BOOLEAN, background : BOOLEAN]

QueueKeys == {None} \cup (Operating!Sessions \X Filters)
OrderKeys == {None} \cup {<<s>> : s \in Operating!Sessions}
QueueRows == [filters : Filters, revision : 1 .. MaxRevisions]
OperatingPages ==
    [session : Operating!Sessions \cup {None}, admin : BOOLEAN,
     screen : {"production", "admin"}, filters : Filters,
     queue : Hooks(QueueKeys, QueueRows),
     orders : Hooks(OrderKeys, Operating!Sessions \cup {None}),
     message : Operating!Messages, refused : 0 .. MaxRevisions,
     selected : Orders \cup {None}, question : BOOLEAN]
OperatingCalls ==
    [name : {"update"}, key : QueueKeys, answer : {Asked, "success", "conflict", "failed"},
     revision : 1 .. MaxRevisions] \cup
    [name : {"open", "change", "refund"}, key : {<<s>> : s \in Operating!Sessions},
     order : Orders]
OperatingServers ==
    [sessions : Operating!Sessions, refunded : SUBSET Orders, revision : 1 .. MaxRevisions]
OperatingTyped ==
    page \in OperatingPages /\ calls \subseteq OperatingCalls /\ server \in OperatingServers

LEMMA OperatingHooks ==
    ASSUME NEW K, NEW D, NEW r \in Hooks(K, D)
    PROVE  /\ \A key \in K : Operating!Rekeyed(r, key) \in Hooks(K, D)
           /\ \A data \in D \cup {None} : Operating!Loaded(r, data) \in Hooks(K, D)
           /\ Operating!LoadFailed(r, TRUE) \in Hooks(K, D)
           /\ Operating!LoadFailed(r, FALSE) \in Hooks(K, D)
           /\ \A key : Operating!Reloaded(r, key, FALSE) \in Hooks(K, D)
           /\ \A key, base : base \in D \cup {None} =>
                /\ Operating!Updated(r, key, TRUE, base) \in Hooks(K, D)
                /\ Operating!Updated(r, key, FALSE, base) \in Hooks(K, D)
<1>1. \A key \in K : Operating!Rekeyed(r, key) \in Hooks(K, D)
  BY DEF Hooks, Operating!Rekeyed
<1>2. \A data \in D \cup {None} : Operating!Loaded(r, data) \in Hooks(K, D)
  BY DEF Hooks, Operating!Loaded
<1>3. /\ Operating!LoadFailed(r, TRUE) \in Hooks(K, D)
      /\ Operating!LoadFailed(r, FALSE) \in Hooks(K, D)
  BY DEF Hooks, Operating!LoadFailed
<1>4. \A key : Operating!Reloaded(r, key, FALSE) \in Hooks(K, D)
  BY DEF Hooks, Operating!Reloaded
<1>5. \A key, base : base \in D \cup {None} =>
        /\ Operating!Updated(r, key, TRUE, base) \in Hooks(K, D)
        /\ Operating!Updated(r, key, FALSE, base) \in Hooks(K, D)
  BY DEF Hooks, Operating!Updated
<1> QED
  BY <1>1, <1>2, <1>3, <1>4, <1>5

LEMMA EmptyHookTyped ==
    ASSUME NEW K, NEW D, None \in K
    PROVE  /\ Operating!EmptyResource \in Hooks(K, D)
BY DEF Hooks, Operating!EmptyResource

LEMMA OperatingKeyedTyped ==
    ASSUME NEW p \in OperatingPages PROVE Operating!Keyed(p) \in OperatingPages
<1> DEFINE queue == Operating!Rekeyed(p.queue, Operating!Key(p))
           orders == Operating!Rekeyed(p.orders, Operating!AdminKey(p))
<1>1. Operating!Key(p) \in QueueKeys /\ Operating!AdminKey(p) \in OrderKeys
  BY DEF Operating!Key, Operating!AdminKey, QueueKeys, OrderKeys, OperatingPages
<1>2. /\ queue \in Hooks(QueueKeys, QueueRows)
      /\ orders \in Hooks(OrderKeys, Operating!Sessions \cup {None})
  BY <1>1, OperatingHooks DEF OperatingPages
<1> HIDE DEF queue, orders
<1>3. [p EXCEPT !.queue = queue, !.orders = orders] \in OperatingPages
  BY <1>2 DEF OperatingPages
<1> QED
  BY <1>3 DEF Operating!Keyed, queue, orders

LEMMA BoundsAreNumbers == MaxRevisions \in Nat \ {0} /\ MaxSessions \in Nat \ {0}
BY VisitBounds

LEMMA OperatingInitTyped == ASSUME Operating!Init PROVE OperatingTyped
<1>1. PICK screen \in {"production", "admin"}, f \in Filters :
        page = Operating!Screen(1, TRUE, screen, f)
  BY DEF Operating!Init
<1> DEFINE p == [session |-> 1, admin |-> TRUE, screen |-> screen, filters |-> f,
             queue |-> Operating!EmptyResource, orders |-> Operating!EmptyResource,
             message |-> "none", refused |-> 0, selected |-> None, question |-> FALSE]
<1>2. /\ Operating!EmptyResource \in Hooks(QueueKeys, QueueRows)
      /\ Operating!EmptyResource \in Hooks(OrderKeys, Operating!Sessions \cup {None})
  BY EmptyHookTyped DEF QueueKeys, OrderKeys
<1>3. 1 \in Operating!Sessions /\ 1 \in 1 .. MaxRevisions /\ 0 \in 0 .. MaxRevisions
  BY BoundsAreNumbers DEF Operating!Sessions
<1>4. p \in OperatingPages
  BY <1>2, <1>3 DEF OperatingPages, Operating!Messages
<1>5. page = Operating!Keyed(p)
  BY <1>1 DEF Operating!Screen
<1>6. page \in OperatingPages
  BY <1>4, <1>5, OperatingKeyedTyped
<1> QED
  BY <1>3, <1>6 DEF Operating!Init, OperatingTyped, OperatingServers

LEMMA OperatingStepTyped ==
    ASSUME OperatingTyped, Operating!Next \/ UNCHANGED Operating!vars
    PROVE  OperatingTyped'
<1> DEFINE Queues == Hooks(QueueKeys, QueueRows)
           Lists == Hooks(OrderKeys, Operating!Sessions \cup {None})
<1>0. /\ page \in OperatingPages /\ calls \subseteq OperatingCalls
      /\ server \in OperatingServers
      /\ page.queue \in Queues /\ page.orders \in Lists
      /\ page.session \in Operating!Sessions \cup {None} /\ page.filters \in Filters
      /\ server.revision \in 1 .. MaxRevisions /\ server.refunded \subseteq Orders
      /\ server.sessions \in Operating!Sessions
  BY DEF OperatingTyped, OperatingPages, OperatingServers
<1>1. \A q \in Queues : [page EXCEPT !.queue = q] \in OperatingPages
  BY <1>0 DEF OperatingPages
<1>2. \A q \in Queues, m \in Operating!Messages :
        [page EXCEPT !.message = m, !.queue = q] \in OperatingPages
  BY <1>0 DEF OperatingPages
<1>3. \A revision : server.revision < MaxRevisions =>
        [server EXCEPT !.revision = @ + 1] \in OperatingServers
  BY <1>0, BoundsAreNumbers DEF OperatingServers
<1> HIDE DEF Queues, Lists
<1>4. CASE UNCHANGED Operating!vars
  BY <1>4 DEF Operating!vars, OperatingTyped
<1>5. ASSUME NEW f \in Filters, Operating!ChooseFilters(f) PROVE OperatingTyped'
  <2>1. [page EXCEPT !.filters = f, !.message = "none"] \in OperatingPages
    BY <1>0 DEF OperatingPages, Operating!Messages
  <2> QED
    BY <1>0, <1>5, <2>1, OperatingKeyedTyped DEF Operating!ChooseFilters, OperatingTyped
<1>6. CASE Operating!Refresh
  <2>1. Operating!Reloaded(page.queue, Operating!Key(page), FALSE) \in Queues
    BY <1>0, OperatingHooks DEF Queues
  <2> QED
    BY <1>0, <1>2, <1>6, <2>1 DEF Operating!Refresh, OperatingTyped, Operating!Messages
<1>7. CASE Operating!QueueServed
  <2> DEFINE row == [filters |-> page.filters, revision |-> server.revision]
  <2>1. row \in QueueRows
    BY <1>0 DEF QueueRows
  <2> HIDE DEF row
  <2>2. [page.queue EXCEPT !.load = row] \in Queues
    BY <1>0, <2>1 DEF Queues, Hooks
  <2>3. [page EXCEPT !.queue.load = row] \in OperatingPages
    BY <1>0, <1>1, <2>2 DEF OperatingPages
  <2> QED
    BY <1>0, <1>7, <2>3 DEF Operating!QueueServed, OperatingTyped, row
<1>8. CASE Operating!QueueAnswers
  <2>1. page.queue.load \in QueueRows
    BY <1>0, <1>8 DEF Operating!QueueAnswers, Queues, Hooks
  <2>2. Operating!Loaded(page.queue, page.queue.load) \in Queues
    BY <1>0, <2>1, OperatingHooks DEF Queues
  <2> QED
    BY <1>0, <1>1, <1>8, <2>2 DEF Operating!QueueAnswers, OperatingTyped
<1>9. CASE Operating!QueueFails
  <2>1. Operating!LoadFailed(page.queue, TRUE) \in Queues
    BY <1>0, OperatingHooks DEF Queues
  <2> QED
    BY <1>0, <1>1, <1>9, <2>1 DEF Operating!QueueFails, OperatingTyped
<1>10. CASE Operating!Update
  <2>1. Operating!Queue(page) = page.queue.data /\ Operating!Key(page) \in QueueKeys
    BY <1>0, <1>10 DEF Operating!Update, Operating!Queue, Operating!DataFor, Operating!Key,
                       QueueKeys
  <2>2. page.queue.data \in QueueRows
    BY <1>0, <1>10, <2>1 DEF Operating!Update, Queues, Hooks
  <2>3. [name |-> "update", key |-> Operating!Key(page), answer |-> Asked,
         revision |-> Operating!Queue(page).revision] \in OperatingCalls
    BY <2>1, <2>2 DEF OperatingCalls, QueueRows
  <2>4. [page EXCEPT !.message = "none"] \in OperatingPages
    BY <1>0 DEF OperatingPages, Operating!Messages
  <2> QED
    BY <1>0, <1>10, <2>3, <2>4 DEF Operating!Update, OperatingTyped
<1>11. ASSUME NEW u \in calls, Operating!UpdateServed(u) PROVE OperatingTyped'
  <2>1. PICK answer \in {"success", "conflict", "failed"} :
          /\ answer = "success" => server.revision < MaxRevisions
          /\ server' = IF answer = "success" THEN [server EXCEPT !.revision = @ + 1] ELSE server
          /\ calls' = (calls \ {u}) \cup
                 {[u EXCEPT !.answer = answer, !.revision = server'.revision]}
          /\ UNCHANGED page
    BY <1>11 DEF Operating!UpdateServed
  <2>2. server' \in OperatingServers
    BY <1>0, <1>3, <2>1
  <2>3. server'.revision \in 1 .. MaxRevisions
    BY <2>2 DEF OperatingServers
  <2>4. u \in OperatingCalls /\ u.name = "update"
    BY <1>0, <1>11 DEF Operating!UpdateServed
  <2>5. \A revision \in 1 .. MaxRevisions :
          [u EXCEPT !.answer = answer, !.revision = revision] \in OperatingCalls
    BY <2>4 DEF OperatingCalls
  <2> QED
    BY <1>0, <2>1, <2>2, <2>3, <2>5 DEF OperatingTyped
<1>12. ASSUME NEW u \in calls, Operating!UpdateAnswers(u) PROVE OperatingTyped'
  <2>1. u \in OperatingCalls /\ u.name = "update" /\ u.revision \in 1 .. MaxRevisions
    BY <1>0, <1>12 DEF Operating!UpdateAnswers, OperatingCalls
  <2> DEFINE base == IF page.queue.data = None THEN None
                     ELSE [page.queue.data EXCEPT !.revision = u.revision]
             updated == Operating!Updated(page.queue, u.key, TRUE, base)
             reloaded == Operating!Reloaded(page.queue, u.key, FALSE)
             refused == IF u.answer = "conflict" THEN u.revision ELSE 0
  <2>2. base \in QueueRows \cup {None}
    BY <1>0, <2>1 DEF Queues, Hooks, QueueRows
  <2> HIDE DEF base
  <2>3. updated \in Queues /\ reloaded \in Queues
    BY <1>0, <2>2, OperatingHooks DEF Queues
  <2>4. refused \in 0 .. MaxRevisions
    BY <2>1, BoundsAreNumbers
  <2> HIDE DEF updated, reloaded, refused
  <2>5. [page EXCEPT !.message = "refused", !.queue = reloaded, !.refused = refused]
            \in OperatingPages
    BY <1>0, <2>3, <2>4 DEF OperatingPages, Operating!Messages, Queues
  <2>6. [page EXCEPT !.message = "success", !.queue = updated] \in OperatingPages
    BY <1>2, <2>3 DEF Operating!Messages
  <2>7. page' \in OperatingPages
    BY <1>12, <2>5, <2>6 DEF Operating!UpdateAnswers, base, updated, reloaded, refused
  <2> QED
    BY <1>0, <1>12, <2>7 DEF Operating!UpdateAnswers, OperatingTyped
<1>13. CASE Operating!WorkElsewhere
  BY <1>0, <1>3, <1>13 DEF Operating!WorkElsewhere, OperatingTyped
<1>14. CASE Operating!OrdersAnswer
  <2>1. /\ Operating!Loaded(page.orders, page.session) \in Lists
        /\ Operating!LoadFailed(page.orders, FALSE) \in Lists
    BY <1>0, OperatingHooks DEF Lists
  <2>2. \A r \in Lists : [page EXCEPT !.orders = r] \in OperatingPages
    BY <1>0 DEF OperatingPages, Lists
  <2> QED
    BY <1>0, <1>14, <2>1, <2>2 DEF Operating!OrdersAnswer, OperatingTyped
<1>15. ASSUME NEW order \in Orders, NEW name \in {"open", "change", "refund"},
              Operating!AdminReady, Operating!Action(name, order),
              UNCHANGED <<page, server>>
       PROVE  OperatingTyped'
  <2>1. Operating!AdminKey(page) \in {<<s>> : s \in Operating!Sessions}
    BY <1>0, <1>15 DEF Operating!AdminReady, Operating!AdminKey
  <2> QED
    BY <1>0, <1>15, <2>1 DEF Operating!Action, OperatingCalls, OperatingTyped
<1>16. ASSUME NEW order \in Orders, Operating!OpenOrder(order) PROVE OperatingTyped'
  BY <1>15, <1>16 DEF Operating!OpenOrder
<1>17. CASE Operating!ChangeOrder \/ Operating!Refund
  <2>1. page.selected \in Orders
    BY <1>0, <1>17 DEF OperatingPages, Operating!ChangeOrder, Operating!Refund
  <2> QED
    BY <1>15, <1>17, <2>1 DEF Operating!ChangeOrder, Operating!Refund
<1>18. CASE Operating!AskRefund
  <2>1. [page EXCEPT !.question = ~@] \in OperatingPages
    BY <1>0 DEF OperatingPages
  <2> QED
    BY <1>0, <1>18, <2>1 DEF Operating!AskRefund, OperatingTyped
<1>19. ASSUME NEW a \in calls, Operating!ActionAnswers(a) PROVE OperatingTyped'
  <2>1. /\ a.name \in {"open", "change", "refund"} /\ a.order \in Orders
        /\ a.key \in {<<s>> : s \in Operating!Sessions}
    BY <1>0, <1>19 DEF Operating!ActionAnswers, OperatingCalls
  <2>2. a.key[1] \in Operating!Sessions
    BY <2>1
  <2> DEFINE orders == IF a.name = "open" THEN page.orders
                       ELSE Operating!Updated(page.orders, a.key, FALSE, a.key[1])
             question == page.question /\ a.name # "refund"
             asked == [page EXCEPT !.selected = a.order, !.question = question,
                                   !.orders = orders]
             served == [server EXCEPT !.refunded = @ \cup {a.order}]
  <2>3. orders \in Lists
    BY <1>0, <2>2, OperatingHooks DEF Lists
  <2>4. question \in BOOLEAN
    BY <1>0 DEF OperatingPages
  <2>5. /\ page' = asked \/ page' = page
        /\ server' = served \/ server' = server
        /\ calls' = calls \ {a}
    BY <1>19 DEF Operating!ActionAnswers
  <2> HIDE DEF orders, question
  <2>6. asked \in OperatingPages
    BY <1>0, <2>1, <2>3, <2>4 DEF OperatingPages, Lists
  <2>7. served \in OperatingServers
    BY <1>0, <2>1 DEF OperatingServers
  <2> QED
    BY <1>0, <2>5, <2>6, <2>7 DEF OperatingTyped
<1>20. CASE Operating!SignIn \/ Operating!SessionEnds
  <2>1. /\ \A s \in Operating!Sessions, admin \in BOOLEAN :
             [page EXCEPT !.session = s, !.admin = admin] \in OperatingPages
        /\ [page EXCEPT !.session = None, !.admin = FALSE] \in OperatingPages
    BY <1>0 DEF OperatingPages
  <2>2. server.sessions < MaxSessions =>
          /\ server.sessions + 1 \in Operating!Sessions
          /\ [server EXCEPT !.sessions = @ + 1] \in OperatingServers
    BY <1>0, BoundsAreNumbers DEF OperatingServers, Operating!Sessions
  <2>3. CASE Operating!SignIn
    BY <1>0, <2>1, <2>2, <2>3, OperatingKeyedTyped DEF Operating!SignIn, OperatingTyped
  <2>4. CASE Operating!SessionEnds
    BY <1>0, <2>1, <2>4, OperatingKeyedTyped DEF Operating!SessionEnds, OperatingTyped
  <2> QED
    BY <1>20, <2>3, <2>4
<1> QED
  BY <1>4, <1>5, <1>6, <1>7, <1>8, <1>9, <1>10, <1>11, <1>12, <1>13, <1>14, <1>16, <1>17,
     <1>18, <1>19, <1>20 DEF Operating!Next

LEMMA OperatingTypes == ASSUME OperatingTyped PROVE Operating!TypeOK
BY DEF OperatingTyped, OperatingPages, OperatingServers, QueueRows, Hooks, Operating!TypeOK

-----------------------------------------------------------------------------
(* The types of the shop. *)

ShoppingKeys == Shopping!Sessions \cup {None, Shopping!Hosted}
Changing == {"mutate", "checkout", "preview", "quote"}
ShoppingPages ==
    [session : Shopping!Sessions \cup {None}, screen : Shopping!Screens,
     asks : BOOLEAN, returns : BOOLEAN,
     list : Hooks(ShoppingKeys, Shopping!Data), order : Hooks(ShoppingKeys, Shopping!Data),
     timer : BOOLEAN, busy : Changing \cup Shopping!Outcomes \cup {None},
     price : BOOLEAN, terms : BOOLEAN]
Asking == [name : Changing, session : Shopping!Sessions \cup {None}]
\* Only a session acknowledges the notice.
Finishing ==
    {f \in [outcome : Shopping!Outcomes, session : Shopping!Sessions \cup {None},
            step : {"acknowledge", "complete"}] : f.step = "acknowledge" => f.session # None}
ShoppingCalls == [changes : SUBSET Asking, finish : SUBSET Finishing]
ShoppingServers ==
    [sessions : Shopping!Sessions, paid : BOOLEAN, acknowledged : SUBSET Shopping!Sessions,
     success : SUBSET (Shopping!Sessions \cup {None})]
ShoppingTyped ==
    page \in ShoppingPages /\ calls \in ShoppingCalls /\ server \in ShoppingServers

LEMMA ShoppingHooks ==
    ASSUME NEW K, NEW D, NEW r \in Hooks(K, D)
    PROVE  /\ \A key \in K : Shopping!Rekeyed(r, key) \in Hooks(K, D)
           /\ \A data \in D \cup {None} : Shopping!Loaded(r, data) \in Hooks(K, D)
           /\ Shopping!LoadFailed(r, FALSE) \in Hooks(K, D)
           /\ \A key : Shopping!Reloaded(r, key, FALSE) \in Hooks(K, D)
           /\ \A key : Shopping!Reloaded(r, key, TRUE) \in Hooks(K, D)
           /\ \A key, base : base \in D \cup {None} =>
                Shopping!Updated(r, key, FALSE, base) \in Hooks(K, D)
           /\ \A key : Shopping!ErrorCleared(r, key) \in Hooks(K, D)
<1>1. \A key \in K : Shopping!Rekeyed(r, key) \in Hooks(K, D)
  BY DEF Hooks, Shopping!Rekeyed
<1>2. \A data \in D \cup {None} : Shopping!Loaded(r, data) \in Hooks(K, D)
  BY DEF Hooks, Shopping!Loaded
<1>3. Shopping!LoadFailed(r, FALSE) \in Hooks(K, D)
  BY DEF Hooks, Shopping!LoadFailed
<1>4. \A key : Shopping!Reloaded(r, key, FALSE) \in Hooks(K, D)
  BY DEF Hooks, Shopping!Reloaded
<1>5. \A key : Shopping!Reloaded(r, key, TRUE) \in Hooks(K, D)
  BY DEF Hooks, Shopping!Reloaded
<1>6. \A key, base : base \in D \cup {None} =>
        Shopping!Updated(r, key, FALSE, base) \in Hooks(K, D)
  BY DEF Hooks, Shopping!Updated
<1>7. \A key : Shopping!ErrorCleared(r, key) \in Hooks(K, D)
  BY DEF Hooks, Shopping!ErrorCleared
<1> QED
  BY <1>1, <1>2, <1>3, <1>4, <1>5, <1>6, <1>7

LEMMA ChangesAreNamed ==
    /\ DOMAIN Shopping!Changes = {"cart", "pricing"}
    /\ \A s \in DOMAIN Shopping!Changes : Shopping!Changes[s] \subseteq Changing
    /\ Changing \subseteq UNION {Shopping!Changes[s] : s \in DOMAIN Shopping!Changes}
<1>1. /\ DOMAIN Shopping!Changes = {"cart", "pricing"}
      /\ Shopping!Changes["cart"] = {"mutate", "checkout"}
      /\ Shopping!Changes["pricing"] = {"preview", "quote"}
  BY DEF Shopping!Changes
<1> QED
  BY <1>1 DEF Changing

LEMMA ShowsTyped ==
    ASSUME NEW p \in ShoppingPages, NEW answered \in BOOLEAN, Shopping!Shows(p, answered)
    PROVE  page' \in ShoppingPages
<1> DEFINE timer == Shopping!Polling(p) /\ (p.timer \/ ~Shopping!Polling(page) \/ answered)
<1>1. page' = [p EXCEPT !.timer = timer]
  BY DEF Shopping!Shows
<1>2. timer \in BOOLEAN
  BY DEF ShoppingPages
<1> HIDE DEF timer
<1> QED
  BY <1>1, <1>2 DEF ShoppingPages

LEMMA ShoppingKeyedTyped ==
    ASSUME NEW p \in ShoppingPages PROVE Shopping!Keyed(p) \in ShoppingPages
<1> DEFINE l == Shopping!Rekeyed(p.list, Shopping!ListKey(p))
           o == Shopping!Rekeyed(p.order, Shopping!OrderKey(p))
<1>1. Shopping!ListKey(p) \in ShoppingKeys /\ Shopping!OrderKey(p) \in ShoppingKeys
  BY DEF Shopping!ListKey, Shopping!OrderKey, ShoppingKeys, ShoppingPages
<1>2. /\ l \in Hooks(ShoppingKeys, Shopping!Data)
      /\ o \in Hooks(ShoppingKeys, Shopping!Data)
  BY <1>1, ShoppingHooks DEF ShoppingPages
<1> HIDE DEF l, o
<1>3. [p EXCEPT !.list = l, !.order = o] \in ShoppingPages
  BY <1>2 DEF ShoppingPages
<1> QED
  BY <1>3 DEF Shopping!Keyed, l, o

LEMMA ShoppingScreenTyped ==
    ASSUME NEW key \in Shopping!Sessions \cup {None}, NEW screen \in Shopping!Screens,
           NEW asks \in BOOLEAN, NEW returns \in BOOLEAN
    PROVE  Shopping!Screen(key, screen, asks, returns) \in ShoppingPages
<1> DEFINE empty == Shopping!EmptyResource
           p == [session |-> key, screen |-> screen, asks |-> asks, returns |-> returns,
                 list |-> empty, order |-> empty, timer |-> FALSE,
                 busy |-> None, price |-> FALSE, terms |-> FALSE]
<1>1. empty \in Hooks(ShoppingKeys, Shopping!Data)
  BY DEF Hooks, Shopping!EmptyResource, ShoppingKeys
<1> HIDE DEF empty
<1>2. p \in ShoppingPages
  BY <1>1 DEF ShoppingPages
<1> HIDE DEF p
<1>3. Shopping!Keyed(p) \in ShoppingPages
  BY <1>2, ShoppingKeyedTyped
<1> QED
  BY <1>3 DEF Shopping!Screen, p, empty

LEMMA ShoppingInitTyped == ASSUME Shopping!Init PROVE ShoppingTyped
<1>1. 1 \in Shopping!Sessions
  BY BoundsAreNumbers DEF Shopping!Sessions
<1>2. page \in ShoppingPages
  BY <1>1, ShoppingScreenTyped DEF Shopping!Init
<1> QED
  BY <1>1, <1>2 DEF Shopping!Init, ShoppingTyped, ShoppingCalls, ShoppingServers

LEMMA ShoppingStepTyped ==
    ASSUME ShoppingTyped, Shopping!Next \/ UNCHANGED Shopping!vars
    PROVE  ShoppingTyped'
<1> DEFINE Views == Hooks(ShoppingKeys, Shopping!Data)
<1>0. /\ page \in ShoppingPages /\ calls \in ShoppingCalls /\ server \in ShoppingServers
      /\ page.session \in Shopping!Sessions \cup {None}
      /\ page.list \in Views /\ page.order \in Views
      /\ calls.changes \subseteq Asking /\ calls.finish \subseteq Finishing
      /\ server.sessions \in Shopping!Sessions /\ server.paid \in BOOLEAN
  BY DEF ShoppingTyped, ShoppingPages, ShoppingCalls, ShoppingServers
<1>1. /\ \A c \in SUBSET Asking : [calls EXCEPT !.changes = c] \in ShoppingCalls
      /\ \A f \in SUBSET Finishing : [calls EXCEPT !.finish = f] \in ShoppingCalls
      /\ [changes |-> {}, finish |-> {}] \in ShoppingCalls
  BY <1>0 DEF ShoppingCalls
<1>2. \A owner \in Shopping!Sessions \cup {None}, paid \in BOOLEAN :
        [owner |-> owner, paid |-> paid] \in Shopping!Data
  BY DEF Shopping!Data
<1>3. /\ \A l \in Views : [page EXCEPT !.list = l] \in ShoppingPages
      /\ \A o \in Views : [page EXCEPT !.order = o] \in ShoppingPages
  BY <1>0 DEF ShoppingPages
<1>4. /\ TRUE \in BOOLEAN /\ FALSE \in BOOLEAN
      /\ "orders" \in Shopping!Screens /\ "checkout" \in Shopping!Screens
  BY DEF Shopping!Screens
<1> HIDE DEF Views
<1>5. CASE UNCHANGED Shopping!vars
  BY <1>5 DEF Shopping!vars, ShoppingTyped
<1>6. ASSUME NEW screen \in Shopping!Screens, Shopping!Visit(screen) PROVE ShoppingTyped'
  <2>1. PICK returns \in BOOLEAN :
          Shopping!Shows(Shopping!Screen(page.session, screen, returns, returns), FALSE)
    BY <1>6 DEF Shopping!Visit
  <2>2. page' \in ShoppingPages
    BY <1>0, <1>4, <2>1, ShoppingScreenTyped, ShowsTyped
  <2> DEFINE left == {[c EXCEPT !.session = None] :
                        c \in {c \in calls.changes : c.name = "checkout"}}
  <2>3. left \subseteq Asking
    BY <1>0 DEF Asking
  <2>4. calls' = [calls EXCEPT !.changes = left] /\ UNCHANGED server
    BY <1>6 DEF Shopping!Visit
  <2> HIDE DEF left
  <2> QED
    BY <1>0, <1>1, <2>2, <2>3, <2>4 DEF ShoppingTyped
<1>7. CASE Shopping!Switch
  <2>1. [page EXCEPT !.asks = ~@] \in ShoppingPages
    BY <1>0 DEF ShoppingPages
  <2> QED
    BY <1>0, <1>4, <1>7, <2>1, ShoppingKeyedTyped, ShowsTyped DEF Shopping!Switch, ShoppingTyped
<1>8. CASE Shopping!SignIn
  <2>1. server.sessions + 1 \in Shopping!Sessions
    BY <1>0, <1>8, BoundsAreNumbers DEF Shopping!SignIn, Shopping!Sessions
  <2>2. /\ [page EXCEPT !.session = server.sessions + 1] \in ShoppingPages
        /\ [server EXCEPT !.sessions = @ + 1] \in ShoppingServers
    BY <1>0, <2>1 DEF ShoppingPages, ShoppingServers
  <2> QED
    BY <1>0, <1>4, <1>8, <2>2, ShoppingKeyedTyped, ShowsTyped DEF Shopping!SignIn, ShoppingTyped
<1>9. CASE Shopping!SessionEnds
  <2>1. [page EXCEPT !.session = None] \in ShoppingPages
    BY <1>0 DEF ShoppingPages
  <2> QED
    BY <1>0, <1>4, <1>9, <2>1, ShoppingKeyedTyped, ShowsTyped
       DEF Shopping!SessionEnds, ShoppingTyped
<1>10. CASE Shopping!ListAnswers
  <2>1. /\ Shopping!Loaded(page.list, [owner |-> page.session, paid |-> FALSE]) \in Views
        /\ Shopping!LoadFailed(page.list, FALSE) \in Views
    BY <1>0, <1>2, <1>4, ShoppingHooks DEF Views
  <2>2. page' \in ShoppingPages
    BY <1>3, <1>4, <1>10, <2>1, ShowsTyped DEF Shopping!ListAnswers
  <2> QED
    BY <1>0, <1>10, <2>2 DEF Shopping!ListAnswers, ShoppingTyped
<1>11. CASE Shopping!OrderAnswers
  <2>1. Shopping!Loaded(page.order, [owner |-> page.session, paid |-> server.paid]) \in Views
    BY <1>0, <1>2, ShoppingHooks DEF Views
  <2>2. page' \in ShoppingPages
    BY <1>3, <1>4, <1>11, <2>1, ShowsTyped DEF Shopping!OrderAnswers
  <2> QED
    BY <1>0, <1>11, <2>2 DEF Shopping!OrderAnswers, ShoppingTyped
<1>12. CASE Shopping!OrderFails
  <2>1. Shopping!LoadFailed(page.order, FALSE) \in Views
    BY <1>0, ShoppingHooks DEF Views
  <2>2. page' \in ShoppingPages
    BY <1>3, <1>4, <1>12, <2>1, ShowsTyped DEF Shopping!OrderFails
  <2> QED
    BY <1>0, <1>12, <2>2 DEF Shopping!OrderFails, ShoppingTyped
<1>13. CASE Shopping!PollTimer
  <2> DEFINE again == Shopping!Reloaded(page.order, Shopping!OrderKey(page), TRUE)
  <2>1. again \in Views
    BY <1>0, ShoppingHooks DEF Views
  <2> HIDE DEF again
  <2>2. [page EXCEPT !.order = again, !.timer = FALSE] \in ShoppingPages
    BY <1>0, <2>1 DEF ShoppingPages, Views
  <2>3. page' \in ShoppingPages
    BY <1>4, <1>13, <2>2, ShowsTyped DEF Shopping!PollTimer, again
  <2> QED
    BY <1>0, <1>13, <2>3 DEF Shopping!PollTimer, ShoppingTyped
<1>14. CASE Shopping!Refresh
  <2>1. Shopping!Reloaded(page.order, Shopping!OrderKey(page), FALSE) \in Views
    BY <1>0, ShoppingHooks DEF Views
  <2>2. page' \in ShoppingPages
    BY <1>3, <1>4, <1>14, <2>1, ShowsTyped DEF Shopping!Refresh
  <2> QED
    BY <1>0, <1>14, <2>2 DEF Shopping!Refresh, ShoppingTyped
<1>15. ASSUME NEW name \in Changing, Shopping!Change(name) PROVE ShoppingTyped'
  <2> DEFINE cleared == Shopping!ErrorCleared(page.list, page.session)
  <2>1. cleared \in Views
    BY <1>0, ShoppingHooks DEF Views
  <2> HIDE DEF cleared
  <2>2. [page EXCEPT !.busy = name, !.list = cleared] \in ShoppingPages
    BY <1>0, <2>1 DEF ShoppingPages, Views
  <2>3. [name |-> name, session |-> page.session] \in Asking
    BY <1>0 DEF Asking
  <2> QED
    BY <1>0, <1>1, <1>15, <2>2, <2>3 DEF Shopping!Change, ShoppingTyped, cleared
<1>16. CASE Shopping!ChooseVersion
  <2>1. [page EXCEPT !.price = FALSE] \in ShoppingPages
    BY <1>0 DEF ShoppingPages
  <2> QED
    BY <1>0, <1>16, <2>1 DEF Shopping!ChooseVersion, ShoppingTyped
<1>17. ASSUME NEW c \in calls.changes, Shopping!Changed(c) PROVE ShoppingTyped'
  <2> DEFINE written == Shopping!Updated(page.list, c.session, FALSE,
                                         [owner |-> c.session, paid |-> FALSE])
             either == IF c.name = "quote" THEN written ELSE page.list
  <2>1. c.session \in Shopping!Sessions \cup {None}
    BY <1>0 DEF Asking
  <2>2. written \in Views /\ either \in Views
    BY <1>0, <1>2, <1>4, <2>1, ShoppingHooks DEF Views
  <2>3. \/ page' = [page EXCEPT !.busy = None, !.list = written]
        \/ page' = [page EXCEPT !.busy = None, !.price = TRUE, !.list = either]
        \/ page' = page \/ page' = [page EXCEPT !.busy = None]
    BY <1>17 DEF Shopping!Changed
  <2> HIDE DEF written, either
  <2>4. /\ [page EXCEPT !.busy = None, !.list = written] \in ShoppingPages
        /\ [page EXCEPT !.busy = None, !.price = TRUE, !.list = either] \in ShoppingPages
        /\ [page EXCEPT !.busy = None] \in ShoppingPages
    BY <1>0, <2>2 DEF ShoppingPages, Views
  <2>5. calls' \in ShoppingCalls /\ UNCHANGED server
    BY <1>0, <1>1, <1>17 DEF Shopping!Changed
  <2> QED
    BY <1>0, <2>3, <2>4, <2>5 DEF ShoppingTyped
<1>18. ASSUME NEW c \in calls.changes, Shopping!CheckedOut(c) PROVE ShoppingTyped'
  BY <1>0, <1>1, <1>4, <1>18, ShoppingScreenTyped, ShowsTyped
  DEF Shopping!CheckedOut, ShoppingTyped
<1>19. CASE Shopping!Terms
  <2>1. [page EXCEPT !.terms = ~@] \in ShoppingPages
    BY <1>0 DEF ShoppingPages
  <2> QED
    BY <1>0, <1>19, <2>1 DEF Shopping!Terms, ShoppingTyped
<1>20. ASSUME NEW outcome \in Shopping!Outcomes, Shopping!Finish(outcome) PROVE ShoppingTyped'
  <2>1. [page EXCEPT !.busy = outcome] \in ShoppingPages
    BY <1>0 DEF ShoppingPages
  <2>2. [outcome |-> outcome, session |-> page.session,
         step |-> IF outcome = "success" /\ page.session # None
                  THEN "acknowledge" ELSE "complete"] \in Finishing
    BY <1>0 DEF Finishing
  <2> QED
    BY <1>0, <1>1, <1>20, <2>1, <2>2 DEF Shopping!Finish, ShoppingTyped
<1>21. ASSUME NEW f \in calls.finish, Shopping!Acknowledged(f) PROVE ShoppingTyped'
  <2>1. f \in Finishing /\ f.session \in Shopping!Sessions
    BY <1>0, <1>21 DEF Finishing, Shopping!Acknowledged
  <2>2. [f EXCEPT !.step = "complete"] \in Finishing
    BY <2>1 DEF Finishing
  <2>3. [server EXCEPT !.acknowledged = @ \cup {f.session}] \in ShoppingServers
    BY <1>0, <2>1 DEF ShoppingServers
  <2>4. calls' \in ShoppingCalls
    BY <1>0, <1>1, <1>21, <2>2 DEF Shopping!Acknowledged
  <2> QED
    BY <1>0, <1>21, <2>3, <2>4 DEF Shopping!Acknowledged, ShoppingTyped
<1>22. ASSUME NEW f \in calls.finish, Shopping!Completed(f) PROVE ShoppingTyped'
  <2> DEFINE returns == f.outcome = "success"
             paid == server.paid \/ f.outcome \in {"success", "failure"}
             success == server.success \cup IF f.outcome = "success" THEN {f.session} ELSE {}
  <2>1. f.session \in Shopping!Sessions \cup {None}
    BY <1>0 DEF Finishing
  <2>2. paid \in BOOLEAN /\ success \subseteq Shopping!Sessions \cup {None}
    BY <1>0, <2>1 DEF ShoppingServers
  <2>3. server' = [server EXCEPT !.paid = paid, !.success = success]
    BY <1>22 DEF Shopping!Completed
  <2> HIDE DEF paid, success
  <2>4. server' \in ShoppingServers
    BY <1>0, <2>2, <2>3 DEF ShoppingServers
  <2>5. returns \in BOOLEAN
    OBVIOUS
  <2>6. Shopping!Shows(Shopping!Screen(page.session, "orders", returns, returns), FALSE)
    BY <1>22 DEF Shopping!Completed
  <2> HIDE DEF returns
  <2>7. page' \in ShoppingPages
    BY <1>0, <1>4, <2>5, <2>6, ShoppingScreenTyped, ShowsTyped
  <2> QED
    BY <1>1, <1>22, <2>4, <2>7 DEF Shopping!Completed, ShoppingTyped
<1>23. ASSUME NEW f \in calls.finish, Shopping!FinishFails(f) PROVE ShoppingTyped'
  <2>1. [page EXCEPT !.busy = None] \in ShoppingPages
    BY <1>0 DEF ShoppingPages
  <2> QED
    BY <1>0, <1>1, <1>23, <2>1 DEF Shopping!FinishFails, ShoppingTyped
<1>24. CASE Shopping!Settles
  <2>1. [server EXCEPT !.paid = TRUE] \in ShoppingServers
    BY <1>0 DEF ShoppingServers
  <2> QED
    BY <1>0, <1>24, <2>1 DEF Shopping!Settles, ShoppingTyped
<1>25. ASSUME NEW s \in DOMAIN Shopping!Changes, NEW name \in Shopping!Changes[s],
              Shopping!Change(name)
       PROVE  ShoppingTyped'
  BY <1>15, <1>25, ChangesAreNamed
<1> QED
  BY <1>5, <1>6, <1>7, <1>8, <1>9, <1>10, <1>11, <1>12, <1>13, <1>14, <1>16, <1>17,
     <1>18, <1>19, <1>20, <1>21, <1>22, <1>23, <1>24, <1>25 DEF Shopping!Next

LEMMA ShoppingTypes == ASSUME ShoppingTyped PROVE Shopping!TypeOK
<1>1. /\ page \in ShoppingPages /\ calls.changes \subseteq Asking
      /\ calls.finish \subseteq Finishing /\ server.acknowledged \subseteq Shopping!Sessions
  BY DEF ShoppingTyped, ShoppingCalls, ShoppingServers
<1>2. /\ page.session \in Shopping!Sessions \cup {None} /\ page.screen \in Shopping!Screens
      /\ page.list.data \in Shopping!Data \cup {None}
      /\ page.order.data \in Shopping!Data \cup {None} /\ page.price \in BOOLEAN
  BY <1>1 DEF ShoppingPages, Hooks
<1>3. calls.changes \subseteq [name : UNION {Shopping!Changes[s] : s \in DOMAIN Shopping!Changes},
                               session : Shopping!Sessions \cup {None}]
  BY <1>1, ChangesAreNamed DEF Asking
<1>4. calls.finish \subseteq [outcome : Shopping!Outcomes,
        session : Shopping!Sessions \cup {None}, step : {"acknowledge", "complete"}]
  BY <1>1 DEF Finishing
<1> QED
  BY <1>1, <1>2, <1>3, <1>4 DEF Shopping!TypeOK

-----------------------------------------------------------------------------
(* The types of the projects. *)

ViewKeys == {None} \cup (Projects!Sessions \X Ids)
ProjectViews == [id : Ids, revision : 1 .. MaxChanges, shares : SUBSET (1 .. MaxChanges)]
ProjectsPages ==
    [session : Projects!Sessions \cup {None}, project : Ids \cup {None},
     view : Hooks(ViewKeys, ProjectViews), link : 1 .. MaxChanges \cup {None},
     announced : {None} \cup [id : Ids, revision : 1 .. MaxChanges], question : BOOLEAN]
\* Only a deletion is answered with the revision of a deleted project.
ProjectsCalls ==
    {c \in [name : Projects!Actions, key : ViewKeys, id : Ids,
            share : 1 .. MaxChanges \cup {None}, here : BOOLEAN,
            answer : 0 .. MaxChanges \cup {Asked}] :
        c.name # "remove" /\ c.answer # Asked => c.answer \in 1 .. MaxChanges}
ProjectsServers ==
    [sessions : 0 .. MaxSessions, revision : [Ids -> 0 .. MaxChanges],
     shares : [Ids -> SUBSET (1 .. MaxChanges)]]
ProjectsTyped ==
    page \in ProjectsPages /\ calls \subseteq ProjectsCalls /\ server \in ProjectsServers

LEMMA ProjectsBounds == MaxChanges \in Nat \ {0} /\ MaxSessions \in Nat \ {0}
BY VisitBounds

LEMMA ProjectsHooks ==
    ASSUME NEW K, NEW D, NEW r \in Hooks(K, D)
    PROVE  /\ \A key \in K : Projects!Rekeyed(r, key) \in Hooks(K, D)
           /\ \A data \in D \cup {None} : Projects!Loaded(r, data) \in Hooks(K, D)
           /\ Projects!LoadFailed(r, FALSE) \in Hooks(K, D)
           /\ \A key : Projects!Reloaded(r, key, FALSE) \in Hooks(K, D)
<1>1. \A key \in K : Projects!Rekeyed(r, key) \in Hooks(K, D)
  BY DEF Hooks, Projects!Rekeyed
<1>2. \A data \in D \cup {None} : Projects!Loaded(r, data) \in Hooks(K, D)
  BY DEF Hooks, Projects!Loaded
<1>3. Projects!LoadFailed(r, FALSE) \in Hooks(K, D)
  BY DEF Hooks, Projects!LoadFailed
<1>4. \A key : Projects!Reloaded(r, key, FALSE) \in Hooks(K, D)
  BY DEF Hooks, Projects!Reloaded
<1> QED
  BY <1>1, <1>2, <1>3, <1>4

LEMMA NoViewTyped ==
    /\ Projects!EmptyResource \in Hooks(ViewKeys, ProjectViews)
BY DEF Hooks, Projects!EmptyResource, ViewKeys

LEMMA ShownTyped ==
    ASSUME NEW p \in ProjectsPages, Projects!Shown(p) PROVE page' \in ProjectsPages
<1> DEFINE empty == Projects!EmptyResource
           r == Projects!Rekeyed(p.view, Projects!Key(p))
<1>1. Projects!Key(p) \in ViewKeys
  BY DEF Projects!Key, ViewKeys, ProjectsPages
<1>2. r \in Hooks(ViewKeys, ProjectViews)
  BY <1>1, ProjectsHooks DEF ProjectsPages
<1>3. empty \in Hooks(ViewKeys, ProjectViews)
  BY NoViewTyped
<1>4. \/ page' = [p EXCEPT !.view = empty, !.link = None, !.announced = None,
                           !.question = FALSE]
      \/ page' = [p EXCEPT !.view = r]
  BY DEF Projects!Shown, Projects!NoView
<1> HIDE DEF empty, r
<1> QED
  BY <1>2, <1>3, <1>4 DEF ProjectsPages

LEMMA UnheardTyped ==
    ASSUME NEW c, c \subseteq ProjectsCalls PROVE Projects!Unheard(c) \subseteq ProjectsCalls
<1>1. \A x \in ProjectsCalls : [x EXCEPT !.here = FALSE] \in ProjectsCalls
  BY DEF ProjectsCalls
<1> QED
  BY <1>1 DEF Projects!Unheard

LEMMA ProjectsInitTyped == ASSUME Projects!Init PROVE ProjectsTyped
<1>1. page \in ProjectsPages
  BY NoViewTyped DEF Projects!Init, ProjectsPages
<1>2. server \in ProjectsServers
  BY ProjectsBounds DEF Projects!Init, ProjectsServers
<1> QED
  BY <1>1, <1>2 DEF Projects!Init, ProjectsTyped

LEMMA ProjectsStepTyped ==
    ASSUME ProjectsInv, ProjectsTyped, Projects!Next \/ UNCHANGED Projects!vars
    PROVE  ProjectsTyped'
<1> DEFINE Hooked == Hooks(ViewKeys, ProjectViews)
<1>0. /\ page \in ProjectsPages /\ calls \subseteq ProjectsCalls /\ server \in ProjectsServers
      /\ page.view \in Hooked /\ page.project \in Ids \cup {None}
      /\ page.session \in Projects!Sessions \cup {None}
      /\ server.sessions \in 0 .. MaxSessions /\ server.revision \in [Ids -> 0 .. MaxChanges]
      /\ server.shares \in [Ids -> SUBSET (1 .. MaxChanges)]
  BY DEF ProjectsTyped, ProjectsPages, ProjectsServers
<1>1. \A r \in Hooked : [page EXCEPT !.view = r] \in ProjectsPages
  BY <1>0 DEF ProjectsPages
<1>2. Projects!Unheard(calls) \subseteq ProjectsCalls
  BY <1>0, UnheardTyped
<1>3. /\ \A id \in Ids \cup {None} : [page EXCEPT !.project = id] \in ProjectsPages
      /\ \A s \in Projects!Sessions \cup {None} : [page EXCEPT !.session = s] \in ProjectsPages
  BY <1>0 DEF ProjectsPages
<1>4. Projects!Key(page) # None => Projects!Key(page) \in ViewKeys /\ page.project \in Ids
  BY <1>0 DEF Projects!Key, ViewKeys
<1> HIDE DEF Hooked
<1>5. CASE UNCHANGED Projects!vars
  BY <1>5 DEF Projects!vars, ProjectsTyped
<1>6. ASSUME NEW id \in Ids, Projects!Open(id) PROVE ProjectsTyped'
  BY <1>0, <1>3, <1>6, ShownTyped DEF Projects!Open, ProjectsTyped
<1>7. CASE Projects!List \/ Projects!SessionEnds
  BY <1>0, <1>2, <1>3, <1>7, ShownTyped DEF Projects!List, Projects!SessionEnds, ProjectsTyped
<1>8. CASE Projects!SignIn
  <2>1. /\ server.sessions + 1 \in Projects!Sessions
        /\ server.sessions + 1 \in 0 .. MaxSessions
    BY <1>0, <1>8, ProjectsBounds DEF Projects!SignIn, Projects!Sessions
  <2>2. [server EXCEPT !.sessions = @ + 1] \in ProjectsServers
    BY <1>0, <2>1 DEF ProjectsServers
  <2> QED
    BY <1>0, <1>3, <1>8, <2>1, <2>2, ShownTyped DEF Projects!SignIn, ProjectsTyped
<1>9. CASE Projects!ViewServed
  <2> DEFINE record == [id |-> page.project, revision |-> server.revision[page.project],
                        shares |-> server.shares[page.project]]
  <2>1. page.view.load # None /\ server.revision[page.project] > 0
    BY <1>9, VisitAssumption DEF Projects!ViewServed
  <2>2. page.project \in Ids
    BY <1>4, <2>1 DEF ProjectsInv, ProjectsGood, ViewKept
  <2>3. record \in ProjectViews
    BY <1>0, <2>1, <2>2, ProjectsBounds DEF ProjectViews
  <2> HIDE DEF record
  <2>4. [page.view EXCEPT !.load = record] \in Hooked
    BY <1>0, <2>3 DEF Hooked, Hooks
  <2>5. [page EXCEPT !.view.load = record] \in ProjectsPages
    BY <1>0, <1>1, <2>4 DEF ProjectsPages
  <2> QED
    BY <1>0, <1>9, <2>5 DEF Projects!ViewServed, ProjectsTyped, record
<1>10. CASE Projects!ViewAnswers
  <2>1. Projects!LoadFailed(page.view, FALSE) \in Hooked
    BY <1>0, ProjectsHooks DEF Hooked
  <2>2. page.view.load \notin {None, Asked} =>
          Projects!Loaded(page.view, page.view.load) \in Hooked
    <3>1. page.view.load \in ProjectViews \cup {None, Asked}
      BY <1>0 DEF Hooked, Hooks
    <3> QED
      BY <1>0, <3>1, ProjectsHooks DEF Hooked
  <2> QED
    BY <1>0, <1>1, <1>10, <2>1, <2>2 DEF Projects!ViewAnswers, ProjectsTyped
<1>11. CASE Projects!RetryView
  <2>1. Projects!Reloaded(page.view, Projects!Key(page), FALSE) \in Hooked
    BY <1>0, ProjectsHooks DEF Hooked
  <2> QED
    BY <1>0, <1>1, <1>11, <2>1 DEF Projects!RetryView, ProjectsTyped
<1>12. ASSUME NEW name \in Projects!Actions, Projects!Act(name) PROVE ProjectsTyped'
  <2>1. PICK share \in IF name = "revoke" THEN Projects!View(page).shares ELSE {None} :
          calls' = calls \cup
            {[name |-> name, key |-> Projects!Key(page), id |-> page.project,
              share |-> share, here |-> TRUE, answer |-> Asked]}
    BY <1>12 DEF Projects!Act
  <2>2. Projects!Key(page) # None /\ Projects!View(page) # None
    BY <1>12 DEF Projects!Act, Projects!Ready
  <2>3. Projects!View(page) \in ProjectViews
    BY <1>0, <2>2 DEF Projects!View, Projects!DataFor, Hooked, Hooks
  <2>4. share \in 1 .. MaxChanges \cup {None}
    BY <2>1, <2>3 DEF ProjectViews
  <2>5. [name |-> name, key |-> Projects!Key(page), id |-> page.project, share |-> share,
         here |-> TRUE, answer |-> Asked] \in ProjectsCalls
    BY <1>4, <2>2, <2>4 DEF ProjectsCalls
  <2>6. [page EXCEPT !.announced = None] \in ProjectsPages
    BY <1>0 DEF ProjectsPages
  <2> QED
    BY <1>0, <1>12, <2>1, <2>5, <2>6 DEF Projects!Act, ProjectsTyped
<1>13. CASE Projects!AskDelete
  <2>1. [page EXCEPT !.question = ~@] \in ProjectsPages
    BY <1>0 DEF ProjectsPages
  <2> QED
    BY <1>0, <1>13, <2>1 DEF Projects!AskDelete, ProjectsTyped
<1>14. ASSUME NEW c \in calls, Projects!Served(c) PROVE ProjectsTyped'
  <2> DEFINE revision == IF c.name = "remove" THEN 0 ELSE server.revision[c.id] + 1
             old == server.shares[c.id]
             shares == CASE c.name = "share"  -> old \cup {revision}
                         [] c.name = "revoke" -> old \ {c.share}
                         [] c.name = "remove" -> {}
                         [] OTHER -> old
  <2>1. c \in ProjectsCalls /\ c.id \in Ids /\ c.name \in Projects!Actions
    BY <1>0 DEF ProjectsCalls
  <2>2. /\ server' = [server EXCEPT !.revision[c.id] = revision, !.shares[c.id] = shares]
        /\ calls' = (calls \ {c}) \cup {[c EXCEPT !.answer = revision]}
        /\ UNCHANGED page /\ revision <= MaxChanges
    BY <1>14 DEF Projects!Served
  <2>3. /\ server.revision[c.id] \in 0 .. MaxChanges /\ old \subseteq 1 .. MaxChanges
    BY <1>0, <2>1
  <2>4. revision \in 0 .. MaxChanges /\ (c.name # "remove" => revision \in 1 .. MaxChanges)
    BY <2>2, <2>3, ProjectsBounds
  <2> HIDE DEF revision, old
  <2>5. shares \subseteq 1 .. MaxChanges
    BY <2>1, <2>3, <2>4 DEF Projects!Actions
  <2> HIDE DEF shares
  <2>6. /\ [server.revision EXCEPT ![c.id] = revision] \in [Ids -> 0 .. MaxChanges]
        /\ [server.shares EXCEPT ![c.id] = shares] \in [Ids -> SUBSET (1 .. MaxChanges)]
    BY <1>0, <2>4, <2>5
  <2>7. server' \in ProjectsServers
    BY <1>0, <2>2, <2>6 DEF ProjectsServers
  <2>8. [c EXCEPT !.answer = revision] \in ProjectsCalls
    BY <2>1, <2>4 DEF ProjectsCalls
  <2> QED
    BY <1>0, <2>2, <2>7, <2>8 DEF ProjectsTyped
<1>15. ASSUME NEW c \in calls, Projects!Answered(c) PROVE ProjectsTyped'
  <2>1. c \in ProjectsCalls /\ c.id \in Ids
    BY <1>0 DEF ProjectsCalls
  <2>2. calls' \subseteq ProjectsCalls /\ UNCHANGED server
    BY <1>0, <1>15, UnheardTyped DEF Projects!Answered
  <2>3. CASE c.name = "remove"
    BY <1>0, <1>3, <1>15, <2>2, <2>3, ShownTyped DEF Projects!Answered, ProjectsTyped
  <2>4. CASE c.name # "remove"
    <3> DEFINE r == Projects!Reloaded(page.view, c.key, FALSE)
               announced == [id |-> c.id, revision |-> c.answer]
               link == CASE c.name = "share"  -> c.answer
                         [] c.name = "revoke" -> None
                         [] OTHER -> page.link
    <3>1. \/ page' = page
          \/ page' = [page EXCEPT !.view = r, !.announced = announced, !.link = link]
      BY <1>15, <2>4 DEF Projects!Answered
    <3>2. c.answer \in 1 .. MaxChanges
      BY <1>15, <2>1, <2>4 DEF Projects!Answered, ProjectsCalls
    <3>3. r \in Hooked
      BY <1>0, ProjectsHooks DEF Hooked
    <3>4. announced \in [id : Ids, revision : 1 .. MaxChanges]
      BY <2>1, <3>2
    <3>5. link \in 1 .. MaxChanges \cup {None}
      BY <1>0, <3>2 DEF ProjectsPages
    <3> HIDE DEF r, announced, link
    <3>6. page' \in ProjectsPages
      BY <1>0, <3>1, <3>3, <3>4, <3>5 DEF ProjectsPages, Hooked
    <3> QED
      BY <1>0, <2>2, <3>6 DEF ProjectsTyped
  <2> QED
    BY <2>3, <2>4
<1>16. ASSUME NEW c \in calls, Projects!Refused(c) PROVE ProjectsTyped'
  <2>1. [page EXCEPT !.question = FALSE] \in ProjectsPages
    BY <1>0 DEF ProjectsPages
  <2> QED
    BY <1>0, <1>16, <2>1 DEF Projects!Refused, ProjectsTyped
<1> QED
  BY <1>5, <1>6, <1>7, <1>8, <1>9, <1>10, <1>11, <1>12, <1>13, <1>14, <1>15, <1>16
     DEF Projects!Next

LEMMA ProjectsTypes == ASSUME ProjectsTyped PROVE Projects!TypeOK
<1>1. /\ page.view.data \in ProjectViews \cup {None}
      /\ \A c \in calls : c.name \in Projects!Actions /\ c.id \in Ids
  BY DEF ProjectsTyped, ProjectsPages, ProjectsCalls, Hooks
<1> QED
  BY <1>1 DEF ProjectsTyped, ProjectsPages, ProjectsServers, ProjectViews, Projects!TypeOK

-----------------------------------------------------------------------------
(* The types of every part. *)

\* What each part keeps, the types with the invariant they rest on.
PartTyped ==
    /\ Owned /\ (part = "session" => SessionTyped)
    /\ part = "opening" => OpeningTyped
    /\ part = "configuring" => ConfiguringInv /\ ConfiguringTyped
    /\ part = "saving" => SavingInv /\ SavingTyped
    /\ part = "publishing" => PublishingInv /\ PublishingTyped
    /\ part = "patterns" => PatternsInv /\ PatternsTyped
    /\ part = "shopping" => ShoppingTyped
    /\ part = "operating" => OperatingTyped
    /\ part = "projects" => ProjectsInv /\ ProjectsTyped

LEMMA PartInitTyped == ASSUME Init PROVE PartTyped
<1>1. Owned /\ (part = "session" => SessionTyped)
  BY OwnedInit, SessionInitTyped DEF Init
<1>2. part = "opening" => OpeningTyped
  BY OpeningInitTyped DEF Init
<1>3. part = "configuring" => ConfiguringInv /\ ConfiguringTyped
  BY ConfiguringInitKeeps, ConfiguringInitTyped DEF Init
<1>4. part = "saving" => SavingInv /\ SavingTyped
  BY SavingInitKeeps, SavingInitTyped DEF Init
<1>5. part = "publishing" => PublishingInv /\ PublishingTyped
  BY PublishingInitKeeps, PublishingInitTyped DEF Init
<1>6. part = "patterns" => PatternsInv /\ PatternsTyped
  BY PatternsInitKeeps, PatternsInitTyped DEF Init
<1>7. part = "shopping" => ShoppingTyped
  BY ShoppingInitTyped DEF Init
<1>8. part = "operating" => OperatingTyped
  BY OperatingInitTyped DEF Init
<1>9. part = "projects" => ProjectsInv /\ ProjectsTyped
  BY ProjectsInitKeeps, ProjectsInitTyped DEF Init
<1> QED
  BY <1>1, <1>2, <1>3, <1>4, <1>5, <1>6, <1>7, <1>8, <1>9 DEF PartTyped

\* Only the part a behaviour is of moves.
LEMMA PartMoves ==
    ASSUME [Next]_vars
    PROVE  /\ part' = part
           /\ part = "session" => Session!Next \/ UNCHANGED Session!vars
           /\ part = "opening" => Opening!Next \/ UNCHANGED Opening!vars
           /\ part = "configuring" => Configuring!Next \/ UNCHANGED page
           /\ part = "saving" => Saving!Next \/ UNCHANGED Saving!vars
           /\ part = "publishing" => Publishing!Next \/ UNCHANGED Publishing!vars
           /\ part = "patterns" => Patterns!Next \/ UNCHANGED Patterns!vars
           /\ part = "shopping" => Shopping!Next \/ UNCHANGED Shopping!vars
           /\ part = "operating" => Operating!Next \/ UNCHANGED Operating!vars
           /\ part = "projects" => Projects!Next \/ UNCHANGED Projects!vars
<1>1. CASE UNCHANGED vars
  BY <1>1 DEF vars, visit, session, Session!vars, Opening!vars, Saving!vars,
     Publishing!vars, Patterns!vars, Shopping!vars, Operating!vars, Projects!vars
<1>2. CASE Next
  BY <1>2 DEF Next
<1> QED
  BY <1>1, <1>2

LEMMA PartStepTyped == ASSUME PartTyped, [Next]_vars PROVE PartTyped'
<1>1. (part = "session" => SessionTyped)'
  BY PartMoves, SessionStepTyped DEF PartTyped, Owned
<1>2. (part = "opening" => OpeningTyped)'
  BY PartMoves, OpeningStepTyped DEF PartTyped
<1>3. (part = "configuring" => ConfiguringInv /\ ConfiguringTyped)'
  BY PartMoves, ConfiguringInvariant, ConfiguringStepTyped DEF PartTyped
<1>4. (part = "saving" => SavingInv /\ SavingTyped)'
  BY PartMoves, SavingInvariant, SavingStepTyped DEF PartTyped
<1>5. (part = "publishing" => PublishingInv /\ PublishingTyped)'
  BY PartMoves, PublishingInvariant, PublishingStepTyped DEF PartTyped
<1>6. (part = "patterns" => PatternsInv /\ PatternsTyped)'
  BY PartMoves, PatternsInvariant, PatternsStepTyped DEF PartTyped
<1>7. (part = "shopping" => ShoppingTyped)'
  BY PartMoves, ShoppingStepTyped DEF PartTyped
<1>8. (part = "operating" => OperatingTyped)'
  BY PartMoves, OperatingStepTyped DEF PartTyped
<1>9. (part = "projects" => ProjectsInv /\ ProjectsTyped)'
  BY PartMoves, ProjectsInvariant, ProjectsStepTyped DEF PartTyped
<1>10. Owned'
  BY OwnedInvariant DEF PartTyped
<1> QED
  BY <1>1, <1>2, <1>3, <1>4, <1>5, <1>6, <1>7, <1>8, <1>9, <1>10 DEF PartTyped

LEMMA PartTypes == ASSUME PartTyped PROVE TypeOK
<1>1. /\ part = "session" => Session!TypeOK
      /\ part = "opening" => Opening!TypeOK
  BY SessionTypes, OpeningTypes DEF PartTyped, Owned
<1>2. /\ part = "configuring" => Configuring!TypeOK
      /\ part = "saving" => Saving!TypeOK
      /\ part = "publishing" => Publishing!TypeOK
      /\ part = "patterns" => Patterns!TypeOK
  BY ConfiguringTypes, SavingTypes, PublishingTypes, PatternsTypes DEF PartTyped
<1>3. /\ part = "shopping" => Shopping!TypeOK
      /\ part = "operating" => Operating!TypeOK
      /\ part = "projects" => Projects!TypeOK
  BY ShoppingTypes, OperatingTypes, ProjectsTypes DEF PartTyped
<1> QED
  BY <1>1, <1>2, <1>3 DEF TypeOK

\* Every part of the frontend keeps the types of its state: pages, hooks, requests
\* in flight and what the server stores are always of the kinds the code declares,
\* with no index outside what is stored and no link, request or grant that names
\* nothing, whatever is clicked, answered, lost or loaded again (the states of
\* draft-session.tsx, configurator-state.ts, private-project-panel.tsx,
\* your-patterns.tsx, auth-context.tsx, use-resource.ts and of the screens).
THEOREM TypeCorrect == Spec => []TypeOK
<1>1. Init => PartTyped
  BY PartInitTyped
<1>2. PartTyped /\ [Next]_vars => PartTyped'
  BY PartStepTyped
<1>3. PartTyped => TypeOK
  BY PartTypes
<1> QED
  BY <1>1, <1>2, <1>3, PTL DEF Spec
=============================================================================
