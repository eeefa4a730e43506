-------------------------- MODULE ProductionProofs --------------------------
(* What TLAPS proves of Production for any orders, lines, checklists and   *)
(* administrators, and for any bound on the revisions: above all that the  *)
(* revision claim makes the commands on a line atomic.                     *)
EXTENDS Production, TLAPS

\* What the invariant says of the rows alone.
RowsInv ==
    /\ \A j \in Lines : job[j].quality = job[j].verdict
    /\ HandoverPassedInspection

LEMMA Split == IInv <=> /\ TypeOK
                        /\ \A w \in Workers : req[w].at # "idle" => StillRight(req[w])
                        /\ RowsInv
BY DEF IInv, RowsInv

\* The records of a row and of a request.
LEMMA RowFields ==
    ASSUME TypeOK, NEW j \in Lines
    PROVE  /\ job[j] \in Row
           /\ job[j].state \in WorkStates /\ job[j].quality \in QualityStates
           /\ job[j].revision \in Nat \ {0} /\ job[j].done \subseteq Items
           /\ job[j].open \in Nat /\ job[j].been \subseteq WorkStates
           /\ job[j].verdict \in QualityStates
BY DEF TypeOK, Row

LEMMA RequestFields ==
    ASSUME TypeOK, NEW w \in Workers
    PROVE  /\ req[w] \in Request
           /\ req[w].at \in Points /\ req[w].revision \in Nat
           /\ req[w].items \subseteq Items /\ req[w].done \in BOOLEAN
BY DEF TypeOK, Request

LEMMA InitInvariant == Init => IInv
BY DEF Init, IInv, TypeOK, OrderRow, Row, NewRow, Request, Idle, Points, WorkStates,
       QualityStates, HandoverPassedInspection

-----------------------------------------------------------------------------
(* The three ways in which a step treats the requests.                     *)

\* A request that stands still knows what it knew, unless its row changed; and
\* a row that changes has a higher revision.
LEMMA OthersStayRight ==
    ASSUME IInv, TypeOK', NEW x \in Workers, req'[x] = req[x], req[x].at # "idle",
           NEW j \in Lines, job'[j].revision > job[j].revision,
           \A l \in Lines \ {j} : job'[l] = job[l]
    PROVE  StillRight(req[x])'
<1>1. StillRight(req[x]) /\ req[x].line \in Lines
  BY DEF IInv, StillRight
<1>2. req[x].revision \in Nat /\ job[j].revision \in Nat /\ job'[j].revision \in Nat
  BY RequestFields, RowFields DEF IInv, TypeOK, Row
<1>3. CASE req[x].line = j
  BY <1>1, <1>2, <1>3 DEF StillRight
<1>4. CASE req[x].line # j
  BY <1>1, <1>4 DEF StillRight
<1> QED BY <1>3, <1>4

\* One request changes and no row does.
LEMMA OneRequest ==
    ASSUME IInv, UNCHANGED <<order, work, job>>,
           NEW w \in Workers, NEW r \in Request, req' = [req EXCEPT ![w] = r],
           r.at # "idle" => StillRight(r)
    PROVE  IInv'
<1>1. TypeOK'
  BY DEF IInv, TypeOK
<1>2. ASSUME NEW x \in Workers, req'[x].at # "idle" PROVE StillRight(req[x])'
  <2>1. StillRight(req'[x])
    BY <1>2 DEF IInv, TypeOK
  <2> QED BY <2>1 DEF StillRight
<1>3. RowsInv'
  BY DEF IInv, RowsInv, HandoverPassedInspection
<1> QED BY <1>1, <1>2, <1>3, Split DEF IInv, RowsInv

LEMMA IdleIsARequest == Idle \in Request /\ Idle.at = "idle"
BY DEF Idle, Request, Points

\* A request ends without an effect on the rows.
LEMMA EndsStep ==
    ASSUME IInv, UNCHANGED <<order, work, job>>, NEW w \in Workers, Finish(w)
    PROVE  IInv'
BY OneRequest, IdleIsARequest DEF Finish

\* A request that has claimed its revision stores a row and ends.
LEMMA StoreStep ==
    ASSUME IInv, order' \in [Orders -> OrderRow], UNCHANGED work,
           NEW w \in Workers, Finish(w), req[w].at # "idle",
           NEW row \in Row, row.revision = job[req[w].line].revision,
           row.quality = row.verdict,
           row.state = "ready_for_fulfilment" => row.verdict = "passed",
           Store(w, row)
    PROVE  IInv'
<1> DEFINE j == req[w].line
<1>1. j \in Lines
  BY DEF IInv, StillRight
<1>2. [row EXCEPT !.revision = @ + 1] \in Row /\ row.revision \in Nat
  BY DEF Row
<1>3. /\ job' = [job EXCEPT ![j] = [row EXCEPT !.revision = @ + 1]]
      /\ job \in [Lines -> Row]
  BY DEF Store, IInv, TypeOK
<1>4. TypeOK'
  BY <1>1, <1>2, <1>3, IdleIsARequest DEF IInv, TypeOK, Finish
<1>5. /\ \A l \in Lines \ {j} : job'[l] = job[l]
      /\ job'[j] = [row EXCEPT !.revision = @ + 1]
      /\ job'[j].revision = row.revision + 1
      /\ job'[j].state = row.state /\ job'[j].quality = row.quality
      /\ job'[j].verdict = row.verdict
  BY <1>1, <1>2, <1>3 DEF Row
<1>6. job'[j].revision > job[j].revision
  BY <1>2, <1>5
<1>7. ASSUME NEW x \in Workers, req'[x].at # "idle" PROVE StillRight(req[x])'
  <2>1. x # w /\ req'[x] = req[x] /\ req[x].at # "idle"
    BY <1>7, IdleIsARequest DEF Finish, IInv, TypeOK
  <2> QED BY <2>1, <1>1, <1>4, <1>5, <1>6, OthersStayRight
<1>8. RowsInv'
  BY <1>1, <1>5 DEF IInv, RowsInv, HandoverPassedInspection
<1> QED BY <1>4, <1>7, <1>8, Split DEF IInv, RowsInv

-----------------------------------------------------------------------------
(* One lemma for each action.                                              *)

LEMMA OrderStep ==
    ASSUME IInv, NEW k \in Orders, CreateWork(k) \/ OrderMoves(k)
    PROVE  IInv'
<1>1. UNCHANGED <<job, req>> /\ work' \in [Orders -> SUBSET LineIndexes]
  BY DEF IInv, TypeOK, CreateWork, OrderMoves
<1>2. order' \in [Orders -> OrderRow]
  <2>1. order \in [Orders -> OrderRow]
    BY DEF IInv, TypeOK
  <2>2. CASE CreateWork(k)
    BY <2>1, <2>2 DEF CreateWork, OrderRow
  <2>3. CASE OrderMoves(k)
    BY <2>1, <2>3 DEF OrderMoves, OrderRow
  <2> QED BY <2>2, <2>3
<1> QED BY <1>1, <1>2 DEF IInv, TypeOK, StillRight, HandoverPassedInspection

\* A request that begins has just read its row.
LEMMA BeginStep ==
    ASSUME IInv, NEW w \in Workers, NEW j \in Lines, NEW point \in Points,
           NEW target \in WorkStates \cup Verdicts \cup {"none"},
           NEW items \in SUBSET Items, NEW done \in BOOLEAN,
           Begin(w, j, point, target, items, done),
           point \in {"count", "transition"} =>
              /\ target \in WorkStates
              /\ target \in WorkTransitions[job[j].state]
              /\ target = "ready_for_fulfilment" => job[j].quality = "passed",
           point = "count" <=> target = "approved",
           point = "quality" => target \in Verdicts /\ job[j].state = "quality_check",
           point = "resolve_issue" => job[j].open > 0
    PROVE  IInv'
<1> DEFINE r == [at |-> point, line |-> j, revision |-> job[j].revision,
                 target |-> target, items |-> items, done |-> done]
<1>1. job[j].revision \in Nat
  BY RowFields DEF IInv
<1>2. r \in Request
  BY <1>1 DEF Request
<1>3. StillRight(r)
  BY <1>1 DEF StillRight
<1>4. UNCHANGED <<job, work>> /\ req' = [req EXCEPT ![w] = r]
  BY DEF Begin
<1>5. UNCHANGED order
  BY DEF Begin
<1> HIDE DEF r
<1> QED BY <1>2, <1>3, <1>4, <1>5, OneRequest

LEMMA ArrivalStep ==
    ASSUME IInv, NEW w \in Workers, Arrival(w)
    PROVE  IInv'
<1>1. PICK j \in Lines :
        \/ \E item \in Items, done \in BOOLEAN : BeginChecklist(w, j, item, done)
        \/ BeginIssue(w, j) \/ BeginResolve(w, j)
        \/ \E target \in WorkStates : BeginTransition(w, j, target)
        \/ \E verdict \in Verdicts : BeginQuality(w, j, verdict)
  BY DEF Arrival
<1>2. ASSUME NEW item \in Items, NEW done \in BOOLEAN, BeginChecklist(w, j, item, done)
      PROVE  IInv'
  BY <1>2, BeginStep DEF BeginChecklist, Points
<1>3. CASE BeginIssue(w, j)
  BY <1>3, BeginStep DEF BeginIssue, Points
<1>4. CASE BeginResolve(w, j)
  BY <1>4, BeginStep DEF BeginResolve, Points
<1>5. ASSUME NEW target \in WorkStates, BeginTransition(w, j, target)
      PROVE  IInv'
  <2>1. CASE target = "approved"
    BY <1>5, <2>1, BeginStep DEF BeginTransition, Points
  <2>2. CASE target # "approved"
    BY <1>5, <2>2, BeginStep DEF BeginTransition, Points
  <2> QED BY <2>1, <2>2
<1>6. ASSUME NEW verdict \in Verdicts, BeginQuality(w, j, verdict)
      PROVE  IInv'
  BY <1>6, BeginStep DEF BeginQuality, Points, Verdicts
<1> QED BY <1>1, <1>2, <1>3, <1>4, <1>5, <1>6

LEMMA CountStep ==
    ASSUME IInv, NEW w \in Workers, CountChecklist(w)
    PROVE  IInv'
<1>1. CASE Required \subseteq job[req[w].line].done
  <2> DEFINE r == [req[w] EXCEPT !.at = "transition"]
  <2>1. req[w] \in Request /\ StillRight(req[w]) /\ req[w].at = "count"
    BY RequestFields DEF IInv, CountChecklist
  <2>2. r \in Request /\ StillRight(r)
    BY <2>1, <1>1 DEF Request, Points, StillRight
  <2>3. UNCHANGED <<order, work, job>> /\ req' = [req EXCEPT ![w] = r]
    BY <1>1 DEF CountChecklist
  <2> HIDE DEF r
  <2> QED BY <2>2, <2>3, OneRequest
<1>2. CASE ~(Required \subseteq job[req[w].line].done)
  BY <1>2, EndsStep DEF CountChecklist
<1> QED BY <1>1, <1>2

\* A command on its line alone: the row it would store is a row of the type.
LEMMA CommitStep ==
    ASSUME IInv, NEW w \in Workers, NEW point \in Points \ {"idle"}, NEW row,
           Commit(w, point, row),
           Claimed(w) => /\ row \in Row
                         /\ row.revision = job[req[w].line].revision
                         /\ row.quality = row.verdict
                         /\ row.state = "ready_for_fulfilment" => row.verdict = "passed"
    PROVE  IInv'
<1>1. CASE Claimed(w)
  BY <1>1, StoreStep DEF Commit, IInv, TypeOK
<1>2. CASE ~Claimed(w)
  BY <1>2, EndsStep DEF Commit
<1> QED BY <1>1, <1>2

\* What a command finds when it claims its revision.
LEMMA WhatIsClaimed ==
    ASSUME IInv, NEW w \in Workers, req[w].at # "idle"
    PROVE  /\ req[w].line \in Lines
           /\ job[req[w].line] \in Row
           /\ StillRight(req[w])
           /\ job[req[w].line].quality = job[req[w].line].verdict
           /\ job[req[w].line].state = "ready_for_fulfilment"
                 => job[req[w].line].verdict = "passed"
<1>1. StillRight(req[w]) /\ req[w].line \in Lines
  BY DEF IInv, StillRight
<1> QED BY <1>1, RowFields DEF IInv, HandoverPassedInspection

LEMMA ChecklistStep ==
    ASSUME IInv, NEW w \in Workers, CommitChecklist(w)
    PROVE  IInv'
<1> DEFINE old == job[req[w].line]
           new == [old EXCEPT !.done = IF req[w].done THEN @ \cup req[w].items
                                                      ELSE @ \ req[w].items]
<1>1. Commit(w, "checklist", new)
  BY DEF CommitChecklist
<1>2. new \in Row /\ new.revision = old.revision /\ new.quality = new.verdict
      /\ (new.state = "ready_for_fulfilment" => new.verdict = "passed")
  BY <1>1, WhatIsClaimed, RequestFields DEF Commit, Row, IInv
<1> QED BY <1>1, <1>2, CommitStep DEF Points

LEMMA IssueStep ==
    ASSUME IInv, NEW w \in Workers, CommitIssue(w)
    PROVE  IInv'
<1> DEFINE old == job[req[w].line]
           new == [old EXCEPT !.open = @ + 1]
<1>1. Commit(w, "create_issue", new)
  BY DEF CommitIssue
<1>2. new \in Row /\ new.revision = old.revision /\ new.quality = new.verdict
      /\ (new.state = "ready_for_fulfilment" => new.verdict = "passed")
  BY <1>1, WhatIsClaimed DEF Commit, Row
<1> QED BY <1>1, <1>2, CommitStep DEF Points

LEMMA ResolveStep ==
    ASSUME IInv, NEW w \in Workers, CommitResolve(w)
    PROVE  IInv'
<1> DEFINE old == job[req[w].line]
           new == [old EXCEPT !.open = @ - 1]
<1>1. Commit(w, "resolve_issue", new)
  BY DEF CommitResolve
<1>2. ASSUME Claimed(w)
      PROVE  new \in Row /\ new.revision = old.revision /\ new.quality = new.verdict
             /\ (new.state = "ready_for_fulfilment" => new.verdict = "passed")
  <2>1. old \in Row /\ old.open > 0
    BY <1>1, <1>2, WhatIsClaimed DEF Commit, Claimed, StillRight
  <2>2. old.open \in Nat /\ old.open - 1 \in Nat
    BY <2>1 DEF Row
  <2> QED BY <1>1, <2>1, <2>2, WhatIsClaimed DEF Commit, Row
<1> QED BY <1>1, <1>2, CommitStep DEF Points

LEMMA QualityStep ==
    ASSUME IInv, NEW w \in Workers, CommitQuality(w)
    PROVE  IInv'
<1> DEFINE old == job[req[w].line]
           v   == req[w].target
           new == [old EXCEPT !.quality = v, !.verdict = v,
                              !.open = IF v = "failed" THEN @ + 1 ELSE @]
<1>1. Commit(w, "quality", new)
  BY DEF CommitQuality
<1>2. ASSUME Claimed(w)
      PROVE  new \in Row /\ new.revision = old.revision /\ new.quality = new.verdict
             /\ (new.state = "ready_for_fulfilment" => new.verdict = "passed")
  <2>1. old \in Row /\ v \in QualityStates /\ old.state = "quality_check"
    BY <1>1, <1>2, WhatIsClaimed DEF Commit, Claimed, StillRight, Verdicts, QualityStates
  <2>2. (IF v = "failed" THEN old.open + 1 ELSE old.open) \in Nat
    BY <2>1 DEF Row
  <2> DEFINE n == IF v = "failed" THEN old.open + 1 ELSE old.open
  <2>3. new = [old EXCEPT !.quality = v, !.verdict = v, !.open = n]
    OBVIOUS
  <2> HIDE DEF n
  <2> QED BY <2>1, <2>2, <2>3 DEF Row, n
<1>3. "quality" \in Points \ {"idle"}
  BY DEF Points
<1> HIDE DEF new, old
<1> QED BY <1>1, <1>2, <1>3, CommitStep DEF old

LEMMA TransitionStep ==
    ASSUME IInv, NEW w \in Workers, CommitTransition(w)
    PROVE  IInv'
<1> DEFINE old == job[req[w].line]
           t   == req[w].target
           new == Moved(old, t)
<1>1. CASE UNCHANGED <<job, order>>
  BY <1>1, EndsStep DEF CommitTransition
<1>2. CASE ~UNCHANGED <<job, order>>
  <2>1. Claimed(w) /\ Store(w, new) /\ Finish(w) /\ UNCHANGED work
        /\ req[w].at = "transition"
        /\ order' = [order EXCEPT ![req[w].line[1]] = [@ EXCEPT !.state = OrderStateOf[t]]]
    BY <1>2 DEF CommitTransition, Synchronized
  <2>2. old \in Row /\ t \in WorkStates
        /\ (t = "ready_for_fulfilment" => old.quality = "passed")
        /\ old.quality = old.verdict
    BY <2>1, WhatIsClaimed DEF Claimed, StillRight
  <2>3. new \in Row /\ new.revision = old.revision /\ new.quality = new.verdict
        /\ (new.state = "ready_for_fulfilment" => new.verdict = "passed")
    BY <2>2 DEF Moved, Row, QualityStates
  <2>4. order' \in [Orders -> OrderRow]
    BY <2>1, <2>2 DEF IInv, TypeOK, OrderRow
  <2> HIDE DEF new
  <2> QED BY <2>1, <2>3, <2>4, StoreStep
<1> QED BY <1>1, <1>2

LEMMA NextInvariant == IInv /\ [Next]_vars => IInv'
<1> SUFFICES ASSUME IInv, [Next]_vars PROVE IInv'
  OBVIOUS
<1>1. CASE UNCHANGED vars
  BY <1>1 DEF vars, IInv, TypeOK, StillRight, HandoverPassedInspection
<1>2. CASE \E k \in Orders : CreateWork(k) \/ OrderMoves(k)
  BY <1>2, OrderStep
<1>3. ASSUME NEW w \in Workers, Arrival(w) \/ Proceed(w) PROVE IInv'
  <2>1. CASE Abandon(w)
    BY <2>1, EndsStep DEF Abandon
  <2> QED BY <1>3, <2>1, ArrivalStep, CountStep, ChecklistStep, IssueStep,
             ResolveStep, TransitionStep, QualityStep DEF Proceed
<1> QED BY <1>1, <1>2, <1>3 DEF Next

\* The inductive invariant: a command that claims the revision it read finds
\* everything as it was when it checked it.
THEOREM Invariance == Spec => []IInv
<1>1. Init => IInv
  BY InitInvariant
<1>2. IInv /\ [Next]_vars => IInv'
  BY NextInvariant
<1> QED BY <1>1, <1>2, PTL DEF Spec

\* Types, and in particular no issue is resolved twice (resolve_issue).
THEOREM TypeCorrect == Spec => []TypeOK
<1>1. IInv => TypeOK
  BY DEF IInv
<1> QED BY <1>1, Invariance, PTL

\* A line handed over has passed the inspection since it last entered the
\* quality check (transition, quality).
THEOREM HandoverIsInspected == Spec => []HandoverPassedInspection
<1>1. IInv => HandoverPassedInspection
  BY DEF IInv
<1> QED BY <1>1, Invariance, PTL

-----------------------------------------------------------------------------
(* The rows a command leaves, as the abstract specification sees them.     *)

\* The rows of a line that the abstract specification keeps.
Shown(row) == [state |-> row.state, quality |-> row.quality, done |-> row.done]

line == [j \in Lines |-> Shown(job[j])]

\* A request that claims its revision replaces one row.
LEMMA StoreShows ==
    ASSUME IInv, NEW w \in Workers, req[w].at # "idle", NEW row \in Row, Store(w, row)
    PROVE  /\ req[w].line \in Lines
           /\ line' = [line EXCEPT ![req[w].line] = Shown(row)]
<1>1. req[w].line \in Lines /\ job \in [Lines -> Row]
  BY WhatIsClaimed DEF IInv, TypeOK
<1>2. job' = [job EXCEPT ![req[w].line] = [row EXCEPT !.revision = @ + 1]]
  BY DEF Store
<1>3. /\ [row EXCEPT !.revision = @ + 1].state = row.state
      /\ [row EXCEPT !.revision = @ + 1].quality = row.quality
      /\ [row EXCEPT !.revision = @ + 1].done = row.done
  BY DEF Row
<1>4. Shown([row EXCEPT !.revision = @ + 1]) = Shown(row)
  BY <1>3 DEF Shown
<1> HIDE DEF Shown
<1> QED BY <1>1, <1>2, <1>4 DEF line

\* The abstract actions as the changes they make.
LEMMA AbstractChanges ==
    /\ \A l \in Lines, d \in SUBSET Items :
          line' = [line EXCEPT ![l] = [Shown(job[l]) EXCEPT !.done = d]] => Floor!Next
    /\ \A l \in Lines, v \in Verdicts :
          /\ job[l].state = "quality_check"
          /\ line' = [line EXCEPT ![l] = [Shown(job[l]) EXCEPT !.quality = v]]
          => Floor!Next
    /\ \A l \in Lines, t \in WorkStates :
          /\ t \in WorkTransitions[job[l].state]
          /\ t = "approved" => Required \subseteq job[l].done
          /\ t = "ready_for_fulfilment" => job[l].quality = "passed"
          /\ line' = [line EXCEPT ![l] =
                [state   |-> t,
                 quality |-> IF t = "quality_check" THEN "not_checked" ELSE job[l].quality,
                 done    |-> job[l].done]]
          => Floor!Next
<1>1. ASSUME NEW l \in Lines
      PROVE  /\ line[l] = Shown(job[l])
             /\ line[l].state = job[l].state /\ line[l].quality = job[l].quality
             /\ line[l].done = job[l].done
  BY DEF line, Shown
<1>2. ASSUME NEW l \in Lines, NEW d \in SUBSET Items,
             line' = [line EXCEPT ![l] = [Shown(job[l]) EXCEPT !.done = d]]
      PROVE  Floor!Next
  <2>1. Floor!Check(l, d)
    BY <1>1, <1>2 DEF Floor!Check, line, Shown
  <2> QED BY <2>1 DEF Floor!Next
<1>3. ASSUME NEW l \in Lines, NEW v \in Verdicts, job[l].state = "quality_check",
             line' = [line EXCEPT ![l] = [Shown(job[l]) EXCEPT !.quality = v]]
      PROVE  Floor!Next
  <2>1. Floor!Inspect(l, v)
    BY <1>1, <1>3 DEF Floor!Inspect, line, Shown
  <2> QED BY <2>1 DEF Floor!Next, Verdicts
<1>4. ASSUME NEW l \in Lines, NEW t \in WorkStates,
             t \in WorkTransitions[job[l].state],
             t = "approved" => Required \subseteq job[l].done,
             t = "ready_for_fulfilment" => job[l].quality = "passed",
             line' = [line EXCEPT ![l] =
                [state   |-> t,
                 quality |-> IF t = "quality_check" THEN "not_checked" ELSE job[l].quality,
                 done    |-> job[l].done]]
      PROVE  Floor!Next
  <2>1. Floor!Allowed(l, t)
    BY <1>1, <1>4 DEF Floor!Allowed, Floor!WorkTransitions, WorkTransitions, line, Shown
  <2>2. Floor!Move(l, t)
    BY <1>1, <1>4, <2>1 DEF Floor!Move, line, Shown
  <2> QED BY <2>2 DEF Floor!Next, Floor!WorkStates, WorkStates
<1> QED BY <1>2, <1>3, <1>4

LEMMA LineType ==
    ASSUME IInv
    PROVE  line \in [Lines -> [state : WorkStates, quality : QualityStates,
                               done : SUBSET Items]]
BY RowFields DEF IInv, line, Shown

LEMMA ChecklistShows ==
    ASSUME IInv, NEW w \in Workers, CommitChecklist(w)
    PROVE  Floor!Next \/ UNCHANGED line
<1> DEFINE j   == req[w].line
           old == job[j]
           d   == IF req[w].done THEN old.done \cup req[w].items
                                 ELSE old.done \ req[w].items
           new == [old EXCEPT !.done = d]
<1>1. Commit(w, "checklist", new)
  BY DEF CommitChecklist
<1>2. CASE UNCHANGED job
  BY <1>2 DEF line
<1>3. CASE ~UNCHANGED job
  <2>1. Store(w, new) /\ req[w].at # "idle"
    BY <1>1, <1>3 DEF Commit
  <2>2. old \in Row /\ req[w].items \subseteq Items /\ j \in Lines
    BY <2>1, WhatIsClaimed, RequestFields DEF IInv
  <2>3. d \in SUBSET Items
    BY <2>2 DEF Row
  <2>4. new \in Row /\ Shown(new) = [Shown(old) EXCEPT !.done = d]
    BY <2>2, <2>3 DEF Row, Shown
  <2>5. line' = [line EXCEPT ![j] = [Shown(old) EXCEPT !.done = d]]
    BY <2>1, <2>4, StoreShows
  <2> HIDE DEF d, j
  <2> QED BY <2>2, <2>3, <2>5, AbstractChanges DEF old
<1> QED BY <1>2, <1>3

LEMMA IssuesShow ==
    ASSUME IInv, NEW w \in Workers, CommitIssue(w) \/ CommitResolve(w)
    PROVE  UNCHANGED line
<1> DEFINE old == job[req[w].line]
<1>1. CASE UNCHANGED job
  BY <1>1 DEF line
<1>2. CASE ~UNCHANGED job
  <2>1. PICK n : n \in {old.open + 1, old.open - 1} /\ Store(w, [old EXCEPT !.open = n])
    BY <1>2 DEF CommitIssue, CommitResolve, Commit
  <2>2. req[w].at # "idle"
    BY DEF CommitIssue, CommitResolve, Commit
  <2>3. old \in Row /\ req[w].line \in Lines /\ job \in [Lines -> Row]
    BY <2>2, WhatIsClaimed DEF IInv, TypeOK
  <2> DEFINE new == [[old EXCEPT !.open = n] EXCEPT !.revision = @ + 1]
  <2>4. job' = [job EXCEPT ![req[w].line] = new]
    BY <2>1 DEF Store
  <2>5. Shown(new) = Shown(old)
    BY <2>3 DEF Row, Shown
  <2> HIDE DEF new, Shown
  <2> QED BY <2>3, <2>4, <2>5 DEF line
<1> QED BY <1>1, <1>2

LEMMA QualityShows ==
    ASSUME IInv, NEW w \in Workers, CommitQuality(w)
    PROVE  Floor!Next \/ UNCHANGED line
<1> DEFINE j   == req[w].line
           old == job[j]
           v   == req[w].target
           n   == IF v = "failed" THEN old.open + 1 ELSE old.open
           new == [old EXCEPT !.quality = v, !.verdict = v, !.open = n]
<1>1. Commit(w, "quality", new)
  BY DEF CommitQuality
<1>2. CASE UNCHANGED job
  BY <1>2 DEF line
<1>3. CASE ~UNCHANGED job
  <2>1. Claimed(w) /\ Store(w, new) /\ req[w].at = "quality"
    BY <1>1, <1>3 DEF Commit
  <2>2. old \in Row /\ j \in Lines /\ v \in Verdicts /\ old.state = "quality_check"
    BY <2>1, WhatIsClaimed DEF Claimed, StillRight
  <2>3. n \in Nat
    BY <2>2 DEF Row
  <2> HIDE DEF n, old, v
  <2>4. new \in Row
    BY <2>2, <2>3 DEF Row, QualityStates, Verdicts
  <2>5. Shown(new) = [Shown(old) EXCEPT !.quality = v]
    BY <2>2 DEF Row, Shown
  <2>6. line' = [line EXCEPT ![j] = [Shown(old) EXCEPT !.quality = v]]
    BY <2>1, <2>4, <2>5, StoreShows
  <2> HIDE DEF j
  <2> QED BY <2>2, <2>6, AbstractChanges DEF old
<1> QED BY <1>2, <1>3

LEMMA TransitionShows ==
    ASSUME IInv, NEW w \in Workers, CommitTransition(w)
    PROVE  Floor!Next \/ UNCHANGED line
<1> DEFINE j   == req[w].line
           old == job[j]
           t   == req[w].target
           q   == IF t = "quality_check" THEN "not_checked" ELSE old.quality
           new == Moved(old, t)
<1>1. CASE UNCHANGED job
  BY <1>1 DEF line
<1>2. CASE ~UNCHANGED job
  <2>1. Claimed(w) /\ Store(w, new) /\ req[w].at = "transition"
    BY <1>2 DEF CommitTransition
  <2>2. /\ old \in Row /\ j \in Lines /\ t \in WorkStates
        /\ t \in WorkTransitions[old.state]
        /\ t = "ready_for_fulfilment" => old.quality = "passed"
        /\ t = "approved" => Required \subseteq old.done
    BY <2>1, WhatIsClaimed DEF Claimed, StillRight
  <2> HIDE DEF old, t
  <2>3. new \in Row
    BY <2>2 DEF Moved, Row, QualityStates
  <2>4. new.state = t /\ new.quality = q /\ new.done = old.done
    BY <2>2 DEF Moved, Row
  <2> HIDE DEF new, q
  <2>5. Shown(new) = [state |-> t, quality |-> q, done |-> old.done]
    BY <2>4 DEF Shown
  <2>6. line' = [line EXCEPT ![j] = [state |-> t, quality |-> q, done |-> old.done]]
    BY <2>1, <2>3, <2>5, StoreShows
  <2> HIDE DEF j
  <2> QED BY <2>2, <2>6, AbstractChanges DEF old, q
<1> QED BY <1>1, <1>2

\* What a single step means to the abstract specification.
LEMMA StepShows == IInv /\ [Next]_vars => Floor!Next \/ UNCHANGED line
<1> SUFFICES ASSUME IInv, [Next]_vars PROVE Floor!Next \/ UNCHANGED line
  OBVIOUS
<1>1. CASE UNCHANGED job
  BY <1>1 DEF line
<1>2. CASE ~UNCHANGED job
  <2>1. PICK w \in Workers : \/ CommitChecklist(w) \/ CommitIssue(w) \/ CommitResolve(w)
                             \/ CommitTransition(w) \/ CommitQuality(w)
    BY <1>2 DEF Next, vars, CreateWork, OrderMoves, Arrival, BeginChecklist, BeginIssue,
           BeginResolve, BeginTransition, BeginQuality, Begin, Proceed, CountChecklist, Abandon
  <2> QED BY <2>1, ChecklistShows, IssuesShow, TransitionShows, QualityShows
<1> QED BY <1>1, <1>2

\* Production implements WorkLine: whatever other administrators do between the
\* reads of a command and its claim, the command takes effect at once or not at
\* all (_claim_revision).
THEOREM CommandsAtomic == Spec => CommandsAreAtomic
<1>1. Init => Floor!Init
  BY DEF Init, Floor!Init, NewRow
<1>2. IInv /\ [Next]_vars => [Floor!Next]_([j \in Lines |-> [state   |-> job[j].state,
                                                             quality |-> job[j].quality,
                                                             done    |-> job[j].done]])
  BY StepShows DEF line, Shown
<1> QED BY <1>1, <1>2, Invariance, PTL DEF Spec, CommandsAreAtomic, Floor!Spec

\* A line becomes approved only while its required checklist items are complete
\* (transition).
THEOREM ApprovalChecked == Spec => ApprovalWasChecked
<1>1. ASSUME IInv, [Next]_vars, NEW j \in Lines,
             job'[j].state = "approved", job[j].state # "approved"
      PROVE  Required \subseteq job'[j].done
  <2>1. /\ line[j].state = job[j].state /\ line'[j].state = job'[j].state
        /\ line[j].done = job[j].done /\ line'[j].done = job'[j].done
    BY DEF line, Shown
  <2>2. Floor!Next
    BY <1>1, <2>1, StepShows
  <2>3. PICK l \in Lines :
          \/ \E done \in SUBSET Items : Floor!Check(l, done)
          \/ \E target \in Floor!WorkStates : Floor!Move(l, target)
          \/ \E verdict \in {"passed", "failed"} : Floor!Inspect(l, verdict)
    BY <2>2 DEF Floor!Next
  <2>4. ASSUME NEW done \in SUBSET Items, Floor!Check(l, done) PROVE FALSE
    <3>1. line' = [line EXCEPT ![l] = [line[l] EXCEPT !.done = done]]
      BY <2>4 DEF Floor!Check, line, Shown
    <3>2. line'[j].state = line[j].state
      BY <3>1, LineType, <1>1
    <3> QED BY <1>1, <2>1, <3>2
  <2>5. ASSUME NEW verdict \in {"passed", "failed"}, Floor!Inspect(l, verdict) PROVE FALSE
    <3>1. line' = [line EXCEPT ![l] = [line[l] EXCEPT !.quality = verdict]]
      BY <2>5 DEF Floor!Inspect, line, Shown
    <3>2. line'[j].state = line[j].state
      BY <3>1, LineType, <1>1
    <3> QED BY <1>1, <2>1, <3>2
  <2>6. ASSUME NEW target \in Floor!WorkStates, Floor!Move(l, target)
        PROVE  Required \subseteq job'[j].done
    <3> DEFINE q == IF target = "quality_check" THEN "not_checked" ELSE line[l].quality
    <3>1. /\ line' = [line EXCEPT ![l] = [line[l] EXCEPT !.state = target, !.quality = q]]
          /\ target = "approved" => Required \subseteq line[l].done
      BY <2>6 DEF Floor!Move, Floor!Allowed, line, Shown
    <3> HIDE DEF q
    <3>2. line'[j].done = line[j].done
      BY <3>1, LineType, <1>1
    <3>3. line'[j].state = IF l = j THEN target ELSE line[j].state
      BY <3>1, LineType, <1>1
    <3> QED BY <1>1, <2>1, <3>1, <3>2, <3>3
  <2> QED BY <2>3, <2>4, <2>5, <2>6
<1>2. IInv /\ [Next]_vars =>
        [\A j \in Lines : job'[j].state = "approved" /\ job[j].state # "approved"
            => Required \subseteq job'[j].done]_vars
  BY <1>1
<1> QED BY <1>2, Invariance, PTL DEF Spec, ApprovalWasChecked
=============================================================================
