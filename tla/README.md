# Formal model of SewnCovers

SewnCovers is a static web application (Next.js, `src/frontend`) in which a visitor
configures a cushion cover, and a FastAPI backend (`src/backend`) on PostgreSQL that keeps
designs, accounts, projects, private pattern uploads, and a sandbox shop with production
work.  This directory models the shop, the production floor and the uploads of the backend and
the behaviour of the frontend in TLA+, checks them with TLC on small instances, and proves the
properties that matter most for every size with TLAPS.

Every definition is translated from the source; `PROJECT.json` (`map`) names the lines each
one stands for.  Paths below are relative to `src/`.

## 1. The system: components, state, interactions

The backend is one Uvicorn process (`docs/deployment.md`).  Ordinary endpoints are `def`
functions which FastAPI runs on a pool of threads, each with a database session of its own
(`persistence/database.py`).  A session is created with `autoflush=False` and
`expire_on_commit=False`: what it loaded stays as it was loaded, and a commit writes only the
columns the session changed.  Services wrap each group of writes in `service_transaction`
(`persistence/transactions.py`): commit, or roll back and re-raise.  There are no background
jobs in the web process; a separate worker process handles uploads.

| Component | State it keeps | Operations | Hard behaviour | What makes it correct |
|---|---|---|---|---|
| Cart and quotes (`commerce/service.py`) | `shopping_carts`, `cart_lines`, `commerce_quotes` | create, reprice, list, add, change, remove, empty | several requests of one account; a quote lapses between two reads; a cart locked by a checkout | a quote is sold once; the cart never stays locked |
| Checkout (`commerce/service.py`, `providers.py`) | `customer_orders`, `payment_attempts`, `production_asset_reservations` | create a checkout, expire it, show the sandbox page | the hosted session is opened between two transactions; provider failure; crash; a row lock that ends early | every pending order can be paid or ends; its images are held exactly while it may be paid |
| Payment events (`commerce/service.py`) | the same, `payment_events`, `order_production_assets`, `order_history` | success, failure, cancellation, refund, mismatch | duplicated, reordered and concurrent events; effect and record in two transactions; payment after expiry | no success is lost or applied twice, nothing is paid without money |
| Orders and refunds (`commerce/service.py`) | the same | state transitions, shipment, refund | decisions by rows that changed since they were read; submission to the provider after the commit | paid orders leave by a refund; a booked refund was asked for |
| Production work (`assurance/service.py`) | `production_work`, `production_checklist_results`, `production_issues`, `production_packets` | checklist, issues, quality, transitions, packet | optimistic revision; the order's state mirrors the last line that moved | nothing is approved unchecked or handed over without passing quality control |
| Legal, trust, readiness (`assurance/`) | `legal_documents`, `legal_acknowledgements` | publish, acknowledge, report | a unique constraint per document and account | an acknowledgement is written once |
| Price books (`commerce/cli.py`, `service.py`) | `price_books` | draft, publish, activate; price a configuration | activation while quotes exist | one active book; prices are a function of book and configuration |
| Uploads and worker (`uploads/`) | `custom_uploads`, `custom_derivatives`, objects in storage | intent, direct upload, confirm, retry, delete, claim, process, moderate, clean up | leases, two workers, deletion during processing, objects and rows out of step | a claim is exclusive; only what was judged is approved; every confirmed upload is decided |
| Accounts and sessions (`accounts/service.py`) | `customer_accounts`, `authenticated_sessions` | register, log in, authenticate, revoke, export, delete | deletion while other requests of the account run | a revoked session is refused; deletion leaves nothing personal |
| Credential backoff (`accounts/backoff.py`) | `credential_backoffs` | check, record, clear | check and record in two transactions | the wait rises with every failure |
| Rate limits (`rate_limits.py`) | an in-memory table | hit, sweep | several rules at once, bounded table | never more than the limit in a period |
| Projects, versions, shares (`projects/`) | `saved_projects`, `project_versions`, `share_grants` | create, append, restore, share, revoke | concurrent appends | version numbers are dense and immutable |
| Designs and patterns (`designs/`, `patterns/`) | `designs`, `patterns` | insert, read | identifier collision | append only |
| Start-up and middleware (`main.py`, `production.py`, …) | none lasting | migrate, verify, serve | — | — |
| Opening a design (`components/configurator/configurator.tsx`, `draft-session.tsx`, `services/shared-design.ts`, `workspace-configuration-loader.tsx`) | the draft in local storage, the configuration, the link being loaded | decide on arrival, restore, load a link, edit, start over, sign out, reload | an answer after an edit; the catalogue or the session arrives later than the link | a late answer never overwrites an edit |
| Configuring (`context/configuration/`, `review-summary.ts`, step components) | the configuration, the stage | every reducer action, stages, review | readiness computed in several places | an offered stage opens; what the review calls ready is accepted by the save |
| Saving (`private-project-panel.tsx`) and publishing (`save-share-panel.tsx`, `services/design-save.ts`) | links of the draft, the panel, the pending action | save to a project, add to the cart, publish, copy the link | chains of requests while the visitor goes on; lost answers; sign-in in the middle | what is called saved is stored; nothing is added twice |
| Own patterns (`your-patterns.tsx`, `preview-step.tsx`) | object URLs, uploads being polled | choose, check, upload, poll, select, remove, preview | decoding, uploading and removing cross | an object URL is revoked once, when nothing shows it |
| API calls (`services/http.ts`, `api-client.ts`, `account-api.ts`) and contracts (`validation.ts`, `commerce-api.ts`, `assurance-api.ts`) | one record per call, timers, the token | send, time out, retry, cancel, read the answer | a request given up on may still run; a server of another version | a write runs once; a newer server is still understood |
| Session of a tab (`context/auth/`) | the token in session storage, the restored session | sign in, register with terms, restore, expire, sign out, delete | late answers of an earlier session; a registration that fails half-way | a screen shows the data of its own session |
| Catalogue (`services/pattern-catalogue.ts`, `api-warmup.ts`) | patterns, filters, the warm-up | load, filter, retry, join the warm-up | a load under older filters; a warm-up that fails late | what is shown belongs to the filters |
| Screens (`use-resource.ts`, `components/commerce`, `assurance`, `projects`) | one resource each, changes in flight | load, reload, change, poll | answers cross; sessions and keys change | a screen is as new as what it reports |

Interactions: checkout reads the cart, freezes quotes into an order and asks the payment
provider for a hosted session; the provider reports back by signed webhooks (Stripe) or by
the sandbox endpoint; a verified payment promotes the order's reserved images and creates
its production work in the same transaction; production moves mirror themselves into the
order; upload and project deletion ask commerce whether an image is reserved; account
deletion deletes across all of them.

## 2. The plan

1. **`Commerce`** (done, section 3): cart, quotes, checkout, payment events, orders, refunds —
   the part where money, crashes and races meet; the abstract specification `Purchases`.
   `CommerceProofs` proves its invariants and that it implements `Purchases`.
2. **`Production`** (done, section 4): work, checklist, quality, revision claims, several lines
   of one order and the mirror into the order's state; the abstract specification `WorkLine`
   and the proof that `Production` implements it.  Next: **`ShopFloor`**, the composition of
   `Commerce` and `Production`, whose commands write the same column of an order (what
   happens to the state of a refunded order when one of its lines moves).
3. **`Uploads`** (done, section 5): owner, worker processes, storage; leases, crashes, retries;
   liveness of every confirmed upload; `UploadsProofs` proves that only judged images are
   approved and that claims are exclusive.  Next: the reservation protocol between uploads and
   checkout in one module with `Commerce`.
4. **`Accounts`**, **`Backoff`**, **`RateLimiter`**: sessions and deletion; the limiter
   against a reference definition over bounded histories.
5. **`Projects`**, **`PriceBooks`**: version numbering, share grants; activation; pricing as a
   pure function.
6. **Frontend** (done, section 6): `Resource`, the hook every screen loads with, as operators;
   `Opening`, `Configuring`, `Saving`, `Publishing`, `Patterns` for the configurator;
   `Contracts`, `Requests`, `Session`, `Catalogue` for the services; `Shopping`,
   `Operating`, `Projects` for the screens; `Visit` and `Client` instantiate them, and
   `OpeningProofs`, `DesignProofs`, `SessionProofs`, `ScreensProofs` and `ClientProofs` prove
   what the runs check of them.  Next: several tabs that share one draft.
7. **Abstract specifications**: `Purchases`, the ledger `Commerce` implements, and `WorkLine`
   for `Production` (done); next, for uploads, an object store in which every object belongs
   to a row.

## 3. `Commerce`: how the model corresponds to the code

One customer account; the tables are variables of the same names (`cart`, `quote`, `order`,
`attempt`, `reserved`, `promoted`, `work`, `outcome`), the provider is `session` and
`refunds`, and `req` holds the requests in progress.

**Steps.**  What one database transaction reads and writes is one step.  A request that reads
in one transaction and writes in another is several: the row it saw is kept in its record
(`ord`, `att`, `rows`, `todo`) and may be stale when it is used.  `Written` says what
a commit does to a column: nothing, if the session assigns the value it had loaded, otherwise
the new value, whatever another session wrote meanwhile.  Handlers with a single transaction
are one action.  Two places need care:

- `create_checkout` locks the cart's row (`with_for_update`) and holds the lock until the order
  is committed, so everything in between is one step (`CheckOutLockedCart`) — unless `_cart`
  had to create or reopen the cart: it commits to do so, the lock is gone, and the session
  goes on with the state it assigned itself (`OpenCartForCheckout`, `ReadRows`,
  `CheckOutUnlockedCart`).
- `payment_webhook` is a coroutine that calls the handler synchronously on the event loop, so
  in the one server process two webhooks never overlap (`WebhookTurn`); the sandbox
  completes checkouts from the thread pool, where they do (`Demonstration`).

**Checkouts** are named by their idempotency key: `payment_attempts` has a unique constraint
on it, so order, attempt and session of a key are functions of the key.

**Time** is two sets that only grow: `due` (attempts past the thirty minutes) and `lapsed`
(quotes past their validity).  `CheckoutFallsDue` and `QuoteLapses` may happen at any moment.

**A crash** (`Crash`) ends a request at any point: what it committed stays.  A crash of the
whole process is a crash of every request, one after the other.

**Events.**  `success` is a payment reported in full; `mismatch` one with other amounts or
identifiers (an event of another Stripe type for the same payment carries no tax);
`incomplete` one without usable shipping details; `failure` and `cancel` leave the hosted
session payable; `refund` and `refund_mismatch` report refunds.  Each may be delivered
again until it is recorded, and while it is being handled.

**The order history** is reduced to two facts a property needs: the order was once sent to
manual review, and its attempt was once cancelled.

**The abstract specification.**  `Purchases` is what a checkout promises its customer, in atomic
steps: an order is placed (`Place`), its money asked for and paid (`Offer`, `Pay`), and then it
is given up (`Drop`), sold (`Sell`) or put before a person (`Refer`); the report of a payment is
acknowledged (`Answer`) only for what was sold or is before a person; a refund is begun for what
was sold, asked of the provider only for money it has, and booked only when it was asked
(`BeginRefund`, `Return`, `EndRefund`).  There are no requests, no rows read earlier, no events
and no crashes.  `PurchasesAreKept` says that `Commerce` implements it: `contents` are the lines
of an order, `held` its reservations, `money` the provider's session, `returned` the refunds the
provider was asked for, `sold` the paid orders, `planned` the work rows, `books` the status of
the attempt, `referred` and `answered` the orders with a review in their history and with a
recorded success.  Every step of `Commerce` is one step of `Purchases` for one checkout, or is
not seen there.

**Left out of this module**: amounts and prices; the revalidation of a quote against its
project version and the catalogue (a 409 without an effect); events with an unknown order;
deletion of the account; the columns of the shipment; audit rows; the later states of a
production line and their mirror in `order.state` (section 4).

### Runs

| Run | Instance | Question and answer |
|---|---|---|
| `administration` | 2 keys, 1 custom quote, 1 request, all events but failures, all administrator targets, sandbox | Are the types kept, is there production work exactly for the lines of paid orders, can the cart be left locked, or a quote sold twice, through crashes, expiry, provider failures, late payments and commands?  All holds. |
| `race` | 1 key, 1 custom quote, 2 requests, Stripe, success, failure and refund, two administrator targets | Does what a payment leaves behind survive every interleaving of two requests, are images held only while the payment is open, and is every booked refund one the provider was asked for?  Yes; the whole inductive invariant `IInv` holds, and every step is one of `Purchases` (`PurchasesAreKept`). |
| `live` | 1 key, 2 quotes (1 custom), 1 request, Stripe, success, `FairSpec` | Does a charge end booked or in review, and an abandoned checkout end, while lines of the cart are changed?  Yes. |
| `refund_lost` | 1 key, 1 quote, 1 request, Stripe, success and refund, `FairSpec` | Is a pending refund put to the provider in the end?  **No** (finding 1). |
| `paid_then_cancelled` | 1 key, success and mismatch | Is a paid order never cancelled without a refund?  **It can be** (finding 2). |
| `sold_twice` | 2 keys, 1 quote, 2 requests | Is a quote sold once?  **Not when the cart was reopened by the checkout** (finding 3). |

**Bounds.**  The only bounds are the sizes of the constant sets; nothing else is
capped.  Two requests are the smallest number that interleave, and each hazard listed in
`PROJECT.json` is about a pair of handlers; two keys are needed for "a later checkout of the
same cart", two quotes for a cart whose lines change.  One custom quote suffices,
as images of different lines do not interact; the quote that is not custom distinguishes the
two sides of every formula about images.  The proofs remove these bounds for the safety
properties they cover.  Requests are interchangeable (`RequestSymmetry`), which is used for
safety only.  Deadlock is checked in every run.

**Fairness** (`Fairness`).  A request in progress goes on or dies (weak fairness).  Strong
fairness stands for: the provider redelivers an event until it is acknowledged; the server does
not crash every single time it handles a webhook or a command; a customer who abandoned a
checkout looks at a cart or the orders again — there is no background job, so without that
nothing would expire it.  Nothing is assumed of payments, time, administrators' decisions or new
checkouts.

### Findings

1. `refund` commits `refund_pending` and then asks the provider.  If that fails it answers
   that "the request remains pending", but a second call sees `refund_pending` and returns
   at once: nobody asks again.
2. `process_webhook` compares amounts before it looks whether the payment is settled.  A later
   event with other amounts moves a paid order's `payment_status` to `manual_review`; from
   there `transition_order` accepts a cancellation it refuses for paid orders.
3. A checkout that had to create or reopen the cart holds no lock on it; a second one may
   freeze the same lines.

`LateFailureIsSafe` is stated in `Commerce` without a run: with the sandbox, whose completions
are not serialised by the event loop, a failure that loaded a pending attempt cancels the
order after a success has paid it.  With two requests, the sandbox and failures TLC refutes
it; with Stripe the event loop serialises the two.

### What is proved

`CommerceProofs` proves, for any sets of keys, quotes, custom quotes, requests and event kinds,
from `CommerceAssumption` alone, that `IInv` is an invariant (`Invariance`), and from it:
`TypeCorrect`, `PaidOrdersWereCharged`, `ImagesAreHeld`, `PaidOrdersArePlanned`,
`PaidOrdersKeepImages`, `SuccessesAreKept`, `RefundsMoveMoney`, `CartIsNeverStuck`.

None of these is inductive by itself, since a step may use a row read long before.
`IInv` adds what a request in progress knows to be *still* true of the rows it read
(`RequestKnows`, `ApplyKnows`): for instance, a success event being applied means the provider
has the money, and the reservations it read are those of the order unless the order was paid
or its attempt cancelled meanwhile; an attempt loaded as settled means the order is paid.  It
adds how the rows of one checkout relate (`RowsAgree`), and that no two requests open the
session of one checkout (`OneOpener`).  The argument rests on facts that never go back: money
received, an order paid, a release or a review in the history.

The proof has one lemma for each action or group of actions with the same effect, for the
conjuncts it can disturb; `Invariance` puts them together.  TLC checked `IInv` as an invariant of
`race` before it was proved.

`QuotesAreSoldOnce` is about any number of requests, too, but not about every interleaving,
as `sold_twice` refutes that: its hypothesis `UnlockedAlone` says that while a checkout that
read its lines without the lock of the cart has yet to commit, no other is before or at
that point.  It excludes the interleaving of finding 3 and no other; with one request in
progress, as in `administration`, it says nothing.  `SaleInv` is `QuoteSoldOnce` with what makes
it inductive: the lines of an order are checked out, and what a checkout read without the lock
belongs to no order yet.

`PurchasesImplemented`: `Commerce` implements `Purchases`, for any number of checkouts, quotes and
requests in progress.  One lemma per action (`...Shows`) says which step of `Purchases` it is; most
rest on `IInv`, as a commit of stale rows is a legal step only because of what the request
still knows.  For `Place` to be legal `RequestKnows` also says that a checkout that read its
lines without the lock read some: no order is placed empty.

**Only model-checked**: the liveness properties (`live`) and everything the violation runs show.

## 4. `Production`: how the model corresponds to the code

`WorkRules` holds the tables of `assurance/service.py`, `WorkLine` is the abstract
specification, `Production` the detailed one, `MCProduction` its instances for TLC and
`ProductionProofs` the proofs.

**State.**  `job[<<order, line>>]` stands for the `production_work` row of a line and the rows
that hang on it: `done` is the set of checklist items with status `complete` (pending and failed
items are treated alike by the code), `open` counts its open issues (their texts decide nothing).
Of `production_history` two facts are kept: the states the line has been in (`been`) and the
last entry for a move into the quality check or an inspection (`verdict`).  `work` says which
lines have a row, `order` holds the two columns of an order that matter here.

**Two-step commands.**  Every command (`checklist`, `create_issue`, `resolve_issue`,
`transition`, `quality`) reads the row, compares the revision the administrator sent
(`_revision`), makes its checks, and only then opens the transaction in which it claims the
revision (`_claim_revision`: an UPDATE with the expected revision in its WHERE clause) and
writes.  So each is a `Begin…` and a `Commit…` action with a record in `req` between
them.  An approval counts the open checklist items in a query of its own and has a third step
(`CountChecklist`).  A command that loses the claim, or whose order is paid and whose line
would be cancelled, rolls back: it ends and nothing has changed.  `Abandon` is a request that
dies, or is refused because it lacks a reason (which depends on its text alone).

**The order.**  `CreateWork` is `create_paid_order_work`, called by the payment event.
`OrderMoves` stands for all commerce commands: it gives the order any of `CommerceStates` and
`CommercePays`, at any time.  This is an abstraction of `Commerce` until the two are composed.

**The abstract specification.**  In `WorkLine` there are no requests and no revisions: to
check an item, to move a line and to inspect it are single steps, guarded by the state they
change.  `CommandsAreAtomic` says that `Production` implements it under the mapping that
forgets revisions, issues and history.

### Runs

| Run | Instance | Question and answer |
|---|---|---|
| `work` | 1 line, 2 items (1 required), 2 administrators, revisions to 8 | Are commands atomic, approvals checked, hand-overs inspected, issues resolved once?  Yes; `IInv` as well. |
| `production_skipped` | 1 line, 1 administrator | Is a line made only after an approval?  **No** (finding 4). |
| `mixed_order` | 2 lines, 1 administrator | Has every line of an order that is ready to ship passed quality control?  **No** (finding 5). |

**Bounds.**  `MaxRevision` is the only bound besides the sizes of sets: no command begins on a
line at that revision (one in progress may still commit).  The shortest way from review to the
hand-over is a completed item, four moves and an inspection, which ends at revision 7; `work`
allows one command more, which is what a failed inspection, a reopened item or a detour through
`on_hold` need to do harm.  Two administrators interleave; a third adds nothing, since all that
one learns of the others is the revision.  The lines of an order do not interact except in
its state, so `work` needs one line (the proofs cover any number) and `mixed_order` has two.  No run
states fairness: nothing has to happen on the production floor.  Deadlock is checked in every
run: `OrderMoves` and requests of other lines remain possible.

### Findings

4. A line on hold may resume in `in_production` wherever it was before.  Review, hold,
   production is a way around the approval and its checklist, although `transition` refuses
   "skipped" transitions.
5. The order takes the state of whichever line moved last.  With two lines it becomes
   `ready_to_ship` with the first hand-over, while the other may still be in review.

### What is proved

`ProductionProofs` proves, for any orders, lines, checklists, administrators and for any
`MaxRevision`, from the definitions alone:

- `Invariance`: `IInv` is an invariant; `TypeCorrect` and `HandoverIsInspected` follow from it.
- `CommandsAtomic`: `Production` implements `WorkLine`.
- `ApprovalChecked`: a line becomes approved only when its required items are complete; it
  follows from the refinement, as a fact about the steps of `WorkLine`.

The types are not inductive (an issue resolved twice would make their number negative), nor
is the hand-over property: a command acts on checks it made in the past.  `IInv` adds
`StillRight`: a request in progress never knows a later revision than its row has, and *while
the row is still at the revision it read*, everything it checked still holds.  This survives every
step of another request, because such a step either leaves the row alone or raises its revision
(`OthersStayRight`); and it gives the claim its meaning: a command that claims its revision
finds its checks valid at that moment (`WhatIsClaimed`).  With it each commit is a step of
`WorkLine`, and everything else a stutter.  TLC checked `IInv` in `work` before it was proved.

**Only model-checked**: what the violation runs show.

**Not modelled** of this component: the packet of a line (a document printed from its rows),
the queue and the other reads, the wording of the history, what account deletion does to rows.

## 5. `Uploads`: how the model corresponds to the code

**State.**  `rows` are the `custom_uploads` rows, reduced to the columns that decide something.
The two timestamps are what the queries make of them: `lease` is `none`, `running` or `lapsed`,
`next` is `none`, `later` or `due`.  `tile` is what the rows of the derivatives show, as a
content; `stored` and `original` are the objects in storage; `open` the intents whose ten
minutes have not passed; `kept` what refers to the derivatives (a project version, a
reservation).  `busy` are the workers' calls of `run_once`, `req` the owner's requests.
`passed`, `overran` and `crashes` are history: the contents the moderation approved, the uploads
held longer than their lease, the workers that died.  `lease_owner` is written but decides
nothing beyond what a worker's own session says, so it has no counterpart.

**Steps.**  Each transaction is a step, and so is each reading of the storage between two.  A
worker keeps the row it loaded in `claim_next` (`seen`) through `Start`, `Store`, `Resume` and
`Judge`, and never reads it again; as in `Commerce` a commit writes only the columns it changed
(`After`).  So a worker that overran its lease and one that replaced it write into one row,
and the row may be a mixture of both.  If a check of the table refuses the mixture (`Allowed`)
the commit raises, nothing catches that, and the worker ends.  `Claim` is one step as the row
is locked and others skip it.  `Store` replaces derivatives; a foreign key refuses that
while something refers to them.  The owner's requests check first and write later
(`BeginConfirm` and `Confirm`, and so on).

**The environment.**  `Transfer` puts any file under the signed address while the intent is
open, also after the confirmation.  Any operation of the storage may fail (`StorageFails`,
and `Erase` deletes any part of what it should).  A worker may die before any step (`Crash`).

| Run | Instance | Question and answer |
|---|---|---|
| `uploads` | 1 upload, 2 workers, 1 request, a good and a bad file, 2 attempts, 1 mishap, `FairSpec` | Is a claim exclusive but for an overrun lease, is an image approved only if it is the confirmed one and was judged, does every confirmed upload come to an end?  Yes (`OneWorkerPerLease`, `ApprovedImageWasJudged`, `WorkEnds`, and the counters of `TypeOK`). |

**Bounds.**  `MaxMishaps` bounds how often a worker dies or overruns its lease: one is enough for
a second worker to take over from a first, which is still at work or is not.  The safety
properties were also run with two.  `MAX_ATTEMPTS` is 3 in the code; with 2 there is a
first, a last and a refused attempt.  Two uploads share nothing but the order of the queue.  The
bad file stands for all that is refused, and the good one differs from it, which is what
`checksum_mismatch` is about.  Deadlock is checked.

**Fairness.**  `worker.py` loops for ever, and a worker that died is started again: as long as
some worker has a step, some worker takes one.  Leases and pauses pass, as they are times.  Nothing
is assumed of the owner, the provider or the storage.

**What is not promised.**  `WorkEnds` names the two places where the code leaves a confirmed upload
for ever.  `Stranded`: `_process` gives the lease back with its first transaction and again with its
second, so a worker that dies in or after them leaves an upload in `processing`, or in
`awaiting_moderation` with no next attempt, which `claim_next` never finds.  `Exhausted`: the
last attempt is counted before it is made; if its worker dies, the next one fails at the
table's check of the counter, and nothing stores a failure.

Three statements are refuted by TLC and have no run:

- `DeletedStaysDeleted`: `ALLOWED_TRANSITIONS` gives `deleted` no successor
  (`backend/app/uploads/service.py:62`).  A worker that loaded the row before the deletion writes
  its next state over it.  (`deleted_at` stays, so the upload is not claimed again.)
- `ReservedImageStays`: deletion "is deferred while an active checkout reserves" the image
  (`service.py:317`).  The reservation may be committed between that check and the deletion.
- With two requests of the owner in progress `OneWorkerPerLease` fails: two confirmations that
  overlap both pass their check, and the later one makes an upload `uploaded` again that a
  worker already holds.  The owner's page sends one at a time, hence one request in `uploads`.

### What is proved

`UploadsProofs` proves, for any finite set of uploads, any workers, contents, attempts and
mishaps, from `UploadsAssumption` and `OneAtATime` (the owner's requests do not overlap):
`TypeCorrect` (`TypeOK`), `ImagesWereJudged` (`ApprovedImageWasJudged`) and `ClaimsAreExclusive`
(`OneWorkerPerLease`).

None is inductive: both are about commits of rows loaded long before.  `IInv` adds
`RowAgrees` (a row has a checksum once it is confirmed, derivatives show that file, an
approved upload's were judged), `RequestKnows` and `WorkerKnows`.  The last is the heart of it:
however stale the rest of a worker's row, its checksum is the one in the table, because only a
confirmation writes that column and it does so before anyone can claim the row.  So whoever
stores derivatives stores those of the confirmed file, two workers that overtake each other
store the same, and the tile that is judged is the tile that will be shown.  The counters
keep their range since a commit either leaves a counter as the table has it or writes a value the
table checks.  `SavesKeeps` is the lemma for any commit of a worker, `RowsStay` for steps that
give no row a checksum and approve nothing.

That a claim is exclusive needs a second invariant, `ClaimInv`.  A row that a worker holds is not
always leased: between the two transactions of `_process` it is `awaiting_moderation` without a
lease and without a time to try again, and what keeps others off is that nothing gives it such a
time.  So `RowWaits` says that only a failure of the provider makes a row wait, `Holds` that the
row of a worker within its lease cannot be claimed in either phase, and `Retries` that a retry of
the owner that would give the row a time finds nobody at work on it, or changes nothing; without
the last the owner's retry in the gap would start a second worker.

**Only model-checked**: `WorkEnds`, which is liveness.

**Not modelled** of this component: renaming; access tokens and reads; lists; quotas of an
account; the deletion of an account's objects; how an image is decoded, cut and encoded.

## 6. The frontend: how the models correspond to the code

The pages run in one browser tab on one event loop: a callback runs to its end, and what
interleaves are answers, timers, effects and the visitor.  So one action is one callback with
the state updates it makes and the effects React runs for them (`Render`, `Keyed`, `Effects`
are those effects).  A request is a member or a field of `calls`; the
server serves it or not, and its answer arrives or not.  Three conventions keep the state small:

- a counter that the code only compares with its newest value (a request's version, a
  generation, the configuration's revision) is kept as the answer of that comparison;
- a request that was aborted, or whose version is older, is forgotten, as its answer changes
  nothing in the page (but it may still run on the server: `stray` in `Requests`,
  `Leave` in `Publishing`);
- a design is a value and its fingerprint is itself, except in `Configuring`, whose subject is
  what a design consists of.

| Module | Models | State and actions |
|---|---|---|
| `Resource` | `services/use-resource.ts` | Operators on what one hook remembers: `Rekeyed` (the effect), `Loaded`, `LoadFailed`, `Reloaded`, `Updated`, and what a render reads (`DataFor`, `ErrorFor`, `LoadingFor`).  The screens' modules extend it. |
| `Opening` | `configurator.tsx` (arrival), `draft-session.tsx`, `draft-links.ts`, `shared-design.ts` and its loader, `workspace-configuration-loader.tsx` | `Arrive` is `planArrival` and what follows; `KeepStored`, `ReplaceStored` answer its question; `DesignAnswers`, `CatalogueAnswers` feed `#reconcile`; `WorkspaceAnswers` the other loader; `Edit`, `Dismiss`, `StartOver`, `SignOut`, `Reload`. `work`, `exposed` and `lost` are history: the visitor's unsaved designs, those a link began to load over, those it replaced. |
| `Configuring` | the reducer, `measurements.ts`, `review-summary.ts`, the steps, `design-save.ts` (what it accepts), `draft-configuration.ts` | Measurements are hundredths of their unit, conversions round as the code does; every reducer action is an action. |
| `Saving` | `private-project-panel.tsx`, `configurator-draft.ts` | `Start` begins a chain of requests that keeps what was on the screen; `Look`, `CreateVersion`, `CreateProject`, `LookAtCart`, `ReuseQuote`, `CreateQuote`, `AddQuote` are its steps, each answered or lost; `Resumed` is the action pending over a sign-in. |
| `Publishing` | `save-share-panel.tsx`, `design-save.ts` | The controller of one panel and the records the server stores. |
| `Patterns` | `your-patterns.tsx`, `upload-availability.ts`, `pattern-step.tsx`, `preview-step.tsx` | `urls` counts how often each object URL was revoked; what the server makes of an upload is any state it may be in by then. |
| `Contracts` | `validation.ts`, `account-api.ts`, `commerce-api.ts`, `assurance-api.ts`, `api-client.ts`, `design-contract.ts` | A table of calls and records; an answer is good or has one deviation in one field; `Accepts` is what the readers make of it. |
| `Requests` | `http.ts`, `api-client.ts`, `accountRequest` | One call: attempts, the time limit over head and body, retries of reads, announcements, cancellation, the end of a refused session. |
| `Session` | `auth-context.tsx`, `use-account-resource.ts`, `auth-form.tsx`, `account-screen.tsx` | The token, the session a sign-in started, the check of a stored one, one resource of a screen; `Tokens` the server can issue. |
| `Catalogue` | `pattern-catalogue.ts`, `use-pattern-catalogue.ts`, `api-warmup.ts` | One mount, its newest load, the warm-up it may join. |
| `Shopping` | `cart-screen.tsx`, `pricing-quotes-screen.tsx`, `orders-screen.tsx`, `sandbox-checkout-screen.tsx` | Whose data is shown and whether the order is settled; the poll's timer. |
| `Operating` | `production-operations-screen.tsx`, `admin-screen.tsx` | Filters and revision of the queue, orders and refunds. |
| `Projects` | `projects-screen.tsx` | The open project, its view and what it reports. |

### Runs

The parts share no state, so one run looks at each by itself: `part` is chosen initially and never
changes, and what another part would use is `None`.

| Run | Instance | Question and answer |
|---|---|---|
| `visit` (`Visit`) | 2 designs and a linked one, 2 projects, versions, filters, orders, tokens | What may a page never do, with edits, answers, failures, sign-ins, sign-outs and reloads in every order?  `NewerEditKept`, `OfferedStageOpens`, `ReviewIsSaved`, `SavedIsStored`, `NothingTwice`, `LinkIsWhatWasSent`, `UrlsEndOnce`, `QueueIsNewest`, `ReportedIsShown`, `StoredAcknowledged`, `ScreenShowsOwnSession` hold. |
| `client` (`Client`) | every call of the clients, 1 token, 3 filters, 2 sessions of the shop | Do writes run once, are announcements in order and newer answers understood (`WritesRunOnce`, `StatusesInOrder`, `AnswersAreRead`, `ShownByItsFilters`), and does what a page waits for come to an end (`EveryCallEnds`, `CheckEnds`, `CatalogueSettles`, `PaymentResultShown`)?  Yes. |

**Bounds.**  Two designs of the visitor and one of a link distinguish older, newer and foreign
work.  `Saving` has an account of two versions, and of projects and quotes three together: one
project with two quotes (what a lost answer may double), or two projects with one quote (a link
to another project). `Publishing` stores three records: one whose answer was lost, its
repetition, another design's.  `Patterns` follows one upload and two object URLs, so that one
file replaces another.  `Operating` and `Projects` have revisions up to 2 and 3 and two actions
in flight: the shortest crossing is an action, a load served before it and answered after it, and
a second action (in `Projects` the bound is one of a project, and of any two together).
`Shopping` has two sessions, the earlier and the later.  `Catalogue` loads three times in a
mount: the one that is overtaken, the one that overtakes, and a retry.  The retries of `Requests`
are the code's own limit.  `MaxCalls`, `MaxLoads`, `MaxPolls`, `MaxRecords`, `MaxRevisions`,
`MaxChanges`, `MaxSessions`, `MaxUploads`, `MaxUrls`, `MaxVersions` and `MaxStored` are guards of
the actions that would exceed them.  `visit` does not check deadlock: at their bounds some parts
have nothing left to do, as a visitor may leave.

**Fairness.**  Of the browser only: timers fire (`TimeLimit`, `RetryDelay`, `ExpiryTimer`,
`PollTimer`), a page that asked for something sends it (`Begin`), and because the transport
has a time limit over head and body every request of a page ends, with a failure if nothing
else (`CheckFails`, `ListFails`, `OrderAnswers \/ OrderFails`, `WarmupMoves`, `WarmupEnds`,
`RequestEnds`).  One assumption is about the server: an order that is asked for again and again
is answered some time (strong fairness of `OrderAnswers`); without it a page after a checkout
shows no result, and the code claims nothing else.  `Client` states the fairness of several
parts as one disjunction; as `part` never changes this is the fairness of each part in its own
behaviours.

### What the documents say and the code does not do

These statements are in the modules next to the properties; TLC finds a behaviour against each.
They have no run of their own.

- `Opening!LinksAskFirst`: "a link that would overwrite an unsaved design asks first"
  (`docs/design.md:245`).  `planArrival` looks at the stored draft; a design made
  before the decision and not stored yet is replaced without a question.
- `Saving!SignedOutIsUnlinked`: signing out "removes everything tied to the account"
  (`services/configurator-draft.ts:301`).  A save answered after the sign-out links the draft again.
- `Shopping!SwitchShowsLoading`: "switching between them shows the loading state"
  (`orders-screen.tsx:230`).  Going back to what settled last shows it while it is asked for again.
- `Session!LateRefusalSparesNewer`: a 401 "for a request that carried the session ends it"
  (`docs/architecture.md:65`).  The late refusal of a request of an earlier session removes
  whatever token is stored.
- "Saving again never creates a duplicate project" (`docs/design.md:244`).  If the answer to the
  creation is lost the draft is not linked, and the next save creates a second project:
  in `Saving`, `CreateProject` with its answer lost, twice.

### What is proved

Every theorem is about `Visit` or `Client`, for any values of their constants.  `Client` assumes
nothing; `Visit` assumes that values the code tells apart are different (`VisitAssumption`):
"nothing" from a number, a token or a design, and the blank design and the link's from the
visitor's own (a visitor who makes the link's very design loses nothing when it is opened).  The
types also need what `VisitBounds` says of the instance: what a visitor types are numbers, there
is a detail to choose, and the bounds are positive numbers.  As
the parts share no state, a proof follows the invariant of one part and `part` selects it.

Hardly any of the properties is inductive.  Most are about something remembered from before the
steps it has to survive, so the invariants say what is remembered, and that it stays true:

- `OpeningProofs`: `EditsSurvive` (`NewerEditKept`).
  `LinksCover`: while a loader may still replace the design, since it has a request out or an
  answer that waits for the catalogue and has not heard of an edit, all unsaved work was there
  when the link began to load.  `Kept`: once the arrival is decided unsaved work is on the
  screen, before it may also be in the draft, and it is not what the draft's links
  say is stored elsewhere; so an arrival that asks nothing replaces nothing.
- `DesignProofs`, a design in the visitor's hands:
  - `OfferedStagesOpen` (`OfferedStageOpens`) and `ReviewsAreSaved` (`ReviewIsSaved`), from
    `ConfiguringInv`: the stages asked for are stages, and a design has all its parts.  The rest
    is a case distinction over the stages' conditions: what `Allowed`, `CanContinue` and
    `Revisitable`, which the code computes apart, let through agrees.
  - `SavesAreStored` (`SavedIsStored`) and `NothingIsSavedTwice` (`NothingTwice`), from `SavingInv`.
    `Remembered` is what the draft and the panel know of the account, `Acting` what the
    action found out before its next request: that the newest version is another design, that
    no quote of the cart is for this version, that the quote to add is for it.  These
    findings stay true until the request that relies on them because only one action of a
    tab is in flight and what happens elsewhere only takes from the account.
  - `UrlsAreRevokedOnce` (`UrlsEndOnce`), from `PatternsInv`.  `Booked` is the ledger of the
    object URLs: each was revoked once, or is in exactly one of three places: a check, the form,
    the picture.  `Revoking`, `Showing` and `Creating` are the three ways the code moves a URL,
    and every action is made of them.  `ImageKept` says that a picture, or the request for one,
    belongs to the source that is shown, so that no picture is hidden and forgotten.
  - `LinksLeadToWhatWasSent` (`LinkIsWhatWasSent`), from `PublishingInv`: the one request that is
    out is for what the panel shows as being sent.
- `SessionProofs`: `TermsBeforeSession` (`StoredAcknowledged`).  `TermsInv` follows a registration
  through its acknowledgement and a page that is loaded in between.
- `ScreensProofs`, which follow every resource from its key over the load that is out to the data
  that settled, also under a key that is not shown now:
  - `ScreensShowOwn` (`ScreenShowsOwnSession`): for the account `OwnList` says that the resource
    was last keyed by the stored token or by nothing, and that its data are of its key;
    `ShoppingInv` and `OperatingInv` say the same of the shop's and the administration's.
  - `QueueStaysNewest` (`QueueIsNewest`), from `OperatingInv`: what is on its way or fresh is of
    the chosen filters and no older than what refused the last action.
  - `ProjectIsAsReported` (`ReportedIsShown`), from `ProjectsInv`: likewise for a project, whose
    answers carry the revision they reached.
  - `TypeCorrect` (`TypeOK`), for all parts of `Visit` together.  Its invariant is `PartTyped`:
    for each part a description of its page, its requests and the server's records that is closed
    under the part's steps (`OpeningTyped`, `ConfiguringTyped` and so on, each proved in the
    module of its part), and the invariants above where the types rest on them, as for the
    projects a draft's link and a pending save name, which the server must have, and the object
    URLs a page shows, which it must have made.
- `ClientProofs`: `WritesOnce` (`WritesRunOnce`) and `ToldInOrder` (`StatusesInOrder`), for every
  call of the table and every order of answers and timers.  `OneRequest` says that a write never
  pauses for a retry, and that of its requests, on their way, stray or served, there is at most
  one.  `Announced`: while the timer that announces a cold start runs, only the connection was
  announced, and a call that goes on has not announced its end.  `AnswersUnderstood`
  (`AnswersAreRead`) goes through the tables: in no record is a field both of a closed set of
  values and only shown, whatever the server may leave null is read as such (`RecordsReadable`),
  and every call is answered by a record of the contract (`CallsAnswered`); `Understood` then
  says of a call that is called malformed that its parser refused the body, which no such
  answer's does (`RefusedIsNotSent`).  `FiltersMatch` (`ShownByItsFilters`), from `Listed`: a
  load that begins shows nothing, and what an answer brings is shown under the filters it was
  asked for.

**Only model-checked**: the liveness properties of `client`.

**Not modelled**: the geometry of the cushion and its drawing (floating-point, no state); the
static pages; the text in a measurement field before it is committed; several tabs of one
browser, whose drafts overwrite each other; the link shown after a project was
shared; the form for price books; the list of an account's sessions and the export of its data.

## 7. What is not modelled of the backend

Accounts and sessions with their credential backoff, rate limits,
projects and versions, price books, production assets, legal documents, start-up and
middleware: see the plan.  `PROJECT.json` lists each with its reason, and the
hazards no property covers yet.

## 8. What is out of the prover's reach

Liveness under fairness and `ENABLED` (the runs `live`, `uploads` and `client`); induction over
data, such as what the fold `Versions` of `Saving` counts (it is only a bound there).  No module of
the project declares a `RECURSIVE` operator.
