------------------------------- MODULE Uploads -------------------------------
(***************************************************************************)
(* Uploaded patterns: the custom_uploads rows, the objects in storage, the *)
(* owner's requests and the workers that process and moderate              *)
(* (backend/app/uploads/service.py and worker.py).                         *)
(*                                                                         *)
(* As in Commerce, a database session never refreshes what it loaded and   *)
(* writes only the columns it changed.  A worker keeps the row it claimed  *)
(* (seen) through all its transactions, and a request keeps the row it     *)
(* checked.  Each transaction is a step, and so is what a worker reads     *)
(* from storage between two of them.  Any operation of the storage may     *)
(* fail, and a worker may die before any step.                             *)
(***************************************************************************)
EXTENDS Naturals, FiniteSets

CONSTANTS
    Uploads,    \* custom_uploads rows, numbered by created_at
    Workers,    \* worker processes
    Requests,   \* requests of the owner that may be in progress at once
    Contents,   \* image files of the declared size and type
    Bad,        \* the contents that do not decode to an acceptable image
    MAX_ATTEMPTS, \* of the processing, and of the moderation: 3 in the code
    MaxMishaps, \* bound: how often a worker dies or overruns its lease
    None

VARIABLES
    rows,       \* custom_uploads
    tile,       \* the custom_derivatives of an upload: the content they show
    stored,     \* the uploads whose derivatives are objects in storage
    original,   \* the quarantined object of an upload
    open,       \* uploads whose intent_expires_at has not passed
    kept,       \* what refers to the derivatives: a version, a reservation
    overran,    \* uploads a worker has held longer than its lease
    passed,     \* contents the moderation approved, by upload
    busy,       \* the workers' calls of run_once
    req,        \* the owner's requests
    crashes     \* how often a worker died

objects == <<tile, stored, original>>
marks   == <<overran, passed, crashes>>    \* for the properties and the bound
vars    == <<rows, objects, open, kept, busy, req, marks>>

States == {"absent", "awaiting_upload", "uploaded", "processing",
           "awaiting_moderation", "approved", "rejected", "failed",
           "deleted", "expired"}
Moderation == {"not_started", "pending", "approved", "rejected",
               "unavailable", "failed"}
Verdicts   == {"approved", "rejected", "unconfigured", "failed"}
Content    == Contents \cup {None}

\* The columns of a row that decide something.  The two timestamps are what
\* the queries make of them: lease_expires_at and next_attempt_at.
Row == [state : States, checksum : Content,
        lease : {"none", "running", "lapsed"}, next : {"none", "later", "due"},
        starts : 0..MAX_ATTEMPTS, looks : 0..MAX_ATTEMPTS,
        processed : BOOLEAN, moderation : Moderation, gone : BOOLEAN]
NoRow == [state |-> "absent", checksum |-> None,
          lease |-> "none", next |-> "none", starts |-> 0, looks |-> 0,
          processed |-> FALSE, moderation |-> "not_started", gone |-> FALSE]

ASSUME UploadsAssumption ==
    /\ Uploads \subseteq Nat /\ IsFiniteSet(Uploads)
    /\ Bad \subseteq Contents
    /\ None \notin Uploads \cup Workers \cup Contents
    /\ MAX_ATTEMPTS \in Nat \ {0} /\ MaxMishaps \in Nat

(***************************************************************************)
(* A worker: where it stands, its upload, the row its session holds, the   *)
(* content it read and the overdue uploads it lists.  A request: the same, *)
(* as far as it goes.                                                      *)
(***************************************************************************)
Claimed == {"start", "read", "store", "resume", "look", "judge"}
Worker  == [at : {"idle", "expire", "claim"} \cup Claimed,
            up : Uploads \cup {None}, seen : Row, content : Content,
            todo : SUBSET Uploads]
Free    == [at |-> "idle", up |-> None, seen |-> NoRow, content |-> None,
            todo |-> {}]
Request == [at : {"idle", "confirm", "retry", "delete", "erase"},
            up : Uploads \cup {None}, seen : Row, content : Content]
Idle    == [at |-> "idle", up |-> None, seen |-> NoRow, content |-> None]

Init ==
    /\ rows = [u \in Uploads |-> NoRow]
    /\ tile = [u \in Uploads |-> None]
    /\ stored = {}
    /\ original = [u \in Uploads |-> None]
    /\ open = {}
    /\ kept = [u \in Uploads |-> "free"]
    /\ overran = {}
    /\ passed = [u \in Uploads |-> {}]
    /\ busy = [w \in Workers |-> Free]
    /\ req = [r \in Requests |-> Idle]
    /\ crashes = 0

\* A flush: a column keeps the value in the table unless the session changed it
\* from the value it had loaded.
Written(column, seen, new) == IF new = seen THEN column ELSE new

\* The row after the commit of one that was loaded as `seen` and is `new` in the
\* session.
After(u, seen, new) ==
    [state      |-> Written(rows[u].state, seen.state, new.state),
     checksum   |-> Written(rows[u].checksum, seen.checksum, new.checksum),
     lease      |-> Written(rows[u].lease, seen.lease, new.lease),
     next       |-> Written(rows[u].next, seen.next, new.next),
     starts     |-> Written(rows[u].starts, seen.starts, new.starts),
     looks      |-> Written(rows[u].looks, seen.looks, new.looks),
     processed  |-> Written(rows[u].processed, seen.processed, new.processed),
     gone       |-> Written(rows[u].gone, seen.gone, new.gone),
     moderation |->
        Written(rows[u].moderation, seen.moderation, new.moderation)]

\* The objects of some uploads are deleted; a failure leaves them.
Erase(us) ==
    /\ original' = [u \in Uploads |-> IF u \in us THEN None ELSE original[u]]
    /\ stored' = stored \ us

-----------------------------------------------------------------------------
(* The owner.                                                              *)

\* create_intent.
Create(u) ==
    /\ rows[u].state = "absent"
    /\ \A v \in Uploads : v < u => rows[v].state # "absent"
    /\ rows' = [rows EXCEPT ![u].state = "awaiting_upload"]
    /\ open' = open \cup {u}
    /\ UNCHANGED <<objects, kept, busy, req, marks>>

\* The transfer of the file.  The address is signed for the time of the intent
\* and does not look at the row: a file may also arrive after the confirmation.
Transfer(u, c) ==
    /\ u \in open
    /\ original' = [original EXCEPT ![u] = c]
    /\ UNCHANGED <<rows, tile, stored, open, kept, busy, req, marks>>

\* The ten minutes of the intent pass (INTENT_LIFETIME).
IntentLapses(u) ==
    /\ u \in open
    /\ open' = open \ {u}
    /\ UNCHANGED <<rows, objects, kept, busy, req, marks>>

\* A request has loaded and checked the row, and looked at the objects.  Of the
\* row it keeps as `seen` the columns its transaction may leave as they are.
Begin(r, point, u, seen, content) ==
    /\ req[r] = Idle
    /\ req' = [req EXCEPT ![r] = [at |-> point, up |-> u, seen |-> seen,
                                  content |-> content]]
    /\ UNCHANGED <<rows, objects, open, kept, busy, marks>>

BeginConfirm(r, u) ==
    /\ rows[u].state = "awaiting_upload" /\ u \in open
    /\ original[u] # None
    /\ Begin(r, "confirm", u, NoRow, original[u])

Retriable(row) ==
    \/ /\ row.state = "failed"
       /\ IF row.processed THEN row.looks < MAX_ATTEMPTS
                           ELSE row.starts < MAX_ATTEMPTS
    \/ /\ row.state = "awaiting_moderation"
       /\ row.moderation = "unavailable" /\ row.looks < MAX_ATTEMPTS

BeginRetry(r, u) ==
    /\ Retriable(rows[u])
    /\ Begin(r, "retry", u, [NoRow EXCEPT !.state = rows[u].state,
                                 !.next = rows[u].next,
                                 !.processed = rows[u].processed], None)

\* delete_owned: deferred while a checkout reserves the derivatives.
BeginDelete(r, u) ==
    /\ rows[u].state \notin {"absent", "deleted", "expired"}
    /\ kept[u] # "reserved"
    /\ Begin(r, "delete", u, [NoRow EXCEPT !.lease = rows[u].lease], tile[u])

\* The request writes `new` and goes on to `point`.
Commit(r, new, point) ==
    /\ rows' = [rows EXCEPT ![req[r].up] = After(req[r].up, req[r].seen, new)]
    /\ req' = [req EXCEPT ![r] = IF point = "idle" THEN Idle
                    ELSE [req[r] EXCEPT !.at = point, !.seen = NoRow]]
    /\ UNCHANGED <<objects, open, kept, busy, marks>>

Confirmed(seen, content) ==
    [seen EXCEPT !.state = "uploaded", !.next = "due", !.checksum = content]
Retried(seen) ==
    [seen EXCEPT !.next = "due",
                 !.state = IF seen.processed THEN "awaiting_moderation"
                                             ELSE "uploaded"]
Deleted(seen) == [seen EXCEPT !.state = "deleted", !.gone = TRUE, !.lease = "none"]

Confirm(r) ==
    /\ req[r].at = "confirm"
    /\ Commit(r, Confirmed(req[r].seen, req[r].content), "idle")

Retry(r) == req[r].at = "retry" /\ Commit(r, Retried(req[r].seen), "idle")

Delete(r) == req[r].at = "delete" /\ Commit(r, Deleted(req[r].seen), "erase")

\* The objects go after the commit, if the storage answers: the derivatives that
\* were there before it, not those a worker has stored since.
EraseDeleted(r) ==
    LET u      == req[r].up
        listed == IF req[r].content = None THEN {} ELSE {u}
    IN  /\ req[r].at = "erase"
        /\ original' \in {original, [original EXCEPT ![u] = None]}
        /\ stored' \in {stored, stored \ listed}
        /\ req' = [req EXCEPT ![r] = Idle]
        /\ UNCHANGED <<rows, tile, open, kept, busy, marks>>

-----------------------------------------------------------------------------
(* What refers to the derivatives: foreign keys that restrict.             *)

\* A project version is saved with the pattern.
Refer(u) ==
    /\ rows[u].state = "approved" /\ kept[u] = "free"
    /\ kept' = [kept EXCEPT ![u] = "referenced"]
    /\ UNCHANGED <<rows, objects, open, busy, req, marks>>

\* A checkout revalidates a quote that uses the pattern, and freezes the order.
\* (What happens between the two is in Commerce; here it is a step.)
Reserve(u) ==
    /\ rows[u].state = "approved" /\ kept[u] = "referenced"
    /\ kept' = [kept EXCEPT ![u] = "reserved"]
    /\ UNCHANGED <<rows, objects, open, busy, req, marks>>

\* The checkout is paid, cancelled or expires.
Release(u) ==
    /\ kept[u] = "reserved"
    /\ kept' = [kept EXCEPT ![u] = "referenced"]
    /\ UNCHANGED <<rows, objects, open, busy, req, marks>>

-----------------------------------------------------------------------------
(* Time.                                                                   *)

\* Another worker may die, or overrun its lease.
Mishap == crashes + Cardinality(overran) < MaxMishaps

\* The two minutes of a lease pass (LEASE_LIFETIME), after its worker died or
\* while it is at work.
LeaseLapses(u) ==
    /\ rows[u].lease = "running"
    /\ rows' = [rows EXCEPT ![u].lease = "lapsed"]
    /\ \/ /\ \A w \in Workers : busy[w].up # u
          /\ UNCHANGED overran
       \/ /\ \E w \in Workers : busy[w].up = u
          /\ Mishap
          /\ overran' = overran \cup {u}
    /\ UNCHANGED <<objects, open, kept, busy, req, passed, crashes>>

\* The pause before the next moderation passes (RETRY_BACKOFF).
BackoffPasses(u) ==
    /\ rows[u].next = "later"
    /\ rows' = [rows EXCEPT ![u].next = "due"]
    /\ UNCHANGED <<objects, open, kept, busy, req, marks>>

-----------------------------------------------------------------------------
(* The worker: run_once.                                                   *)

Stops(w) == busy' = [busy EXCEPT ![w] = Free]

\* (Mutant: the attempts are not bounded.)
AllowedUnbounded(row) ==
    row.state \in {"approved", "rejected"} => row.moderation = row.state

\* The checks of the table that a row may fail.
Allowed(row) ==
    /\ row.starts <= MAX_ATTEMPTS /\ row.looks <= MAX_ATTEMPTS
    /\ row.state \in {"approved", "rejected"} => row.moderation = row.state

GoneOn(worker, point, seen) == [worker EXCEPT !.at = point, !.seen = seen]

\* A worker commits its row and goes on to `point`.  If the table refuses the
\* row nothing catches that, and the worker ends.
Saves(w, new, point) ==
    LET u   == busy[w].up
        row == After(u, busy[w].seen, new)
    IN  IF Allowed(row)
        THEN /\ rows' = [rows EXCEPT ![u] = row]
             /\ busy' = [busy EXCEPT ![w] =
                   IF point = "idle" THEN Free
                   ELSE GoneOn(@, point, new)]
        ELSE UNCHANGED rows /\ Stops(w)

Overdue == {u \in Uploads : rows[u].state = "awaiting_upload" /\ u \notin open}

\* cleanup_expired lists the overdue intents and deletes their objects.
RunOnce(w) ==
    /\ busy[w].at = "idle" /\ Overdue # {}
    /\ \E us \in SUBSET Overdue : Erase(us)
    /\ busy' = [busy EXCEPT ![w].at = "expire", ![w].todo = Overdue]
    /\ UNCHANGED <<rows, tile, open, kept, req, marks>>

\* Its transaction.
Expire(w) ==
    /\ busy[w].at = "expire"
    /\ rows' = [u \in Uploads |-> IF u \in busy[w].todo
                  THEN [rows[u] EXCEPT !.state = "expired"] ELSE rows[u]]
    /\ busy' = [busy EXCEPT ![w].at = "claim", ![w].todo = {}]
    /\ UNCHANGED <<objects, open, kept, req, marks>>

\* (Mutant: an upload in processing that has no lease is taken as well.)
ClaimableWithoutLease(row) ==
    /\ \/ row.state = "uploaded"
       \/ row.state = "awaiting_moderation" /\ row.next = "due"
       \/ row.state = "processing" /\ row.lease # "running"
    /\ ~row.gone

\* (Mutant: nobody takes over from a worker that died.)
ClaimableOnce(row) ==
    /\ \/ row.state = "uploaded"
       \/ row.state = "awaiting_moderation" /\ row.next = "due"
    /\ ~row.gone

\* The query of claim_next.  A lease that is not there has not lapsed.
Claimable(row) ==
    /\ \/ row.state = "uploaded"
       \/ row.state = "awaiting_moderation" /\ row.next = "due"
       \/ row.state = "processing" /\ row.lease = "lapsed"
    /\ ~row.gone

\* cleanup_tombstoned_objects, then claim_next, which takes the oldest under a
\* row lock that others skip.
Claim(w) ==
    LET queue == {u \in Uploads : Claimable(rows[u])}
    IN  /\ busy[w].at \in IF Overdue = {} THEN {"idle", "claim"} ELSE {"claim"}
        /\ \E us \in SUBSET {u \in Uploads : rows[u].state
                                   \in {"deleted", "expired"}} : Erase(us)
        /\ \/ queue = {} /\ Stops(w) /\ UNCHANGED rows
           \/ \E u \in queue :
                LET row == [rows[u] EXCEPT !.state = "processing",
                                           !.lease = "running", !.next = "none"]
                IN  /\ \A v \in queue : u <= v
                    /\ rows' = [rows EXCEPT ![u] = row]
                    /\ busy' = [busy EXCEPT ![w].up = u, ![w].seen = row,
                          ![w].at = IF row.processed THEN "look" ELSE "start"]
        /\ UNCHANGED <<tile, open, kept, req, marks>>

Started(seen) == [seen EXCEPT !.starts = @ + 1]

\* process_claimed counts the attempt.
Start(w) ==
    /\ busy[w].at = "start"
    /\ Saves(w, Started(busy[w].seen), "read")
    /\ UNCHANGED <<objects, open, kept, req, marks>>

Failed(seen, recoverable) ==
    [seen EXCEPT !.state = "failed", !.next = "none", !.lease = "none",
                 !.starts = IF recoverable THEN @ ELSE MAX_ATTEMPTS]

\* _fail, then the end of run_once.
Fail(w, recoverable) ==
    /\ Saves(w, Failed(busy[w].seen, recoverable), "idle")
    /\ UNCHANGED <<objects, open, kept, req, marks>>

\* The storage does not answer: the original, a derivative or the tile.
StorageFails(w) == busy[w].at \in {"read", "store", "look"} /\ Fail(w, TRUE)

\* (Mutant: the file is not compared with the one that was confirmed.)
AcceptableAnyway(content, checksum) == content \notin Bad

\* process_image accepts the file, and it is the one that was confirmed.
Acceptable(content, checksum) == content \notin Bad /\ content = checksum

\* _process reads the original and derives the images from it.
Read(w) ==
    LET u == busy[w].up
    IN  /\ busy[w].at = "read"
        /\ original[u] # None
        /\ \/ /\ Acceptable(original[u], busy[w].seen.checksum)
              /\ busy' = [busy EXCEPT ![w].at = "store",
                                      ![w].content = original[u]]
              /\ UNCHANGED <<rows, objects, open, kept, req, marks>>
           \/ /\ ~Acceptable(original[u], busy[w].seen.checksum)
              /\ Fail(w, FALSE)

Processed(seen) ==
    [seen EXCEPT !.state = "awaiting_moderation", !.moderation = "pending",
                 !.processed = TRUE, !.lease = "none"]

\* Its first transaction replaces the derivatives and gives the lease back.
\* A foreign key refuses to remove those that are in use, and nothing catches
\* that either.
Store(w) ==
    LET u == busy[w].up
    IN  /\ busy[w].at = "store"
        /\ IF kept[u] # "free"
           THEN Stops(w) /\ UNCHANGED <<rows, tile, stored>>
           ELSE /\ Saves(w, Processed(busy[w].seen), "resume")
                /\ tile' = [tile EXCEPT ![u] = busy[w].content]
                /\ stored' = stored \cup {u}
        /\ UNCHANGED <<original, open, kept, req, marks>>

Resumed(seen) == [seen EXCEPT !.state = "processing"]

\* Its second transaction.
Resume(w) ==
    /\ busy[w].at = "resume"
    /\ Saves(w, Resumed(busy[w].seen), "look")
    /\ UNCHANGED <<objects, open, kept, req, marks>>

\* _moderate reads the tile and sends it to the provider.
Look(w) ==
    /\ busy[w].at = "look"
    /\ busy[w].up \in stored
    /\ busy' = [busy EXCEPT ![w].at = "judge",
                            ![w].content = tile[busy[w].up]]
    /\ UNCHANGED <<rows, objects, open, kept, req, marks>>

\* The row after a verdict, or after the failure to get one.
Judged(seen, verdict) ==
    LET looks == seen.looks + 1
        again == verdict = "unconfigured" \/ looks < MAX_ATTEMPTS
        row   == [seen EXCEPT !.looks = looks, !.lease = "none"]
    IN  IF verdict \in {"approved", "rejected"}
        THEN [row EXCEPT !.state = verdict, !.moderation = verdict]
        ELSE [row EXCEPT
                !.state = IF again THEN "awaiting_moderation" ELSE "failed",
                !.moderation = IF verdict = "failed" THEN "failed"
                                                     ELSE "unavailable",
                !.next = IF verdict = "failed" /\ again THEN "later"
                                                       ELSE "none"]

\* The provider answers, or does not, and the result is stored.
Judge(w, verdict) ==
    /\ busy[w].at = "judge"
    /\ Saves(w, Judged(busy[w].seen, verdict), "idle")
    /\ passed' = IF verdict = "approved"
                 THEN [passed EXCEPT ![busy[w].up] = @ \cup {busy[w].content}]
                 ELSE passed
    /\ UNCHANGED <<objects, open, kept, overran, req, crashes>>

\* The process of a worker ends anywhere, and is started again.
Crash(w) ==
    /\ busy[w].at \in Claimed \cup {"expire"}
    /\ Mishap
    /\ crashes' = crashes + 1
    /\ Stops(w)
    /\ UNCHANGED <<rows, objects, open, kept, req, overran, passed>>

-----------------------------------------------------------------------------
Owner(r) ==
    \/ \E u \in Uploads : BeginConfirm(r, u) \/ BeginRetry(r, u)
                          \/ BeginDelete(r, u)
    \/ Confirm(r) \/ Retry(r) \/ Delete(r) \/ EraseDeleted(r)

Work(w) ==
    \/ RunOnce(w) \/ Expire(w) \/ Claim(w) \/ Start(w)
    \/ StorageFails(w) \/ Read(w) \/ Store(w) \/ Resume(w) \/ Look(w)
    \/ \E verdict \in Verdicts : Judge(w, verdict)

Next ==
    \/ \E r \in Requests : Owner(r)
    \/ \E w \in Workers : Work(w) \/ Crash(w)
    \/ \E u \in Uploads :
          \/ Create(u) \/ IntentLapses(u)
          \/ Refer(u) \/ Reserve(u) \/ Release(u)
          \/ LeaseLapses(u) \/ BackoffPasses(u)
          \/ \E c \in Contents : Transfer(u, c)

Spec == Init /\ [][Next]_vars

\* Workers that live go on, and time passes.
Fairness ==
    /\ WF_vars(\E w \in Workers : Work(w))
    /\ \A u \in Uploads : WF_vars(LeaseLapses(u) \/ BackoffPasses(u))

FairSpec == Spec /\ Fairness

-----------------------------------------------------------------------------
\* Every variable keeps its type, and the counters keep the range that the table
\* allows (models.py 595), however the writes of stale sessions mix.
TypeOK ==
    /\ rows \in [Uploads -> Row]
    /\ tile \in [Uploads -> Content]
    /\ stored \subseteq Uploads
    /\ original \in [Uploads -> Content]
    /\ open \subseteq Uploads
    /\ kept \in [Uploads -> {"free", "referenced", "reserved"}]
    /\ overran \subseteq Uploads
    /\ passed \in [Uploads -> SUBSET Contents]
    /\ busy \in [Workers -> Worker]
    /\ req \in [Requests -> Request]
    /\ crashes \in 0..MaxMishaps

\* A claim is exclusive (claim_next's lease and row lock, service.py 405-435),
\* also in the time after the lease was given back and before the verdict is
\* stored: two workers are at one upload only after a lease ran out under one.
OneWorkerPerLease ==
    \A v, w \in Workers :
        v # w /\ busy[v].up = busy[w].up /\ busy[v].up # None
            => busy[v].up \in overran

\* Moderation fails closed (moderation.py 15), for every order in which workers
\* that overtake each other, retries and late transfers write: the images of an
\* approved upload come from the file that was confirmed, and were approved.
ApprovedImageWasJudged ==
    \A u \in Uploads : rows[u].state = "approved" =>
        tile[u] \in passed[u] /\ tile[u] = rows[u].checksum

\* Confirmed, and the next move is not the owner's.
Waiting(u) ==
    \/ rows[u].state \in {"uploaded", "processing"}
    \/ rows[u].state = "awaiting_moderation" /\ rows[u].next # "none"

Rested(u) ==
    \/ rows[u].state \in {"approved", "rejected", "failed",
                          "deleted", "expired"}
    \/ /\ rows[u].state = "awaiting_moderation"
       /\ rows[u].moderation = "unavailable"
    \/ rows[u].gone

\* A worker died after it gave its lease back.
Stranded(u) ==
    /\ crashes > 0
    /\ \A w \in Workers : busy[w].up # u
    /\ rows[u].lease = "none"
    /\ rows[u].state = "processing" \/ rows[u].next = "none"

\* The last attempt was counted, and did not come to its end.
Exhausted(u) ==
    IF rows[u].processed THEN rows[u].looks = MAX_ATTEMPTS
                         ELSE rows[u].starts = MAX_ATTEMPTS

\* "Durable custom-asset worker command with transactional leases" (worker.py
\* 1): a confirmed upload is decided, fails, or waits for its owner in the end.
\* A worker may die anywhere: the lease brings another, except in the two places
\* that are named, where the code leaves the upload for ever.
WorkEnds ==
    \A u \in Uploads : Waiting(u) ~> Rested(u) \/ Stranded(u) \/ Exhausted(u)

\* A deleted upload does not come back: ALLOWED_TRANSITIONS gives "deleted" no
\* successor (service.py 62).  (The code breaks it: a worker that loaded the row
\* before the deletion writes the next state over it.)
DeletedStaysDeleted ==
    [][\A u \in Uploads : rows[u].state = "deleted"
            => rows'[u].state \in {"deleted", "expired"}]_vars

\* "Custom pattern deletion is deferred while an active checkout reserves its
\* production asset" (service.py 317).  (The code breaks it: the reservation is
\* committed between the check of a deletion and its transaction.)
ReservedImageStays == \A u \in Uploads : kept[u] = "reserved" => u \in stored
=============================================================================
