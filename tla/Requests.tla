------------------------------ MODULE Requests ------------------------------
(***************************************************************************)
(* One call of the browser's API clients, from its first byte to its       *)
(* answer: the transport with its time limit (frontend services/http.ts),  *)
(* the public client that announces what it does and retries what only     *)
(* reads (api-client.ts), and the signed-in clients, which never retry     *)
(* and give up the stored session when the server refuses it               *)
(* (accountRequest of account-api.ts).                                     *)
(*                                                                         *)
(* A request the browser gave up on may still reach the server and run:    *)
(* those requests are `stray`.                                             *)
(***************************************************************************)
EXTENDS Contracts, Integers, Sequences

CONSTANT None

VARIABLES
    call,       \* the operation the page asked for
    phase,      \* "idle", "out" (an attempt runs), "pausing", "ended"
    retry,      \* the retries so far
    onWay,      \* the attempt's request has not reached the server yet
    stray,      \* abandoned requests that may still reach it
    served,     \* how often the server ran the operation
    answer,     \* what the server answered to the attempt, None before
    outcome,    \* what the caller got
    shown,      \* what a listener of the public client was told, in order
    coldTimer,  \* the "may be waking up" timer runs
    stored      \* the session the call carried is stored in this tab
vars == <<call, phase, retry, onWay, stray, served, answer, outcome, shown,
          coldTimer, stored>>

RetryLimit == 2
Statuses == {200, 201, 401, 404, 422, 429, 503}
Transient == {408, 425, 429, 500, 502, 503, 504}
Succeeded(status) == status \in 200..299

\* A body is a record of the contract, or it is none: an error envelope with
\* the code of its first error (the clients read codes they do not know), JSON
\* of no known form, text that is not JSON, or nothing.
NoRecord(how) == <<"", "", how>>
Envelope == {NoRecord(code) : code \in {"authentication_failed",
                                       "authentication_required", "new_code"}}
Unreadable == NoRecord("unreadable")
NoContract == {Unreadable, NoRecord("empty"), NoRecord("junk")}
Answers(c) ==
    LET records == IF Calls[c].record = Nothing THEN {Good}
                   ELSE Deviations(Calls[c].record)
        fine    == {s \in Statuses : Succeeded(s)}
    IN  [status : fine \union {503}, body : records]
        \union [status : Statuses, body : NoContract]
        \union [status : Statuses \ fine, body : Envelope]
Refusals == [status : {429, 503}, body : NoContract]

Public == call \in DOMAIN PublicCalls
\* What the operation's parser makes of a body.
Parses(body) == body \notin Envelope \union NoContract /\ Accepts(body)

TypeOK ==
    /\ call \in DOMAIN Calls
    /\ phase \in {"idle", "out", "pausing", "ended"}
    /\ retry \in 0..RetryLimit
    /\ onWay \in BOOLEAN /\ coldTimer \in BOOLEAN /\ stored \in BOOLEAN
    /\ stray \in 0..RetryLimit + 1 /\ served \in 0..RetryLimit + 1
    /\ answer \in {None} \union Answers(call) \union Refusals

Init ==
    /\ call \in DOMAIN Calls
    /\ phase = "idle" /\ retry = 0 /\ onWay = FALSE /\ stray = 0
    /\ served = 0 /\ answer = None /\ outcome = None /\ shown = <<>>
    /\ coldTimer = FALSE
    /\ stored \in IF Calls[call].private THEN BOOLEAN ELSE {FALSE}

-----------------------------------------------------------------------------
(* How an attempt ends. *)

\* A listener is only told by the public client.
Tell(status) == shown' = IF Public THEN Append(shown, status) ELSE shown

\* An attempt leaves the connection; if its request is not at the server yet
\* it is abandoned there.
Abandon == /\ onWay' = FALSE
           /\ stray' = stray + (IF onWay THEN 1 ELSE 0)
           /\ answer' = None

End(result, status) ==
    /\ phase' = "ended" /\ outcome' = result /\ coldTimer' = FALSE
    /\ Tell(status)
    /\ UNCHANGED retry

\* (Mutant: a writing call too.)
ShouldRetryAny(kind, status) ==
    \/ kind \in {"network", "timeout"}
    \/ kind \in {"http", "backend-contract"} /\ status \in Transient

\* Only a reading call of the public client is tried again, and only after a
\* failure that may pass.
ShouldRetry(kind, status) ==
    /\ ~Calls[call].write
    /\ \/ kind \in {"network", "timeout"}
       \/ kind \in {"http", "backend-contract"} /\ status \in Transient

\* (Mutant: the wake-up timer goes on.)
PauseWarm ==
    /\ phase' = "pausing" /\ retry' = retry + 1 /\ UNCHANGED coldTimer
    /\ Tell("retrying")
    /\ UNCHANGED outcome

Pause ==
    /\ phase' = "pausing" /\ retry' = retry + 1 /\ coldTimer' = FALSE
    /\ Tell("retrying")
    /\ UNCHANGED outcome

Result(kind, a) == [kind |-> kind, answer |-> a]
Fail(kind, a) ==
    IF Public /\ retry < RetryLimit /\ ShouldRetry(kind, a.status) THEN Pause
    ELSE End(Result(kind, a), "failure")
Lost == [status |-> 0, body |-> NoRecord("lost")]

\* The signed-in clients read the error before the session is judged: a text
\* that is not JSON is no refusal.
EndsSession(a) ==
    /\ a.status = 401 /\ stored
    /\ a.body \notin {Unreadable, NoRecord("authentication_failed")}

PublicKind(a) ==
    IF a.status \in Expected(call) /\ Parses(a.body) THEN "ok"
    ELSE IF ~Succeeded(a.status) /\ a.body \in Envelope THEN "backend-contract"
    ELSE IF ~Succeeded(a.status) \/ a.status \notin Expected(call) THEN "http"
    ELSE "malformed"
SignedKind(a) ==
    IF a.body = Unreadable THEN "unreadable"
    ELSE IF ~Succeeded(a.status) THEN "rejected"
    ELSE IF Calls[call].record = Nothing \/ Parses(a.body) THEN "ok"
    ELSE "malformed"

-----------------------------------------------------------------------------
(* The steps of a call. *)

Attempt == phase' = "out" /\ onWay' = TRUE

\* Without an address the transport fails before anything is sent.
Begin ==
    /\ phase = "idle"
    /\ UNCHANGED <<call, retry, stray, served, answer, stored>>
    /\ \/ /\ Attempt
          /\ coldTimer' = Public
          /\ Tell("connecting")
          /\ UNCHANGED outcome
       \/ /\ phase' = "ended" /\ onWay' = FALSE /\ coldTimer' = FALSE
          /\ outcome' = Result("configuration", Lost)
          /\ shown' = IF Public THEN <<"connecting", "failure">> ELSE <<>>

\* The server runs the operation and answers, or refuses without running it.
Serve ==
    /\ onWay
    /\ onWay' = FALSE
    /\ \/ answer' \in Answers(call) /\ served' = served + 1
       \/ answer' \in Refusals /\ UNCHANGED served
    /\ UNCHANGED <<call, phase, retry, stray, outcome, shown, coldTimer,
                   stored>>

ServeStray ==
    /\ stray > 0
    /\ stray' = stray - 1 /\ served' = served + 1
    /\ UNCHANGED <<call, phase, retry, onWay, answer, outcome, shown,
                   coldTimer, stored>>

\* The answer is read.
ReadAnswer ==
    /\ phase = "out" /\ answer # None
    /\ answer' = None
    /\ LET kind == IF Public THEN PublicKind(answer) ELSE SignedKind(answer)
       IN  IF kind = "ok"
           THEN End(Result("ok", answer), "success")
           ELSE Fail(kind, answer)
    /\ stored' = (stored /\ (Public \/ ~EndsSession(answer)))
    /\ UNCHANGED <<call, onWay, stray, served>>

\* The connection breaks: the answer, if there is one, is never read.
ConnectionLost ==
    /\ phase = "out"
    /\ Abandon
    /\ Fail("network", Lost)
    /\ UNCHANGED <<call, served, stored>>

\* (Mutant: the limit ends with the head of the answer.)
TimeLimitOfHead ==
    /\ phase = "out" /\ answer = None
    /\ Abandon
    /\ Fail("timeout", Lost)
    /\ UNCHANGED <<call, served, stored>>

\* The time limit always runs out.
TimeLimit ==
    /\ phase = "out"
    /\ Abandon
    /\ Fail("timeout", Lost)
    /\ UNCHANGED <<call, served, stored>>

\* The page no longer wants the answer (a new key, or it is gone).
Cancel ==
    /\ phase = "out" /\ Calls[call].abortable
    /\ Abandon
    /\ End(Result("aborted", Lost), "failure")
    /\ UNCHANGED <<call, served, stored>>

RetryDelay ==
    /\ phase = "pausing"
    /\ Attempt
    /\ UNCHANGED <<call, retry, stray, served, answer, outcome, shown,
                   coldTimer, stored>>

ColdStart ==
    /\ coldTimer
    /\ coldTimer' = FALSE
    /\ Tell("cold-start")
    /\ UNCHANGED <<call, phase, retry, onWay, stray, served, answer, outcome,
                   stored>>

Next == \/ Begin \/ Serve \/ ServeStray \/ ReadAnswer \/ ConnectionLost
        \/ TimeLimit \/ Cancel \/ RetryDelay \/ ColdStart
        \/ phase = "ended" /\ stray = 0 /\ UNCHANGED vars

Spec == Init /\ [][Next]_vars

\* Timers fire; a page that asked has begun.  The server owes nothing.
FairSpec == /\ Spec
            /\ WF_vars(Begin) /\ WF_vars(TimeLimit) /\ WF_vars(RetryDelay)

-----------------------------------------------------------------------------
(* What a call may never do. *)

\* Saves, sign-in, checkout and uploads are not tried again, whatever becomes
\* of the answer: the server runs a writing call at most once (api-client.ts
\* 391, account-api.ts 504).
WritesRunOnce == Calls[call].write => served <= 1

\* A listener sees the connection, at most one announcement that the server
\* wakes, the retries, and one end, in this order: after a retry or the end
\* the wake-up timer is dead (api-client.ts 416).
StatusRank == [told \in {"connecting", "cold-start", "retrying", "success", "failure"} |->
    CASE told = "connecting" -> 1 [] told = "cold-start" -> 2
      [] told = "retrying" -> 3 [] OTHER -> 4]
StatusesInOrder ==
    \A i \in 1..Len(shown) - 1 :
        LET now  == shown[i]
            next == shown[i + 1]
        IN  \/ StatusRank[now] < StatusRank[next]
            \/ now = "retrying" /\ next = "retrying"

\* What the server of this repository may leave null (the response models of
\* backend accounts, projects, uploads, commerce, designs and health).
ServerNulls ==
    {<<"session", "revokedAt">>, <<"configuration", "backWidth">>,
     <<"upload", "width">>, <<"upload", "height">>,
     <<"upload", "tileDerivativeId">>, <<"upload", "thumbnailDerivativeId">>,
     <<"upload", "deletedAt">>, <<"quote", "projectVersionId">>,
     <<"quote", "customAsset">>, <<"shipment", "trackingUrl">>,
     <<"shipment", "deliveredAt">>, <<"timelineEntry", "fromState">>,
     <<"timelineEntry", "toState">>, <<"order", "shipment">>,
     <<"order", "shippingAddress">>, <<"priceBook", "effectiveAt">>,
     <<"priceBook", "publishedAt">>, <<"auditEntry", "actorAccountId">>,
     <<"health", "commit">>, <<"design", "backWidth">>,
     <<"design", "otherFabric">>}
SentToday(body) ==
    \/ body = Good
    \/ body[3] = "null" /\ <<body[1], body[2]>> \in ServerNulls

\* The two sides are deployed apart and open tabs run older builds
\* (docs/architecture.md 71-80): a successful answer of this server, of one
\* that adds fields, or of one that knows more values to show is never read
\* as a failure of the service.
AnswersAreRead ==
    phase = "ended" /\ outcome.kind = "malformed"
    => LET body == outcome.answer.body
       IN  ~SentToday(body) /\ body[3] # "added" /\ ~ReadsAsUnknown(body)

\* Every call ends, even when the server never answers: without the time
\* limit of the transport a screen would wait for ever.
EveryCallEnds == <>(phase = "ended")
=============================================================================
