------------------------------- MODULE Client -------------------------------
(***************************************************************************)
(* The frontend's parts that promise that something ends: calls, the       *)
(* session of a tab, the catalogue, and the shop's pages.  They do not     *)
(* share state, so one run looks at each by itself: `part` says which one  *)
(* a behaviour is of, and what another part would use is None.  A part's   *)
(* fairness is of its own steps.                                           *)
(***************************************************************************)
CONSTANTS
    None, Asked,                \* no value; a request the server has not served
    Tokens,                     \* sessions of a tab
    AllPatterns, Filters,       \* filters of the catalogue: all, and the others
    \* Bounds: loads of one mount of the catalogue, sessions of a visit, and calls
    \* in flight.
    MaxLoads, MaxSessions, MaxCalls

VARIABLES part, page, calls, server,
          call, phase, retry, onWay, stray, served, answer, outcome, shown,
          coldTimer, stored,
          live, expired, used, terms, registered, signedIn, ended, restored, list
request == <<call, phase, retry, onWay, stray, served, answer, outcome, shown,
             coldTimer>>
session == <<live, expired, used, terms, registered, signedIn, ended, restored,
             list>>
visit == <<page, server>>
vars == <<part, visit, calls, request, stored, session>>

Requests  == INSTANCE Requests
Session   == INSTANCE Session
Catalogue == INSTANCE Catalogue
Shopping  == INSTANCE Shopping

NoRequest == /\ call = None /\ phase = None /\ retry = None /\ onWay = None
             /\ stray = None /\ served = None /\ answer = None /\ outcome = None
             /\ shown = None /\ coldTimer = None
NoSession == /\ live = None /\ expired = None /\ used = None /\ terms = None
             /\ registered = None /\ signedIn = None /\ ended = None
             /\ restored = None /\ list = None
NoVisit   == page = None /\ server = None

Init == \/ part = "requests" /\ Requests!Init /\ NoSession /\ NoVisit /\ calls = None
        \/ part = "session" /\ Session!Init /\ NoRequest /\ NoVisit
        \/ /\ NoRequest /\ NoSession /\ stored = None
           /\ \/ part = "catalogue" /\ Catalogue!Init
              \/ part = "shopping" /\ Shopping!Init
Next == /\ UNCHANGED part
        /\ \/ /\ part = "requests" /\ Requests!Next
              /\ UNCHANGED <<visit, session, calls>>
           \/ part = "session" /\ Session!Next /\ UNCHANGED <<visit, request>>
           \/ /\ UNCHANGED <<request, session, stored>>
              /\ \/ part = "catalogue" /\ Catalogue!Next
                 \/ part = "shopping" /\ Shopping!Next

\* The fairness each module states and justifies, of steps of that part.  The
\* part never changes, so fairness of a disjunction of several parts' steps is
\* fairness of each in the behaviours of its part.
OfRequests(A)  == part = "requests" /\ A /\ UNCHANGED <<part, visit, session, calls>>
OfSession(A)   == part = "session" /\ A /\ UNCHANGED <<part, visit, request>>
OfCatalogue(A) == part = "catalogue" /\ A /\ UNCHANGED <<part, request, session, stored>>
OfShopping(A)  == part = "shopping" /\ A /\ UNCHANGED <<part, request, session, stored>>
Fairness ==
    /\ WF_vars(\/ OfRequests(Requests!Begin)
               \/ OfSession(Session!CheckFails)
               \/ OfCatalogue(Catalogue!WarmupMoves)
               \/ OfShopping(Shopping!OrderAnswers \/ Shopping!OrderFails))
    /\ WF_vars(\/ OfRequests(Requests!TimeLimit)
               \/ OfSession(Session!ExpiryTimer)
               \/ OfCatalogue(Catalogue!WarmupEnds)
               \/ OfShopping(Shopping!PollTimer))
    /\ WF_vars(\/ OfRequests(Requests!RetryDelay)
               \/ OfSession(Session!ListFails)
               \/ OfCatalogue(Catalogue!RequestEnds))
    /\ SF_vars(OfShopping(Shopping!OrderAnswers))
Spec == Init /\ [][Next]_vars /\ Fairness

-----------------------------------------------------------------------------
(* What each part promises; the modules say why.  TLC evaluates the state *)
(* predicates of a temporal formula in every state, so each names its part. *)

\* The server runs a writing call at most once (api-client.ts 391).
WritesRunOnce == part = "requests" => Requests!WritesRunOnce

\* What a call announces is in order (api-client.ts 416-489).
StatusesInOrder == part = "requests" => Requests!StatusesInOrder

\* An answer of this or a later server is not read as a failure
\* (docs/architecture.md 71-80).
AnswersAreRead == part = "requests" => Requests!AnswersAreRead

\* Every call ends (http.ts 85-140).
EveryCallEnds == <>(part = "requests" => phase = "ended")

\* The check of a stored session ends (auth-context.tsx 62-82).
CheckEnds == (part = "session" /\ Session!Checking)
             ~> (part = "session" /\ ~Session!Checking)

\* The patterns are those of the filters shown (pattern-catalogue.ts 195-239).
ShownByItsFilters == part = "catalogue" => Catalogue!ShownByItsFilters

\* A load of the catalogue ends (api-warmup.ts 58-76).
CatalogueSettles == []<>(part = "catalogue" => Catalogue!Settled)

\* The result of a payment is shown in the end (orders-screen.tsx 250-268).
PaymentResultShown ==
    (part = "shopping" /\ Shopping!Waits /\ server.paid)
        ~> (part = "shopping" /\ Shopping!WaitIsOver)
=============================================================================
