-------------------------------- MODULE Visit -------------------------------
(***************************************************************************)
(* The frontend's parts, for what they may never do.                       *)
(* They share no state, so one run looks at each by itself: `part` says    *)
(* which one a behaviour is of, and what another part would use is None.   *)
(***************************************************************************)
EXTENDS Naturals

CONSTANTS
    None, Asked,                \* no value; a request the server has not served
    Blank, Linked, Mine,        \* the designs of an arrival
    Typed, Details,             \* what the visitor types
    Prints,                     \* the designs that are saved and published
    Filters, Orders,            \* what an administrator chooses among
    Ids, Tokens,                \* projects, and sessions of a tab
    \* Bounds: of an account's versions, of its projects and quotes, of published
    \* designs, of uploads, object URLs and polls, of sessions, of revisions of
    \* the work, of a project and of two together, and of calls in flight.
    MaxVersions, MaxStored, MaxRecords, MaxUploads, MaxUrls, MaxPolls,
    MaxSessions, MaxRevisions, MaxChanges, MaxCalls

VARIABLES part, page, calls, server,
          live, expired, used, terms, registered, stored, signedIn, ended,
          restored, list        \* of the session
visit == <<page, server>>
session == <<live, expired, used, terms, registered, stored, signedIn, ended,
             restored, list>>
vars == <<part, visit, calls, session>>

Opening     == INSTANCE Opening
Configuring == INSTANCE Configuring
Saving      == INSTANCE Saving WITH Designs <- Prints
Publishing  == INSTANCE Publishing WITH Designs <- Prints
Patterns    == INSTANCE Patterns
Operating   == INSTANCE Operating
Projects    == INSTANCE Projects WITH MaxRevisions <- MaxChanges
Shopping    == INSTANCE Shopping
Session     == INSTANCE Session

\* What the code tells apart: no value, a request and an answer, and three
\* kinds of designs.
ASSUME VisitAssumption ==
    /\ None # Asked /\ None \notin Tokens \cup Session!Ends
    /\ None \notin Nat /\ None \notin Configuring!Fabrics
    /\ Blank \notin Mine \cup {Linked, None} /\ Linked \notin Mine \cup {None}
    /\ None \notin Mine

\* What the types of the parts rest on.
ASSUME VisitBounds ==
    /\ Typed \subseteq Nat /\ Details # {}
    /\ {MaxVersions, MaxStored, MaxRecords, MaxUploads, MaxUrls, MaxPolls,
        MaxSessions, MaxRevisions, MaxChanges, MaxCalls} \subseteq Nat \ {0}

NoSession == /\ live = None /\ expired = None /\ used = None /\ terms = None
             /\ registered = None /\ stored = None /\ signedIn = None
             /\ ended = None /\ restored = None /\ list = None
Init == \/ part = "session" /\ Session!Init /\ page = None /\ server = None
        \/ /\ NoSession
           /\ \/ part = "opening" /\ Opening!Init
              \/ part = "configuring" /\ Configuring!Init /\ calls = None /\ server = None
              \/ part = "saving" /\ Saving!Init
              \/ part = "publishing" /\ Publishing!Init
              \/ part = "patterns" /\ Patterns!Init
              \/ part = "shopping" /\ Shopping!Init
              \/ part = "operating" /\ Operating!Init
              \/ part = "projects" /\ Projects!Init
Next == /\ UNCHANGED part
        /\ \/ part = "session" /\ Session!Next /\ UNCHANGED visit
           \/ /\ UNCHANGED session
              /\ \/ part = "opening" /\ Opening!Next
                 \/ part = "configuring" /\ Configuring!Next /\ UNCHANGED <<calls, server>>
                 \/ part = "saving" /\ Saving!Next
                 \/ part = "publishing" /\ Publishing!Next
                 \/ part = "patterns" /\ Patterns!Next
                 \/ part = "shopping" /\ Shopping!Next
                 \/ part = "operating" /\ Operating!Next
                 \/ part = "projects" /\ Projects!Next
Spec == Init /\ [][Next]_vars

-----------------------------------------------------------------------------
(* What each part promises; the modules say why. *)

\* Every part keeps the types of its state.
TypeOK == /\ part = "opening" => Opening!TypeOK
          /\ part = "configuring" => Configuring!TypeOK
          /\ part = "saving" => Saving!TypeOK
          /\ part = "publishing" => Publishing!TypeOK
          /\ part = "patterns" => Patterns!TypeOK
          /\ part = "shopping" => Shopping!TypeOK
          /\ part = "session" => Session!TypeOK
          /\ part = "operating" => Operating!TypeOK
          /\ part = "projects" => Projects!TypeOK

\* An edit made while a link loads is never overwritten (shared-design.ts 353,
\* workspace-configuration-loader.tsx 213).
NewerEditKept == part = "opening" => Opening!NewerEditKept

\* A stage that is offered opens (configurator.tsx 184-235, 418-476).
OfferedStageOpens == part = "configuring" => Configuring!OfferedStageOpens

\* A design the review shows as ready is accepted and survives a reload
\* (review-summary.ts 249-410, design-save.ts 95-206).
ReviewIsSaved == part = "configuring" => Configuring!ReviewIsSaved

\* What the panel and the draft call saved is what the server stored
\* (private-project-panel.tsx 148-260).
SavedIsStored == part = "saving" => Saving!SavedIsStored

\* A version is in the cart once, and versions that follow each other differ
\* (private-project-panel.tsx 175-262).
NothingTwice == part = "saving" => Saving!NothingTwice

\* A public link leads to the design that was sent (design-save.ts 65-89).
LinkIsWhatWasSent == part = "publishing" => Publishing!LinkIsWhatWasSent

\* An object URL is revoked once, when nothing shows it (your-patterns.tsx 152-208).
UrlsEndOnce == part = "patterns" => Patterns!UrlsEndOnce

\* The production queue is the one of the chosen filters, and as new as what
\* refused the last action (production-operations-screen.tsx 39-136).
QueueIsNewest == part = "operating" => Operating!QueueIsNewest

\* A project is shown as new as the last action it reports
\* (projects-screen.tsx 113-226).
ReportedIsShown == part = "projects" => Projects!ReportedIsShown

\* A session is stored once its terms are acknowledged (auth-context.tsx 160-178).
StoredAcknowledged == part = "session" => Session!StoredAcknowledged

\* A screen shows what was loaded for its own session and role, whatever answers
\* late (use-account-resource.ts 23-60, use-resource.ts 131-143).
ScreenShowsOwnSession ==
    /\ part = "session" => Session!ScreenShowsOwnSession
    /\ part = "shopping" => Shopping!OwnDataShown
    /\ part = "operating" => Operating!OwnDataShown
=============================================================================
