------------------------------ MODULE Opening -------------------------------
(***************************************************************************)
(* Arriving at the configurator (frontend components/configurator/         *)
(* configurator.tsx): the draft this browser keeps, the link in the        *)
(* address, the question which of the two to open, and the two loaders     *)
(* that open a link (shared-design-loader.tsx over services/               *)
(* shared-design.ts, workspace-configuration-loader.tsx).                  *)
(*                                                                         *)
(* A design is a value; its fingerprint is itself.  A counter that is only *)
(* compared with its newest value (a revision, a request's version) is     *)
(* kept as the answer of that comparison: a request of an older version is *)
(* forgotten, and `edited` says that the revision moved since the load.    *)
(***************************************************************************)
EXTENDS Resource, FiniteSets

CONSTANTS Blank,        \* the initial configuration
          Linked,       \* the design the link leads to
          Mine          \* the designs the visitor makes

VARIABLES page,     \* what the page holds, see TypeOK
          calls,    \* this page's requests without a resource: {"design"} or {}
          server    \* the link's record: solid, offered by the catalogue, known
vars == <<page, calls, server>>

Designs == Mine \cup {Linked}
Links == {"none", "malformed", "design", "share", "version"}
Catalogues == {"loading", "error", "empty", "ready"}
NoDraft == [design |-> None, origin |-> None, project |-> None, public |-> None]
IdleShare == [phase |-> "idle", edited |-> FALSE, pending |-> FALSE]

TypeOK ==
    /\ page.design \in Designs \cup {Blank}
    /\ page.gate \in {"checking", "confirm", "link", "ready"}
    /\ page.reason \in Links \cup {"started"}
    /\ page.restored \in BOOLEAN /\ page.due \in BOOLEAN
    /\ page.link \in Links /\ page.auth \in {"initializing", "guest", "in", "out"}
    /\ \A field \in DOMAIN NoDraft : page.draft[field] \in Designs \cup {None}
    /\ page.catalogue \in Catalogues
    /\ page.share.phase \in {"idle", "malformed-id", "loading", "waiting-patterns",
           "restored", "superseded", "not-found", "malformed-response", "error",
           "catalogue-error", "pattern-unavailable"}
    /\ page.workspace.load \in {None, Asked}
    /\ page.work \subseteq Mine /\ page.exposed \subseteq Mine
    /\ page.lost \subseteq Mine
    /\ calls \subseteq {"design"}

-----------------------------------------------------------------------------
(* What an arrival decides. *)

Stored(p) == p.draft.design

\* Opening the link would overwrite work that cannot be brought back.
DraftNeedsProtection(p, ref) ==
    LET stored == Stored(p)
    IN  /\ stored # None
        /\ stored # p.draft.project
        /\ stored # p.draft.origin
        /\ ~(stored = p.draft.public /\ ref = "design")

Ref(link) == IF link = "malformed" THEN "design" ELSE link
PlanArrival(p) ==
    IF p.link # "none"
    THEN IF DraftNeedsProtection(p, p.link) THEN <<"confirm", Ref(p.link)>>
         ELSE <<"link", "none">>
    ELSE IF Stored(p) = None THEN <<"none", "none">>
    ELSE IF p.design \in {Blank, Stored(p)} THEN <<"restore", "none">>
    ELSE IF DraftNeedsProtection(p, "none") THEN <<"confirm", "started">>
    ELSE <<"none", "none">>

\* (Mutant: the shared design's loader only hears of it in the effect.)
DispatchedLate(p, design) ==
    [p EXCEPT !.design = design, !.due = TRUE, !.workspaceEdited = TRUE]

\* A dispatch moves the revision both loaders look at; the shared design's
\* controller hears of it in a later effect.
Dispatched(p, design) ==
    [p EXCEPT !.design = design, !.due = TRUE, !.share.edited = TRUE,
              !.workspaceEdited = TRUE]

\* (Mutant: without asking whether there is one.)
StoredRestoredAnyway(p) ==
    [Dispatched(p, Stored(p)) EXCEPT !.gate = "ready", !.restored = TRUE]

\* The stored design comes back, when there is one.
StoredRestored(p) ==
    IF Stored(p) = None THEN p
    ELSE [Dispatched(p, Stored(p)) EXCEPT !.gate = "ready", !.restored = TRUE]

\* The effect that keeps the design in this browser.
Written(p) ==
    IF p.gate \in {"checking", "confirm"} \/ p.design = Blank THEN p
    ELSE [p EXCEPT !.draft.design = p.design]

\* A link replaced the design: where it came from is recorded first.
RecordLinkRestore(p, ref) ==
    [p EXCEPT !.draft = [design |-> Linked, origin |-> Linked,
        project |-> IF ref = "version" THEN Linked ELSE None,
        public |-> IF ref = "design" THEN Linked ELSE None]]
LinkRestored(p, ref) ==
    [Written(Dispatched(RecordLinkRestore(p, ref), Linked))
     EXCEPT !.work = @ \ p.exposed, !.lost = @ \cup (p.work \cap p.exposed),
            !.exposed = {}]

\* For the properties: the unsaved design that a link began to load over.
Exposing(p) == [p EXCEPT !.exposed = p.work \cap {p.design, p.draft.design}]

-----------------------------------------------------------------------------
(* The shared design's controller. *)

Listening(p) == p.gate \in {"link", "ready"}    \* the loaders are mounted

\* #load(): an older request is forgotten with its version.
ShareLoad(p) ==
    [Exposing(p) EXCEPT
        !.share = [phase |-> "loading", edited |-> FALSE, pending |-> FALSE]]
Superseded(p) ==
    [p EXCEPT !.share.phase = "superseded", !.share.pending = FALSE]

\* #reconcile(): a design that is found waits for its pattern.
Reconciled(p) ==
    IF ~p.share.pending THEN p
    ELSE IF p.share.edited THEN Superseded(p)
    ELSE IF server.solid \/ (p.catalogue = "ready" /\ server.offered)
    THEN [LinkRestored(p, "design") EXCEPT !.share.phase = "restored",
                                           !.share.pending = FALSE]
    ELSE [p EXCEPT !.share.phase =
            CASE p.catalogue = "loading" -> "waiting-patterns"
              [] p.catalogue = "error" -> "catalogue-error"
              [] OTHER -> "pattern-unavailable"]

\* The link the private-version and share loader asks for.
Key(p) == IF ~Listening(p) THEN None
          ELSE IF p.link = "share" THEN "share"
          ELSE IF p.link = "version" /\ p.auth = "in" THEN "version" ELSE None
Render(p) ==
    LET asked == Rekeyed(p.workspace, Key(p))
    IN  IF asked = p.workspace THEN p
        ELSE [Exposing(p) EXCEPT !.workspace = asked, !.workspaceEdited = FALSE]

\* The loaders mount with the gate: the shared design is asked for at once.
Opens(p) ==
    Render(Written(IF p.link = "design" THEN ShareLoad(p)
                   ELSE IF p.link = "malformed"
                   THEN [p EXCEPT !.share.phase = "malformed-id"] ELSE p))
Calling(p) == IF p.share.phase = "loading" THEN {"design"} ELSE {}

-----------------------------------------------------------------------------
Fresh(draft, link, auth, catalogue) ==
    [design |-> Blank, gate |-> "checking", reason |-> "none", restored |-> FALSE,
     due |-> FALSE, draft |-> draft, link |-> link, auth |-> auth,
     catalogue |-> catalogue, share |-> IdleShare, workspace |-> EmptyResource,
     workspaceEdited |-> FALSE, work |-> {}, exposed |-> {}, lost |-> {}]

Init == /\ \E link \in Links, draft \in {None} \cup Mine :
               page = [Fresh([NoDraft EXCEPT !.design = draft], link,
                             "initializing", "loading")
                       EXCEPT !.work = {draft} \ {None}]
        /\ calls = {}
        /\ server \in [solid : BOOLEAN, offered : BOOLEAN, known : BOOLEAN]

\* The draft session's chunk is there: the page decides, once.
Arrive ==
    /\ page.gate = "checking"
    /\ LET plan == PlanArrival(page)
           next == CASE plan[1] = "confirm" ->
                          [page EXCEPT !.gate = "confirm", !.reason = plan[2]]
                     [] plan[1] = "link" ->
                          Opens([page EXCEPT !.gate = "link"])
                     [] plan[1] = "restore" ->
                          Opens(StoredRestored(page))
                     [] OTHER -> Opens([page EXCEPT !.gate = "ready"])
       IN  page' = next /\ calls' = Calling(next)
    /\ UNCHANGED server

\* "Keep my design" takes the link out of the address.
KeepStored ==
    /\ page.gate = "confirm"
    /\ page' = Opens(StoredRestored([page EXCEPT
          !.gate = "ready", !.link = "none",
          !.work = @ \cap {IF Stored(page) = None THEN page.design ELSE Stored(page)}]))
    /\ UNCHANGED <<calls, server>>

\* "Open the link instead", or "Keep the new design".
ReplaceStored ==
    /\ page.gate = "confirm"
    /\ LET started == page.reason = "started"
           next == Opens([page EXCEPT !.gate = IF started THEN "ready" ELSE "link",
                          !.restored = FALSE,
                          !.work = IF started THEN @ \cap {page.design} ELSE {}])
       IN  page' = next /\ calls' = Calling(next)
    /\ UNCHANGED server

\* Any change the visitor makes at a stage.
Edit == \E design \in Mine \ {page.design} :
    /\ page' = Written([Dispatched(page, design)
                        EXCEPT !.work = (@ \ {page.design}) \cup ({design} \ {page.draft.project}),
                               !.exposed = @ \ {page.design, design}])
    /\ UNCHANGED <<calls, server>>

\* The effect of a changed design: work in progress for the link is dropped.
ConfigurationChanged ==
    /\ page.due
    /\ LET quiet == [page EXCEPT !.due = FALSE]
           next == IF page.share.edited /\ page.share.phase \in
                      {"loading", "waiting-patterns", "catalogue-error",
                       "pattern-unavailable"}
                   THEN Superseded(quiet) ELSE quiet
       IN  page' = next /\ calls' = calls \cap Calling(next)
    /\ UNCHANGED server

\* A pattern once listed stays listed while the list is asked for again.
CatalogueAnswers == \E catalogue \in Catalogues \ {page.catalogue} :
    /\ (catalogue = "loading") = (page.catalogue \in {"error", "empty"})
    /\ page.catalogue = "ready" => catalogue = "empty"
    /\ LET known == [page EXCEPT !.catalogue = catalogue]
       IN  page' = IF Listening(page) THEN Reconciled(known) ELSE known
    /\ UNCHANGED <<calls, server>>

\* The shared design is answered: found, unknown, unreadable, or no answer.
DesignAnswers ==
    /\ calls # {}
    /\ \/ /\ server.known
          /\ page' = Reconciled([page EXCEPT !.share.pending = TRUE])
       \/ /\ ~server.known
          /\ page' = [page EXCEPT !.share.phase = "not-found"]
       \/ \E phase \in {"malformed-response", "error"} :
             page' = [page EXCEPT !.share.phase = phase]
    /\ calls' = {}
    /\ UNCHANGED server

Retry ==
    /\ Listening(page) /\ page.link = "design"
    /\ page.share.phase \in {"error", "malformed-response"}
    /\ page' = ShareLoad(page)
    /\ calls' = {"design"}
    /\ UNCHANGED server

\* The share or the private version is answered.  A newer edit is kept.
WorkspaceAnswers ==
    /\ page.workspace.load = Asked
    /\ page' = IF page.workspaceEdited
               THEN [page EXCEPT !.workspace = LoadFailed(@, FALSE)]
               ELSE [LinkRestored(page, page.link)
                     EXCEPT !.workspace = Loaded(@, page.link)]
    /\ UNCHANGED <<calls, server>>
WorkspaceFails ==
    /\ page.workspace.load = Asked
    /\ page' = [page EXCEPT !.workspace = LoadFailed(@, FALSE)]
    /\ UNCHANGED <<calls, server>>
WorkspaceRetry ==
    /\ ErrorFor(page.workspace, Key(page)) /\ ~LoadingFor(page.workspace, Key(page))
    /\ page' = [Exposing(page)
                EXCEPT !.workspace = Reloaded(@, Key(page), FALSE),
                       !.workspaceEdited = FALSE]
    /\ UNCHANGED <<calls, server>>

\* "Continue with my configuration": the link leaves the address; the draft
\* comes back when nothing else was chosen since.
Dismiss ==
    /\ Listening(page)
    /\ \/ page.share.phase \in {"malformed-id", "superseded", "not-found", "error",
                    "malformed-response", "catalogue-error", "pattern-unavailable"}
       \/ ErrorFor(page.workspace, Key(page))
       \/ page.link = "version" /\ page.auth = "guest"
    /\ LET left == [page EXCEPT !.link = "none", !.share = IdleShare]
           back == IF page.design = Blank THEN StoredRestored(left) ELSE left
       IN  page' = Render(Written(back))
    /\ calls' = {}
    /\ UNCHANGED server

\* The notice of a restored draft asks before it clears.
StartOver ==
    /\ page.gate = "ready" /\ page.restored
    /\ page' = [Dispatched([page EXCEPT !.draft = NoDraft], Blank)
                EXCEPT !.restored = FALSE, !.work = {}]
    /\ UNCHANGED <<calls, server>>

\* The design is saved to a project (Saving.tla): opening a link may replace it.
Saved ==
    /\ page.auth = "in" /\ Listening(page) /\ page.design \in Designs
    /\ page.draft.design = page.design
    /\ page' = [page EXCEPT !.draft.project = page.design, !.work = @ \ {page.design}]
    /\ UNCHANGED <<calls, server>>

SessionChecked ==
    /\ page.auth = "initializing"
    /\ \E auth \in {"guest", "in"} : page' = Render([page EXCEPT !.auth = auth])
    /\ UNCHANGED <<calls, server>>
SignIn ==
    /\ page.auth = "guest"
    /\ page' = Render([page EXCEPT !.auth = "in"])
    /\ UNCHANGED <<calls, server>>

\* Signing out removes a draft that is linked to the account, with the design.
SignOut ==
    /\ page.auth = "in"
    /\ page' = Render(LET out == [page EXCEPT !.auth = "out"] IN
         IF page.draft.project = None THEN out
         ELSE [Dispatched([out EXCEPT !.draft = NoDraft], Blank) EXCEPT !.work = {}])
    /\ UNCHANGED <<calls, server>>

\* The page is loaded again: only the draft and the address are left.  What
\* was changed before the draft could be written is not kept.
Reload ==
    /\ page' = [Fresh(page.draft, page.link, "initializing", "loading")
                EXCEPT !.work = page.work \cap {Stored(page)}]
    /\ calls' = {}
    /\ UNCHANGED server

Next == \/ Arrive \/ KeepStored \/ ReplaceStored \/ Edit \/ ConfigurationChanged
        \/ CatalogueAnswers \/ DesignAnswers \/ Retry
        \/ WorkspaceAnswers \/ WorkspaceFails \/ WorkspaceRetry
        \/ Dismiss \/ StartOver \/ Saved \/ SessionChecked \/ SignIn \/ SignOut
        \/ Reload
Spec == Init /\ [][Next]_vars

-----------------------------------------------------------------------------
\* An edit made while a link loads is never overwritten (docs/architecture.md:51,
\* workspace-configuration-loader.tsx:213): whatever the order of edits, answers,
\* sign-ins and reloads, every unsaved design of the visitor is on the screen or
\* in the draft, until the visitor gives it up (start over, keep the other,
\* replace it, sign out) or it was there when a link began to load.
NewerEditKept == page.work \subseteq {page.design, page.draft.design}

\* docs/design.md:245 says that a link which would overwrite an unsaved design
\* asks first, so none is lost that was there when the link began to load.  (The
\* code breaks it: planArrival, draft-session.tsx 88, looks at the stored draft
\* and not at a design made before the arrival was decided.)
LinksAskFirst == page.lost = {}
=============================================================================
