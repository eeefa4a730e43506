------------------------------ MODULE Projects ------------------------------
(***************************************************************************)
(* The private projects (frontend components/projects/                     *)
(* projects-screen.tsx): the list, and the view of one project with its    *)
(* read-only shares.  An action is followed by a reload of the view; none  *)
(* waits for another one.  Of a project this keeps its revision, counted   *)
(* in changes, and its active shares, named by the revision that made one. *)
(***************************************************************************)
EXTENDS Resource, Naturals, FiniteSets

CONSTANTS Ids,                          \* the account's projects
          MaxSessions, MaxRevisions, MaxCalls  \* bounds: sessions, revisions of
                                               \* all projects, actions in flight

VARIABLES page,     \* the session, the project that is open, and its view
          calls,    \* actions in flight
          server    \* the projects
vars == <<page, calls, server>>

Sessions == 1 .. MaxSessions
Actions == {"rename", "share", "revoke", "remove"}

TypeOK ==
    /\ page.session \in Sessions \cup {None} /\ page.project \in Ids \cup {None}
    /\ page.view.data \in [id : Ids, revision : 1 .. MaxRevisions,
                           shares : SUBSET (1 .. MaxRevisions)] \cup {None}
    /\ page.link \in 1 .. MaxRevisions \cup {None} /\ page.question \in BOOLEAN
    /\ page.announced = None \/ page.announced.revision \in 1 .. MaxRevisions
    /\ \A c \in calls : c.name \in Actions /\ c.id \in Ids
    /\ server.revision \in [Ids -> 0 .. MaxRevisions]      \* 0: deleted

-----------------------------------------------------------------------------
Key(p) == IF p.session = None \/ p.project = None THEN None ELSE <<p.session, p.project>>
View(p) == DataFor(p.view, Key(p), FALSE)
Ready == Key(page) # None /\ ~LoadingFor(page.view, Key(page))
         /\ ~ErrorFor(page.view, Key(page)) /\ View(page) # None

\* The view of a project keeps its state while one is open; the list has none.
NoView(p) == [p EXCEPT !.view = EmptyResource, !.link = None, !.announced = None,
                       !.question = FALSE]
Shown(p) == page' = IF Key(p) = None THEN NoView(p)
                    ELSE [p EXCEPT !.view = Rekeyed(@, Key(p))]
\* An action of a view that is gone is not heard.
Unheard(c) == {[x EXCEPT !.here = FALSE] : x \in c}

Open(id) == /\ page.project # id /\ Shown([page EXCEPT !.project = id])
            /\ UNCHANGED <<calls, server>>
List == /\ page.project # None /\ Shown([page EXCEPT !.project = None])
        /\ calls' = Unheard(calls) /\ UNCHANGED server
SessionEnds == /\ page.session # None /\ Shown([page EXCEPT !.session = None])
               /\ calls' = Unheard(calls) /\ UNCHANGED server
SignIn == /\ page.session = None /\ server.sessions < MaxSessions
          /\ Shown([page EXCEPT !.session = server.sessions + 1])
          /\ server' = [server EXCEPT !.sessions = @ + 1] /\ UNCHANGED calls

\* The view is served, then answered; a deleted project is not found.
ViewServed ==
    /\ page.view.load = Asked /\ server.revision[page.project] > 0
    /\ page' = [page EXCEPT !.view.load =
            [id |-> page.project, revision |-> server.revision[page.project],
             shares |-> server.shares[page.project]]]
    /\ UNCHANGED <<calls, server>>
ViewAnswers ==
    /\ page.view.load # None
    /\ page' \in {[page EXCEPT !.view = LoadFailed(@, FALSE)]} \cup
                 (IF page.view.load = Asked THEN {}
                  ELSE {[page EXCEPT !.view = Loaded(@, @.load)]})
    /\ UNCHANGED <<calls, server>>
RetryView == /\ Key(page) # None /\ ErrorFor(page.view, Key(page))
             /\ ~LoadingFor(page.view, Key(page))
             /\ page' = [page EXCEPT !.view = Reloaded(@, Key(page), FALSE)]
             /\ UNCHANGED <<calls, server>>

-----------------------------------------------------------------------------
(* Actions of the view, with the session and the project of the click. *)

\* Each one forgets what the last one said.  A share is revoked from the list of
\* the view, and the deletion is asked twice.
Act(name) ==
    /\ Ready /\ Cardinality(calls) < MaxCalls
    /\ name = "remove" => page.question
    /\ \E share \in IF name = "revoke" THEN View(page).shares ELSE {None} :
         calls' = calls \cup {[name |-> name, key |-> Key(page), id |-> page.project,
                               share |-> share, here |-> TRUE, answer |-> Asked]}
    /\ page' = [page EXCEPT !.announced = None]
    /\ UNCHANGED server
AskDelete == /\ Ready /\ page' = [page EXCEPT !.question = ~@]
             /\ UNCHANGED <<calls, server>>
Served(c) ==
    /\ c \in calls /\ c.answer = Asked /\ server.revision[c.id] > 0
    /\ LET revision == IF c.name = "remove" THEN 0 ELSE server.revision[c.id] + 1
       IN  /\ revision <= MaxRevisions
           /\ \A id \in Ids \ {c.id} : revision + server.revision[id] <= MaxRevisions
           /\ server' = [server EXCEPT !.revision[c.id] = revision,
                !.shares[c.id] = CASE c.name = "share"  -> @ \cup {revision}
                                   [] c.name = "revoke" -> @ \ {c.share}
                                   [] c.name = "remove" -> {}
                                   [] OTHER -> @]
           /\ calls' = (calls \ {c}) \cup {[c EXCEPT !.answer = revision]}
    /\ UNCHANGED page
\* (Mutant: the view is not reloaded.)
AnsweredOnly(c) ==
    /\ c \in calls /\ c.answer # Asked
    /\ calls' = (IF c.name = "remove" THEN Unheard(calls \ {c})
                 ELSE calls \ {c})
    /\ UNCHANGED server
    /\ IF c.name = "remove" THEN Shown([page EXCEPT !.project = None])
       ELSE IF ~c.here THEN UNCHANGED page
       ELSE page' = [page EXCEPT
                !.announced = [id |-> c.id, revision |-> c.answer],
                !.link = CASE c.name = "share"  -> c.answer
                           [] c.name = "revoke" -> None
                           [] OTHER -> @]

\* The answer: the view is reloaded before or with what it says.  A new share's
\* link is shown, and revoking any share hides it.
Answered(c) ==
    /\ c \in calls /\ c.answer # Asked
    /\ calls' = (IF c.name = "remove" THEN Unheard(calls \ {c})
                 ELSE calls \ {c})
    /\ UNCHANGED server
    /\ IF c.name = "remove" THEN Shown([page EXCEPT !.project = None])
       ELSE IF ~c.here THEN UNCHANGED page
       ELSE page' = [page EXCEPT
                !.view = Reloaded(@, c.key, FALSE),
                !.announced = [id |-> c.id, revision |-> c.answer],
                !.link = CASE c.name = "share"  -> c.answer
                           [] c.name = "revoke" -> None
                           [] OTHER -> @]
Refused(c) ==
    /\ c \in calls
    /\ calls' = calls \ {c} /\ UNCHANGED server
    /\ page' = IF c.here /\ c.name = "remove" THEN [page EXCEPT !.question = FALSE]
               ELSE page

Init ==
    /\ page = [session |-> None, project |-> None, view |-> EmptyResource, link |-> None,
               announced |-> None, question |-> FALSE]
    /\ calls = {}
    /\ server = [sessions |-> 0, revision |-> [id \in Ids |-> 1],
                 shares |-> [id \in Ids |-> {}]]
Next ==
    \/ \E id \in Ids : Open(id)
    \/ List \/ SessionEnds \/ SignIn
    \/ ViewServed \/ ViewAnswers \/ RetryView
    \/ \E name \in Actions : Act(name)
    \/ AskDelete
    \/ \E c \in calls : Served(c) \/ Answered(c) \/ Refused(c)
Spec == Init /\ [][Next]_vars

-----------------------------------------------------------------------------
\* The view is of the project that is open, and it is at least as new as the last
\* action it reports, however the answers and the reloads cross
\* (projects-screen.tsx 113-226, use-resource.ts 64-130).
ReportedIsShown ==
    Ready => /\ View(page).id = page.project
             /\ page.announced # None /\ page.announced.id = page.project =>
                    View(page).revision >= page.announced.revision
=============================================================================
