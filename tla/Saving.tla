------------------------------- MODULE Saving -------------------------------
(***************************************************************************)
(* Saving the reviewed design (frontend components/configurator/           *)
(* private-project-panel.tsx, the draft of services/configurator-draft.ts) *)
(* to a project or to the cart, also after a sign-in.                      *)
(*                                                                         *)
(* An action is a chain of requests, and everything it does with their     *)
(* answers uses what was on the screen when it began.  The visitor goes on *)
(* meanwhile: edits, leaves the stage, signs out.  A request is served or  *)
(* not, and its answer arrives or not; none is served after it failed.     *)
(***************************************************************************)
EXTENDS Naturals, Sequences, Functions

CONSTANTS None, Designs,
          MaxVersions,      \* bounds of the account: versions of all its projects,
          MaxStored         \* and projects and quotes together

VARIABLES page,     \* the design, the draft's links, and the panel
          calls,    \* the action in flight, and the check of the draft's link
          server    \* the account's projects, quotes and cart
vars == <<page, calls, server>>

Kinds == {"save", "cart"}
Link(id, version, print) == [id |-> id, version |-> version, print |-> print]
Links == [id : DOMAIN server.projects, version : Nat \ {0}, print : Designs]
NoCalls == [action |-> None, check |-> None]

TypeOK ==
    /\ page.design \in Designs /\ page.here \in BOOLEAN
    /\ page.auth \in {"initializing", "guest", "in", "out"}
    /\ page.project \in Links \cup {None}
    /\ page.linked = None \/ page.linked.print \in Designs
    /\ page.marker = None \/ page.marker.quote \in 1 .. Len(server.quotes)
    /\ page.pending = None \/ page.pending.kind \in Kinds
    /\ calls.check \in DOMAIN server.projects \cup {None}
    /\ server.gone \subseteq DOMAIN server.projects
    /\ server.cart \subseteq DOMAIN server.quotes

-----------------------------------------------------------------------------
(* The panel of the project. *)

\* The effect that checks the link of the draft, with its key.
CheckKey(p) == IF p.here /\ p.auth = "in" /\ p.project # None
               THEN p.project.id ELSE None
Checked(p, c) == [c EXCEPT !.check = IF CheckKey(p) = CheckKey(page) THEN @
                                     ELSE CheckKey(p)]
SavedAndUnchanged(p) ==
    /\ p.linked # None /\ p.project # None /\ p.linked.id = p.project.id
    /\ p.linked.print = p.design

\* run() and the first request of ensureSaved(): one action at a time, of all
\* the panels this tab ever showed.
Began(kind, p) ==
    [kind |-> kind, print |-> p.design, here |-> TRUE, saved |-> None, quote |-> None,
     step |-> IF p.project = None THEN "create" ELSE "look",
     id |-> IF p.project = None THEN None ELSE p.project.id]
Run(kind, p, c) == IF c.action # None THEN c
                   ELSE [c EXCEPT !.action = Began(kind, p)]

\* The panel shows with a session, or a session starts: what was asked for
\* before the sign-in is taken, and runs when the design is still the same.
Resumed(p, c) ==
    IF ~p.here \/ p.auth # "in" \/ p.pending = None THEN /\ page' = p /\ calls' = Checked(p, c)
    ELSE LET taken == [p EXCEPT !.pending = None]
         IN  /\ page' = taken
             /\ calls' = Checked(taken, IF p.pending.print = p.design
                                        THEN Run(p.pending.kind, p, c) ELSE c)

Busy == calls.action # None /\ calls.action.here
Start(kind) ==
    /\ page.here /\ page.auth # "initializing" /\ ~Busy
    /\ kind = "save" => ~SavedAndUnchanged(page)
    /\ IF page.auth = "in"
       THEN page' = page /\ calls' = Run(kind, page, calls)
       ELSE /\ page' = [page EXCEPT !.pending = [kind |-> kind, print |-> page.design]]
            /\ UNCHANGED calls
    /\ UNCHANGED server
ContinueAsGuest ==
    /\ page.here /\ page.auth \in {"guest", "out"} /\ page.pending # None
    /\ page' = [page EXCEPT !.pending = None]
    /\ UNCHANGED <<calls, server>>

-----------------------------------------------------------------------------
(* The chain of an action: what one request's answer does. *)

At(step) == calls.action # None /\ calls.action.step = step
Now == calls.action
Versions == FoldFunction(LAMBDA versions, n : Len(versions) + n, 0, server.projects)
CanStore == Len(server.projects) + Len(server.quotes) < MaxStored
Current(id) == server.projects[id][Len(server.projects[id])]

\* The action goes on, or ends; `p` is the page its answer leaves.
Goes(p, action) ==
    /\ page' = p
    /\ calls' = Checked(p, [calls EXCEPT !.action = action])
Ends(p) == Goes(p, None)
AfterSave(p, saved) ==
    IF Now.kind = "save" THEN Ends(p)
    ELSE Goes(p, [Now EXCEPT !.step = "cart", !.saved = saved])

\* (Mutant: the design on the screen when the answer comes.)
RemembersShown(saved, newProject) ==
    [page EXCEPT !.project = [saved EXCEPT !.print = page.design],
                 !.marker = IF newProject THEN None ELSE @,
                 !.linked = IF Now.here THEN [id |-> saved.id, print |-> page.design]
                            ELSE @]

\* The draft and the panel remember what was saved: the design the action
\* began with, not the one on the screen.
Remembers(saved, newProject) ==
    [page EXCEPT !.project = saved,
                 !.marker = IF newProject THEN None ELSE @,
                 !.linked = IF Now.here THEN [id |-> saved.id, print |-> Now.print]
                            ELSE @]

\* (Mutant: every save makes a version.)
LookAndSave ==
    /\ At("look")
    /\ IF Now.id \in server.gone
       THEN Goes([page EXCEPT !.project = None, !.marker = None],
                 [Now EXCEPT !.step = "create"])
       ELSE Goes(page, [Now EXCEPT !.step = "version"])
    /\ UNCHANGED server

\* ensureSaved() looks at the linked project first.
Look ==
    /\ At("look")
    /\ IF Now.id \in server.gone
       THEN Goes([page EXCEPT !.project = None, !.marker = None],
                 [Now EXCEPT !.step = "create"])
       ELSE IF Current(Now.id) = Now.print
       THEN LET saved == Link(Now.id, Len(server.projects[Now.id]), Now.print)
            IN  AfterSave(Remembers(saved, FALSE), saved)
       ELSE Goes(page, [Now EXCEPT !.step = "version"])
    /\ UNCHANGED server

\* A new version, or a new project.  The answer may be lost.
CreateVersion ==
    /\ At("version") /\ Now.id \notin server.gone
    /\ Versions < MaxVersions
    /\ server' = [server EXCEPT !.projects[Now.id] = Append(@, Now.print)]
    /\ LET saved == Link(Now.id, Len(server'.projects[Now.id]), Now.print)
       IN  Ends(page) \/ AfterSave(Remembers(saved, FALSE), saved)
CreateProject ==
    /\ At("create") /\ CanStore /\ Versions < MaxVersions
    /\ server' = [server EXCEPT !.projects = Append(@, <<Now.print>>)]
    /\ LET saved == Link(Len(server'.projects), 1, Now.print)
       IN  Ends(page) \/ AfterSave(Remembers(saved, TRUE), saved)

\* addToCart(): a version that is in the cart is not added again.
Version(link) == <<link.id, link.version>>
InCart(version) == \E q \in server.cart : server.quotes[q].version = version
LookAtCart ==
    /\ At("cart")
    /\ IF InCart(Version(Now.saved)) THEN Ends(page)
       ELSE Goes(page, [Now EXCEPT !.step =
                 IF page.marker # None /\ page.marker.version = Version(Now.saved)
                 THEN "quote" ELSE "price"])
    /\ UNCHANGED server
ReuseQuote ==
    /\ At("quote")
    /\ page.marker # None
    /\ \/ /\ server.quotes[page.marker.quote].good
          /\ Goes(page, [Now EXCEPT !.step = "add", !.quote = page.marker.quote])
       \/ Goes(page, [Now EXCEPT !.step = "price"])     \* not valid, or no answer
    /\ UNCHANGED server
CreateQuote ==
    /\ At("price") /\ CanStore
    /\ LET version == Version(Now.saved)
           quote   == Len(server.quotes) + 1
       IN  /\ server' = [server EXCEPT !.quotes =
                Append(@, [version |-> version, good |-> TRUE])]
           /\ \/ Ends(page)
              \/ Goes([page EXCEPT !.marker = [version |-> version, quote |-> quote]],
                      [Now EXCEPT !.step = "add", !.quote = quote])
AddQuote ==
    /\ At("add") /\ server.quotes[Now.quote].good /\ Now.quote \notin server.cart
    /\ server' = [server EXCEPT !.cart = @ \cup {Now.quote}]
    /\ Ends(page)

\* Refused, unreachable or timed out: the action ends with a message.
ActionFails == calls.action # None /\ Ends(page) /\ UNCHANGED server

-----------------------------------------------------------------------------
\* The check of the link ends.
LinkChecked ==
    /\ calls.check # None
    /\ LET p == IF calls.check \in server.gone
                THEN [page EXCEPT !.project = None, !.marker = None]
                ELSE [page EXCEPT !.linked =
                        [id |-> calls.check, print |-> Current(calls.check)]]
       IN  page' = p /\ calls' = Checked(p, [calls EXCEPT !.check = None])
    /\ UNCHANGED server
CheckFails == /\ calls.check # None /\ calls' = [calls EXCEPT !.check = None]
              /\ UNCHANGED <<page, server>>

-----------------------------------------------------------------------------
(* What the visitor and the world do meanwhile. *)

\* Nothing locks the other stages.  A panel that is shown again knows nothing of
\* what an earlier one had begun.
Away(p) == [p EXCEPT !.here = FALSE, !.linked = None]
AwayCalls == [calls EXCEPT !.check = None,
                 !.action = IF @ = None THEN None ELSE [@ EXCEPT !.here = FALSE]]
LeaveReview == page.here /\ page' = Away(page) /\ calls' = AwayCalls
               /\ UNCHANGED server
EnterReview == ~page.here /\ Resumed([page EXCEPT !.here = TRUE], calls)
               /\ UNCHANGED server
Edit == /\ ~page.here
        /\ \E d \in Designs : page' = [page EXCEPT !.design = d]
        /\ UNCHANGED <<calls, server>>

SessionChecked ==
    /\ page.auth = "initializing"
    /\ \E auth \in {"guest", "in"} : Resumed([page EXCEPT !.auth = auth], calls)
    /\ UNCHANGED server
SignIn == /\ page.auth \in {"guest", "out"} /\ Resumed([page EXCEPT !.auth = "in"], calls)
          /\ UNCHANGED server
\* A session that ended, and leaving the account: a design linked to it goes.
SessionEnds == /\ page.auth = "in"
               /\ LET p == [page EXCEPT !.auth = "guest"]
                  IN  page' = p /\ calls' = Checked(p, calls)
               /\ UNCHANGED server
Unlinked(p) == [p EXCEPT !.project = None, !.marker = None, !.pending = None]
SignOut ==
    /\ page.auth = "in"
    /\ LET p == [Unlinked(page) EXCEPT !.auth = "out"]
       IN  IF page.project = None THEN page' = p /\ calls' = Checked(p, calls)
           ELSE page' = Away(p) /\ calls' = AwayCalls
    /\ UNCHANGED server
StartNew == page' = Away(Unlinked(page)) /\ calls' = AwayCalls /\ UNCHANGED server
Reload == /\ page' = [Away(page) EXCEPT !.auth = "initializing"]
          /\ calls' = NoCalls /\ UNCHANGED server

\* Elsewhere: a project is deleted, a quote expires or is replaced.
Elsewhere ==
    /\ \/ \E id \in DOMAIN server.projects \ server.gone :
             server' = [server EXCEPT !.gone = @ \cup {id}]
       \/ \E q \in DOMAIN server.quotes :
             server' = [server EXCEPT !.quotes[q].good = FALSE, !.cart = @ \ {q}]
    /\ UNCHANGED <<page, calls>>

Init ==
    /\ \E d \in Designs : page =
         [design |-> d, here |-> FALSE, auth |-> "initializing", project |-> None,
          marker |-> None, pending |-> None, linked |-> None]
    /\ calls = NoCalls
    /\ server = [projects |-> <<>>, gone |-> {}, quotes |-> <<>>, cart |-> {}]

Next ==
    \/ \E kind \in Kinds : Start(kind)
    \/ ContinueAsGuest
    \/ Look \/ CreateVersion \/ CreateProject \/ LookAtCart \/ ReuseQuote
    \/ CreateQuote \/ AddQuote \/ ActionFails
    \/ LinkChecked \/ CheckFails
    \/ LeaveReview \/ EnterReview \/ Edit
    \/ SessionChecked \/ SignIn \/ SessionEnds \/ SignOut \/ StartNew \/ Reload
    \/ Elsewhere
Spec == Init /\ [][Next]_vars

-----------------------------------------------------------------------------
\* What the draft and the panel call saved is what the server stored: the
\* version of the draft's link is the design of its fingerprint, and a design
\* that is shown as saved is a version of that project, however the visitor
\* edited, left and came back while requests were out
\* (private-project-panel.tsx 148-260, read again by draft-links.ts 118-135).
SavedIsStored ==
    /\ page.project # None =>
         server.projects[page.project.id][page.project.version] = page.project.print
    /\ SavedAndUnchanged(page) =>
         \E v \in DOMAIN server.projects[page.linked.id] :
             server.projects[page.linked.id][v] = page.design

\* "A version already in the cart is never added twice" (private-project-panel.tsx
\* 262) and "a new version only if the design changed" (175), also when an answer
\* was lost and the visitor asks again.
NothingTwice ==
    /\ \A q, r \in server.cart :
         server.quotes[q].version = server.quotes[r].version => q = r
    /\ \A id \in DOMAIN server.projects : LET versions == server.projects[id] IN
         \A v \in 2 .. Len(versions) : versions[v] # versions[v - 1]

\* "Sign-out: removes everything tied to the account from this browser"
\* (configurator-draft.ts 301): nothing ties the draft of a visitor who signed
\* out to a project.  (The code breaks it: a save answered after the sign-out
\* links the draft again, private-project-panel.tsx 245.)
SignedOutIsUnlinked == page.auth = "out" => page.project = None /\ page.marker = None
=============================================================================
