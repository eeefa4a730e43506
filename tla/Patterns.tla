------------------------------ MODULE Patterns ------------------------------
(***************************************************************************)
(* The visitor's own patterns in the configurator (frontend                *)
(* components/configurator/your-patterns.tsx, services/                    *)
(* upload-availability.ts), and the picture of the chosen pattern on the   *)
(* preview (preview-step.tsx) and on a restored draft (draft-session.tsx). *)
(*                                                                         *)
(* An object URL is a number; it must be revoked once, when nothing shows  *)
(* it any more.  The uploads' own life on the server is not followed: what *)
(* a request sees of it is any state an upload may be in by then.          *)
(***************************************************************************)
EXTENDS Resource, Naturals, Sequences, FiniteSets

CONSTANTS MaxUploads, MaxUrls,   \* bounds: uploads of the account, object URLs
          MaxPolls               \* attempts after the first look at an upload

VARIABLES page,     \* the stage, the design's pattern, and the object URLs
          calls,    \* what is in flight
          server    \* the account's uploads, by number, and their states
vars == <<page, calls, server>>

Uploads == 1 .. MaxUploads
Progressing == {"processing"}       \* uploaded, processing, awaiting_moderation
States == {"none", "awaiting_upload", "processing", "approved", "failed", "deleted"}
Stages == {"pattern", "preview", "other"}

\* The form of a file, as the stage shows it first.
NoForm == [checking |-> None, file |-> None, uploading |-> FALSE, rights |-> FALSE]
NoCalls == [availability |-> FALSE, checks |-> {}, upload |-> None, polls |-> {},
            selects |-> {}, removes |-> {}, restore |-> None, image |-> None]

TypeOK ==
    /\ page.stage \in Stages /\ page.signedIn \in BOOLEAN
    /\ page.offers \in {"checking", "enabled", "disabled", "unknown"}
    /\ page.pattern = None \/ page.pattern.id \in Uploads
    /\ \A url \in DOMAIN page.urls : page.urls[url] \in 0 .. 2
    /\ page.form.file \in DOMAIN page.urls \cup {None}
    /\ calls.checks \subseteq DOMAIN page.urls
    /\ calls.polls \subseteq Uploads \X (0 .. MaxPolls)
    /\ server \in [Uploads -> States]

-----------------------------------------------------------------------------
(* Object URLs: how many times each was revoked. *)

CanCreate(n) == Len(page.urls) + n <= MaxUrls
Created(p) == [p EXCEPT !.urls = Append(@, 0)]
Revoked(p, urls) ==
    [p EXCEPT !.urls = [url \in DOMAIN @ |->
                            IF url \in urls THEN @[url] + 1 ELSE @[url]]]
Held(url) == {url} \ {None}

\* The picture belongs to the source it was fetched from: another source mounts
\* the preview again, which revokes the old one and fetches.
Source(p) == IF p.stage = "preview" /\ p.pattern # None /\ p.pattern.preview
             THEN p.pattern.id ELSE None
NoImage == [source |-> None, url |-> None, failed |-> FALSE]
Shown(p) == IF p.image.source = Source(p) THEN p.image.url ELSE None
\* A restored pattern without its preview asks for a new grant; a newer choice
\* forgets the answer.
Restoring(p) == IF p.pattern # None /\ ~p.pattern.preview /\ p.pattern.gone = None
                THEN p.pattern ELSE None
Effects(p, c) ==
    LET remounts == Source(p) # Source(page)
        next == IF remounts THEN [Revoked(p, Held(p.image.url)) EXCEPT !.image = NoImage]
                ELSE p
    IN  /\ page' = next
        /\ calls' = [c EXCEPT !.image   = IF remounts THEN Source(p) ELSE @,
                              !.restore = IF p.pattern # page.pattern
                                             \/ p.signedIn # page.signedIn
                                          THEN Restoring(p) ELSE @]

ImageAnswers ==
    /\ calls.image # None /\ UNCHANGED server
    /\ \/ /\ CanCreate(1)
          /\ page' = [Created(page) EXCEPT
                !.image = [source |-> calls.image, url |-> Len(page.urls) + 1,
                           failed |-> FALSE]]
       \/ page' = [page EXCEPT !.image.failed = TRUE]
    /\ calls' = [calls EXCEPT !.image = None]
RestoreAnswers ==
    /\ calls.restore # None /\ UNCHANGED server
    /\ LET id == calls.restore.id
       IN  \E answered \in {page.signedIn, FALSE} :
           Effects([page EXCEPT !.pattern =
             IF answered /\ server[id] = "approved"
             THEN [id |-> id, preview |-> TRUE, gone |-> None]
             ELSE [id |-> id, preview |-> FALSE, gone |->
                   IF answered /\ server[id] = "deleted" THEN "deleted"
                   ELSE "unavailable"]],
             [calls EXCEPT !.restore = None])

-----------------------------------------------------------------------------
(* Whether uploads are offered: asked once per tab, failures not remembered. *)

Offers(known) == IF known = None THEN "checking" ELSE known
Key(p) == IF p.stage = "pattern" /\ p.signedIn /\ p.offers = "enabled"
          THEN "list" ELSE None
Listing(p) == [p EXCEPT !.list = Rekeyed(@, Key(p))]
AvailabilityAnswers ==
    /\ calls.availability /\ UNCHANGED server
    /\ \E answer \in {"enabled", "disabled", "unknown"} :
         page' = Listing([page EXCEPT
            !.known = IF answer = "unknown" THEN None ELSE answer,
            !.offers = IF page.stage = "pattern" THEN answer ELSE @])
    /\ calls' = [calls EXCEPT !.availability = FALSE]

-----------------------------------------------------------------------------
(* The stage, and the files the visitor chooses. *)

\* Leaving the stage unmounts its form: what is shown or still being checked is
\* revoked.  What is in flight goes on, and only the pattern it chooses is heard.
Left(p) ==
    Revoked([p EXCEPT !.form = NoForm, !.list = EmptyResource],
            Held(p.form.file) \cup IF p.stage = "pattern" THEN calls.checks ELSE {})
GoTo(stage) ==
    /\ stage # page.stage /\ UNCHANGED server
    /\ LET p == [Left(page) EXCEPT !.stage = stage, !.offers = Offers(page.known)]
           c == [calls EXCEPT !.checks = {}, !.polls = {},
                    !.upload = IF @ = None THEN None ELSE [@ EXCEPT !.here = FALSE],
                    !.removes = {[r EXCEPT !.here = FALSE] : r \in @},
                    !.availability = @ \/ (stage = "pattern" /\ page.known = None)]
       IN  Effects(Listing(p), c)

Ready == page.stage = "pattern" /\ page.offers = "enabled" /\ page.signedIn
ChooseFile ==
    /\ Ready /\ UNCHANGED server
    /\ LET cleared == Revoked([page EXCEPT !.form.checking = None, !.form.file = None],
                              Held(page.form.file))
           url == Len(page.urls) + 1
       IN  \/ /\ page' = cleared    \* the file is taken back
              /\ UNCHANGED calls
           \/ /\ CanCreate(1)
              /\ page' = [Created(cleared) EXCEPT !.form.checking = url]
              /\ calls' = [calls EXCEPT !.checks = @ \cup {url}]
\* (Mutant: a file that is not the newest any more is dropped with its URL.)
FileCheckedKeeping(url) ==
    /\ url \in calls.checks /\ UNCHANGED server
    /\ calls' = [calls EXCEPT !.checks = @ \ {url}]
    /\ IF page.form.checking # url THEN UNCHANGED page
       ELSE \/ page' = [page EXCEPT !.form.checking = None, !.form.file = url]
            \/ page' = [Revoked(page, {url}) EXCEPT !.form.checking = None]

\* validateImage() ends; only the newest file is heard.
FileChecked(url) ==
    /\ url \in calls.checks /\ UNCHANGED server
    /\ calls' = [calls EXCEPT !.checks = @ \ {url}]
    /\ IF page.form.checking # url THEN page' = Revoked(page, {url})
       ELSE \/ page' = [page EXCEPT !.form.checking = None, !.form.file = url]
            \/ page' = [Revoked(page, {url}) EXCEPT !.form.checking = None]
Acknowledge == /\ Ready /\ page' = [page EXCEPT !.form.rights = ~@]
               /\ UNCHANGED <<calls, server>>

-----------------------------------------------------------------------------
(* An upload, and looking after it. *)

\* list.update(): the newest answer about an upload is what the list says of it.
Listed(p, id, state) ==
    LET items == IF p.list.data = None THEN [u \in Uploads |-> "none"] ELSE p.list.data
    IN  IF p.list.settled # Key(p) \/ Key(p) = None THEN p
        ELSE [p EXCEPT !.list.data = [items EXCEPT ![id] = state]]
Items == LET items == DataFor(page.list, Key(page), FALSE)
         IN  IF items = None THEN [u \in Uploads |-> "none"] ELSE items

ListAnswers ==
    /\ page.list.load = Asked /\ UNCHANGED <<calls, server>>
    /\ page' \in {[page EXCEPT !.list = r] :
                    r \in {Loaded(page.list, server), LoadFailed(page.list, FALSE)}}

Upload ==
    /\ Ready /\ page.form.file # None /\ ~page.form.uploading /\ page.form.rights
    /\ page' = [page EXCEPT !.form.uploading = TRUE]
    /\ calls' = [calls EXCEPT !.upload = [step |-> "acknowledge", id |-> None, here |-> TRUE]]
    /\ calls.upload = None \* bound: an upload that was left ends before the next
    /\ UNCHANGED server
Acknowledged ==
    /\ calls.upload # None /\ calls.upload.step = "acknowledge"
    /\ calls' = [calls EXCEPT !.upload.step = "intent"] /\ UNCHANGED <<page, server>>
Intended == \E id \in Uploads :
    /\ calls.upload # None /\ calls.upload.step = "intent" /\ server[id] = "none"
    /\ server' = [server EXCEPT ![id] = "awaiting_upload"]
    /\ calls' = [calls EXCEPT !.upload.step = "confirm", !.upload.id = id]
    /\ UNCHANGED page
Confirmed ==
    /\ calls.upload # None /\ calls.upload.step = "confirm"
    /\ server[calls.upload.id] = "awaiting_upload"
    /\ LET id == calls.upload.id
           p  == Revoked(Listed(page, id, "processing"), Held(page.form.file))
       IN  /\ server' = [server EXCEPT ![id] = "processing"]
           /\ page' = IF calls.upload.here
                      THEN [p EXCEPT !.form.file = None, !.form.rights = FALSE,
                                     !.form.uploading = FALSE]
                      ELSE page
           /\ calls' = [calls EXCEPT !.upload = None,
                            !.polls = IF calls.upload.here THEN @ \cup {<<id, 0>>} ELSE @]
UploadFails ==
    /\ calls.upload # None
    /\ page' = IF calls.upload.here THEN [page EXCEPT !.form.uploading = FALSE] ELSE page
    /\ calls' = [calls EXCEPT !.upload = None] /\ UNCHANGED server

\* poll(): again while the upload is on its way, up to the last attempt.
Polled(poll) ==
    /\ poll \in calls.polls /\ UNCHANGED server
    /\ LET id == poll[1]  attempt == poll[2]
           again == server[id] \in Progressing /\ attempt < MaxPolls
       IN  \/ /\ page' = Listed(page, id, server[id])
              /\ calls' = [calls EXCEPT !.polls = (@ \ {poll}) \cup
                              IF again THEN {<<id, attempt + 1>>} ELSE {}]
           \/ /\ calls' = [calls EXCEPT !.polls = @ \ {poll}]
              /\ UNCHANGED page
Retry(id) ==
    /\ Ready /\ Items[id] = "failed"
    /\ IF server[id] = "failed"
       THEN /\ server' = [server EXCEPT ![id] = "processing"]
            /\ calls' = [calls EXCEPT !.polls = @ \cup {<<id, 0>>}]
       ELSE UNCHANGED <<calls, server>>
    /\ UNCHANGED page

\* select(): the design changes when the grant is there, whatever was chosen since.
Select(id) == /\ Ready /\ Items[id] = "approved"
              /\ calls' = [calls EXCEPT !.selects = @ \cup {id}]
              /\ UNCHANGED <<page, server>>
Selected(id) ==
    /\ id \in calls.selects /\ UNCHANGED server
    /\ LET c == [calls EXCEPT !.selects = @ \ {id}]
       IN  IF server[id] = "approved"
           THEN Effects([page EXCEPT !.pattern =
                            [id |-> id, preview |-> TRUE, gone |-> None]], c)
           ELSE page' = page /\ calls' = c

\* remove(), asked for twice: the click's render remembers the design.
Remove(id) ==
    /\ Ready /\ Items[id] \notin {"none", "deleted"} /\ UNCHANGED <<page, server>>
    /\ calls' = [calls EXCEPT !.removes = @ \cup
            {[id |-> id, here |-> TRUE,
              uses |-> page.pattern # None /\ page.pattern.id = id]}]
Removed(r) ==
    /\ r \in calls.removes
    /\ LET c == [calls EXCEPT !.removes = @ \ {r}]
           done == [page EXCEPT !.list = IF r.here THEN Reloaded(@, Key(page), FALSE) ELSE @,
                !.pattern = IF r.uses THEN [id |-> r.id, preview |-> FALSE,
                                            gone |-> "deleted"] ELSE @]
       IN  \/ /\ server[r.id] # "deleted"
              /\ server' = [server EXCEPT ![r.id] = "deleted"]
              /\ Effects(done, c)
           \/ page' = page /\ calls' = c /\ UNCHANGED server

-----------------------------------------------------------------------------
(* The rest of the visit. *)

ChooseOurs == /\ page.stage = "pattern" /\ page.pattern # None
              /\ Effects([page EXCEPT !.pattern = None], calls)
              /\ UNCHANGED server
SignIn == /\ ~page.signedIn
          /\ Effects(Listing([page EXCEPT !.signedIn = TRUE]), calls)
          /\ UNCHANGED server
\* A session that ends: the form stays behind the sign-in.
SessionEnds == /\ page.signedIn
               /\ Effects(Listing([page EXCEPT !.signedIn = FALSE]), calls)
               /\ UNCHANGED server
\* The page is loaded again: object URLs go with the document.
Fresh(pattern, signedIn) ==
    [stage |-> "other", signedIn |-> signedIn, known |-> None, offers |-> "checking",
     pattern |-> pattern, urls |-> <<>>, form |-> NoForm, list |-> EmptyResource,
     image |-> NoImage]
Reload ==
    /\ LET kept == IF page.pattern = None THEN None
                   ELSE [page.pattern EXCEPT !.preview = FALSE, !.gone = None]
       IN  /\ page' = Fresh(kept, page.signedIn)
           /\ calls' = [NoCalls EXCEPT !.restore = kept]
    /\ UNCHANGED server
\* Processing and moderation conclude.
Processed(id) == /\ server[id] = "processing"
                 /\ \E s \in {"approved", "failed"} : server' = [server EXCEPT ![id] = s]
                 /\ UNCHANGED <<page, calls>>

Init == /\ \E s \in BOOLEAN : page = Fresh(None, s)
        /\ calls = NoCalls /\ server = [u \in Uploads |-> "none"]
Next ==
    \/ ImageAnswers \/ RestoreAnswers \/ AvailabilityAnswers
    \/ \E stage \in Stages : GoTo(stage)
    \/ ChooseFile \/ Acknowledge \/ \E url \in calls.checks : FileChecked(url)
    \/ ListAnswers
    \/ Upload \/ Acknowledged \/ Intended \/ Confirmed \/ UploadFails
    \/ \E poll \in calls.polls : Polled(poll)
    \/ \E id \in Uploads : Retry(id) \/ Select(id) \/ Remove(id) \/ Processed(id)
    \/ \E id \in calls.selects : Selected(id)
    \/ \E r \in calls.removes : Removed(r)
    \/ ChooseOurs \/ SignIn \/ SessionEnds \/ Reload
Spec == Init /\ [][Next]_vars

-----------------------------------------------------------------------------
\* Every object URL is revoked once, and only when nothing shows it or checks it
\* any more; none stays behind (your-patterns.tsx 152-208, preview-step.tsx
\* 93-127; account-workspace.test.tsx 1354 and 1563 revoke one file's preview).
UrlsEndOnce ==
    \A url \in DOMAIN page.urls :
        page.urls[url] = IF url \in calls.checks \cup {page.form.file, Shown(page)}
                         THEN 0 ELSE 1
=============================================================================
