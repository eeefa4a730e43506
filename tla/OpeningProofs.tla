--------------------------- MODULE OpeningProofs ----------------------------
(***************************************************************************)
(* Proof that a newer edit is kept, for any designs of the visitor.        *)
(*                                                                         *)
(* NewerEditKept alone is not inductive: that a late link does not replace *)
(* an edit depends on what was there when the link began to load, which    *)
(* LinksCover remembers, and that the arrival opens a link only over work  *)
(* that is stored elsewhere depends on the links of the draft, which Kept  *)
(* relates to the visitor's work.                                          *)
(***************************************************************************)
EXTENDS Visit, TLAPS

\* The visitor's designs are neither blank, nor the link's, nor none.
OwnDesigns == Blank \notin Mine /\ Linked \notin Mine /\ None \notin Mine /\ Asked # None

\* The fields of the records of a page.
Shape(p) ==
    /\ DOMAIN p = {"design", "gate", "reason", "restored", "due", "draft", "link",
                   "auth", "catalogue", "share", "workspace", "workspaceEdited",
                   "work", "exposed", "lost"}
    /\ DOMAIN p.draft = {"design", "origin", "project", "public"}
    /\ DOMAIN p.share = {"phase", "edited", "pending"}
    /\ DOMAIN p.workspace = {"deps", "load", "settled", "data", "error", "fresh",
                             "background"}

Undecided == {"checking", "confirm"}

\* Where the unsaved work is, and what it is not.
Kept(p) ==
    /\ p.work \subseteq Mine
    /\ p.work \subseteq {p.design} \cup (IF p.gate \in Undecided THEN {p.draft.design} ELSE {})
    /\ p.draft.project \notin p.work
    /\ p.draft.origin \in {None, Linked} /\ p.draft.public \in {None, Linked}

\* All of the work was there when a link began to load.
Covered(p) == p.work \subseteq p.exposed

\* A link that may still replace the design knows all of the work; c are the
\* page's requests.
LinksCover(p, c) ==
    /\ (p.share.phase = "loading" \/ p.share.pending \/ c # {}) /\ ~p.share.edited
         => Covered(p)
    /\ p.workspace.load = Asked /\ ~p.workspaceEdited => Covered(p)

Good(p, c) == Shape(p) /\ Kept(p) /\ LinksCover(p, c)

Inv == Good(page, calls)

-----------------------------------------------------------------------------
(* What the operators a handler is made of keep. *)

LEMMA WrittenKeeps ==
    ASSUME NEW p, Shape(p), Kept(p)
    PROVE  /\ Shape(Opening!Written(p)) /\ Kept(Opening!Written(p))
           /\ \A c : LinksCover(p, c) => LinksCover(Opening!Written(p), c)
           /\ Opening!Written(p).share = p.share /\ Opening!Written(p).gate = p.gate
<1>1. CASE p.gate \in Undecided \/ p.design = Blank
  BY <1>1 DEF Opening!Written, Undecided
<1>2. CASE p.gate \notin Undecided /\ p.design # Blank
  <2>1. Opening!Written(p) = [p EXCEPT !.draft.design = p.design]
    BY <1>2 DEF Opening!Written, Undecided
  <2>2. /\ Shape(Opening!Written(p))
        /\ Opening!Written(p).work = p.work /\ Opening!Written(p).exposed = p.exposed
        /\ Opening!Written(p).design = p.design /\ Opening!Written(p).gate = p.gate
        /\ Opening!Written(p).share = p.share /\ Opening!Written(p).workspace = p.workspace
        /\ Opening!Written(p).workspaceEdited = p.workspaceEdited
        /\ Opening!Written(p).draft.project = p.draft.project
        /\ Opening!Written(p).draft.origin = p.draft.origin
        /\ Opening!Written(p).draft.public = p.draft.public
    BY <2>1 DEF Shape
  <2>3. Kept(Opening!Written(p))
    BY <1>2, <2>2 DEF Kept
  <2>4. \A c : LinksCover(p, c) => LinksCover(Opening!Written(p), c)
    BY <2>2 DEF LinksCover, Covered
  <2> QED
    BY <2>2, <2>3, <2>4
<1> QED
  BY <1>1, <1>2

LEMMA DispatchedFields ==
    ASSUME NEW p, NEW design, Shape(p)
    PROVE  LET next == Opening!Dispatched(p, design)
           IN  /\ Shape(next)
               /\ next.work = p.work /\ next.exposed = p.exposed
               /\ next.design = design /\ next.gate = p.gate /\ next.draft = p.draft
               /\ next.share.edited = TRUE /\ next.share.phase = p.share.phase
               /\ next.workspaceEdited = TRUE /\ next.link = p.link
BY DEF Opening!Dispatched, Shape

\* A link that begins to load knows all of the work.
LEMMA ExposingCovers ==
    ASSUME NEW p, Shape(p), Kept(p)
    PROVE  LET next == Opening!Exposing(p)
           IN  /\ Shape(next) /\ Kept(next) /\ Covered(next)
               /\ next.gate = p.gate /\ next.link = p.link
<1>1. /\ Shape(Opening!Exposing(p))
      /\ Opening!Exposing(p).work = p.work /\ Opening!Exposing(p).design = p.design
      /\ Opening!Exposing(p).gate = p.gate /\ Opening!Exposing(p).draft = p.draft
      /\ Opening!Exposing(p).link = p.link
      /\ Opening!Exposing(p).exposed = p.work \cap {p.design, p.draft.design}
  BY DEF Opening!Exposing, Shape
<1> QED
  BY <1>1 DEF Kept, Covered

LEMMA CoveredIsEnough ==
    ASSUME NEW p, NEW c, Covered(p) PROVE LinksCover(p, c)
BY DEF LinksCover

LEMMA ShareLoadKeeps ==
    ASSUME NEW p, Shape(p), Kept(p)
    PROVE  /\ Shape(Opening!ShareLoad(p)) /\ Kept(Opening!ShareLoad(p))
           /\ Covered(Opening!ShareLoad(p))
<1> DEFINE e == Opening!Exposing(p)
<1>1. Shape(e) /\ Kept(e) /\ Covered(e)
  BY ExposingCovers
<1>2. Opening!ShareLoad(p) = [e EXCEPT !.share = [phase |-> "loading", edited |-> FALSE,
                                          pending |-> FALSE]]
  BY DEF Opening!ShareLoad
<1> HIDE DEF e
<1>3. /\ Shape(Opening!ShareLoad(p))
      /\ Opening!ShareLoad(p).work = e.work /\ Opening!ShareLoad(p).exposed = e.exposed
      /\ Opening!ShareLoad(p).design = e.design /\ Opening!ShareLoad(p).gate = e.gate
      /\ Opening!ShareLoad(p).draft = e.draft
  BY <1>1, <1>2 DEF Shape
<1> QED
  BY <1>1, <1>3 DEF Kept, Covered

LEMMA RekeyedShape ==
    ASSUME NEW p, NEW key, Shape(p)
    PROVE  DOMAIN Opening!Rekeyed(p.workspace, key) = DOMAIN p.workspace
BY DEF Opening!Rekeyed, Shape

LEMMA RenderKeeps ==
    ASSUME NEW p, NEW c, Good(p, c)
    PROVE  Good(Opening!Render(p), c) /\ Opening!Render(p).share = p.share
<1> DEFINE asked == Opening!Rekeyed(p.workspace, Opening!Key(p))
           e == Opening!Exposing(p)
<1>1. DOMAIN asked = DOMAIN p.workspace
  BY RekeyedShape DEF Good
<1>2. Shape(e) /\ Kept(e) /\ Covered(e) /\ e.share = p.share
  BY ExposingCovers DEF Good, Opening!Exposing, Shape
<1>3. Opening!Render(p) = IF asked = p.workspace THEN p
                  ELSE [e EXCEPT !.workspace = asked, !.workspaceEdited = FALSE]
  BY DEF Opening!Render
<1> HIDE DEF asked, e
<1>4. CASE asked # p.workspace
  <2>1. /\ Shape(Opening!Render(p))
        /\ Opening!Render(p).work = e.work /\ Opening!Render(p).exposed = e.exposed
        /\ Opening!Render(p).design = e.design /\ Opening!Render(p).gate = e.gate
        /\ Opening!Render(p).draft = e.draft /\ Opening!Render(p).share = e.share
    BY <1>1, <1>2, <1>3, <1>4 DEF Shape, Good
  <2>2. Kept(Opening!Render(p)) /\ Covered(Opening!Render(p))
    BY <1>2, <2>1 DEF Kept, Covered
  <2> QED
    BY <1>2, <2>1, <2>2, CoveredIsEnough DEF Good
<1> QED
  BY <1>3, <1>4

\* The loaders mount over work that is on the screen.
LEMMA OpensKeeps ==
    ASSUME NEW p, NEW c, Good(p, c)
    PROVE  Good(Opening!Opens(p), c)
<1> DEFINE opened == IF p.link = "design" THEN Opening!ShareLoad(p)
                     ELSE IF p.link = "malformed"
                     THEN [p EXCEPT !.share.phase = "malformed-id"] ELSE p
<1>1. Good(opened, c)
  <2>1. CASE p.link = "design"
    BY <2>1, ShareLoadKeeps, CoveredIsEnough DEF Good
  <2>2. CASE p.link = "malformed"
    <3> DEFINE q == [p EXCEPT !.share.phase = "malformed-id"]
    <3>1. /\ Shape(q) /\ q.work = p.work /\ q.exposed = p.exposed
          /\ q.design = p.design /\ q.gate = p.gate /\ q.draft = p.draft
          /\ q.share.phase = "malformed-id" /\ q.share.edited = p.share.edited
          /\ q.share.pending = p.share.pending
          /\ q.workspace = p.workspace /\ q.workspaceEdited = p.workspaceEdited
      BY DEF Good, Shape
    <3> HIDE DEF q
    <3>2. Good(q, c)
      BY <3>1 DEF Good, Kept, LinksCover, Covered
    <3> QED
      BY <2>2, <3>2 DEF q
  <2> QED
    BY <2>1, <2>2
<1>2. Opening!Opens(p) = Opening!Render(Opening!Written(opened))
  BY DEF Opening!Opens
<1> HIDE DEF opened
<1>3. Good(Opening!Written(opened), c)
  BY <1>1, WrittenKeeps DEF Good
<1> QED
  BY <1>2, <1>3, RenderKeeps

LEMMA CallingCovers ==
    ASSUME NEW p, NEW c, Good(p, c)
    PROVE  Good(p, Opening!Calling(p))
BY DEF Good, LinksCover, Opening!Calling

\* A link replaces the design only with all of the work exposed.
LEMMA LinkRestoredKeeps ==
    ASSUME NEW p, NEW ref, Shape(p), Covered(p), OwnDesigns
    PROVE  LET next == Opening!LinkRestored(p, ref)
           IN  /\ Shape(next) /\ Kept(next) /\ Covered(next)
<1> DEFINE recorded == Opening!RecordLinkRestore(p, ref)
           arrived == Opening!Dispatched(recorded, Linked)
           back == Opening!Written(arrived)
<1>1. /\ Shape(recorded) /\ recorded.draft.origin = Linked
      /\ recorded.draft.public \in {None, Linked}
      /\ recorded.draft.project \in {None, Linked}
  BY DEF Opening!RecordLinkRestore, Shape
<1>2. Shape(arrived) /\ arrived.draft = recorded.draft /\ arrived.design = Linked
  BY <1>1, DispatchedFields
<1>3. Opening!LinkRestored(p, ref) = [back EXCEPT !.work = @ \ p.exposed,
                         !.lost = @ \cup (p.work \cap p.exposed), !.exposed = {}]
  BY DEF Opening!LinkRestored
<1>4. recorded.work = p.work
  BY DEF Opening!RecordLinkRestore, Shape
<1>5. arrived.work = p.work
  BY <1>1, <1>4 DEF Opening!Dispatched, Shape
<1> HIDE DEF arrived, recorded
<1>6. /\ Shape(back) /\ back.work = p.work
      /\ back.draft.origin = Linked /\ back.draft.public \in {None, Linked}
  BY <1>1, <1>2, <1>5 DEF Opening!Written, Shape
<1> HIDE DEF back
<1>7. /\ Shape(Opening!LinkRestored(p, ref))
      /\ Opening!LinkRestored(p, ref).work = back.work \ p.exposed
      /\ Opening!LinkRestored(p, ref).draft = back.draft
  BY <1>3, <1>6 DEF Shape
<1>8. Opening!LinkRestored(p, ref).work = {}
  BY <1>6, <1>7 DEF Covered
<1> QED
  BY <1>6, <1>7, <1>8 DEF Kept, Covered

LEMMA ReconciledKeeps ==
    ASSUME NEW p, NEW c, Good(p, c), OwnDesigns
    PROVE  Good(Opening!Reconciled(p), c)
<1>1. CASE ~p.share.pending
  BY <1>1 DEF Opening!Reconciled
<1>2. CASE p.share.pending /\ p.share.edited
  <2> DEFINE q == Opening!Superseded(p)
  <2>1. Opening!Reconciled(p) = q
    BY <1>2 DEF Opening!Reconciled
  <2>2. /\ Shape(q) /\ q.work = p.work /\ q.exposed = p.exposed
        /\ q.design = p.design /\ q.gate = p.gate /\ q.draft = p.draft
        /\ q.share.edited = p.share.edited
        /\ q.workspace = p.workspace /\ q.workspaceEdited = p.workspaceEdited
    BY DEF Good, Shape, Opening!Superseded
  <2> HIDE DEF q
  <2>3. Good(q, c)
    BY <1>2, <2>2 DEF Good, Kept, LinksCover, Covered
  <2> QED
    BY <2>1, <2>3
<1>3. CASE p.share.pending /\ ~p.share.edited
  <2> DEFINE found == Opening!LinkRestored(p, "design")
             waits == CASE p.catalogue = "loading" -> "waiting-patterns"
                        [] p.catalogue = "error" -> "catalogue-error"
                        [] OTHER -> "pattern-unavailable"
             shown == [found EXCEPT !.share.phase = "restored", !.share.pending = FALSE]
             later == [p EXCEPT !.share.phase = waits]
  <2>1. Covered(p)
    BY <1>3 DEF Good, LinksCover
  <2>2. Shape(found) /\ Kept(found) /\ Covered(found)
    BY <2>1, LinkRestoredKeeps DEF Good
  <2>3. Opening!Reconciled(p) = shown \/ Opening!Reconciled(p) = later
    BY <1>3 DEF Opening!Reconciled
  <2> HIDE DEF found, waits
  <2>4. /\ Shape(shown) /\ shown.work = found.work /\ shown.exposed = found.exposed
        /\ shown.design = found.design /\ shown.gate = found.gate
        /\ shown.draft = found.draft
    BY <2>2 DEF Shape
  <2>5. /\ Shape(later) /\ later.work = p.work /\ later.exposed = p.exposed
        /\ later.design = p.design /\ later.gate = p.gate /\ later.draft = p.draft
    BY DEF Good, Shape
  <2> HIDE DEF shown, later
  <2>6. Good(shown, c)
    <3>1. Kept(shown) /\ Covered(shown)
      BY <2>2, <2>4 DEF Kept, Covered
    <3> QED
      BY <2>4, <3>1, CoveredIsEnough DEF Good
  <2>7. Good(later, c)
    <3>1. Kept(later) /\ Covered(later)
      BY <2>1, <2>5 DEF Good, Kept, Covered
    <3> QED
      BY <2>5, <3>1, CoveredIsEnough DEF Good
  <2> QED
    BY <2>3, <2>6, <2>7
<1> QED
  BY <1>1, <1>2, <1>3

\* The draft comes back over work that it holds.
LEMMA StoredRestoredKeeps ==
    ASSUME NEW p, NEW c, Shape(p), LinksCover(p, c), p.work \subseteq Mine,
           p.work \subseteq {IF Opening!Stored(p) = None THEN p.design ELSE Opening!Stored(p)},
           p.draft.project \notin p.work,
           p.draft.origin \in {None, Linked}, p.draft.public \in {None, Linked}
    PROVE  Good(Opening!StoredRestored(p), c)
<1>1. CASE Opening!Stored(p) = None
  BY <1>1 DEF Opening!StoredRestored, Good, Kept
<1>2. CASE Opening!Stored(p) # None
  <2> DEFINE d == Opening!Dispatched(p, Opening!Stored(p))
             next == [d EXCEPT !.gate = "ready", !.restored = TRUE]
  <2>1. /\ Shape(d) /\ d.work = p.work /\ d.design = Opening!Stored(p) /\ d.draft = p.draft
        /\ d.share.edited = TRUE /\ d.workspaceEdited = TRUE
    BY DispatchedFields
  <2>2. Opening!StoredRestored(p) = next
    BY <1>2 DEF Opening!StoredRestored
  <2> HIDE DEF d
  <2>3. /\ Shape(next) /\ next.work = d.work /\ next.design = d.design
        /\ next.gate = "ready" /\ next.draft = d.draft
        /\ next.share = d.share /\ next.workspaceEdited = d.workspaceEdited
    BY <2>1 DEF Shape
  <2> HIDE DEF next
  <2>4. Kept(next) /\ LinksCover(next, c)
    BY <1>2, <2>1, <2>3 DEF Kept, LinksCover
  <2> QED
    BY <2>2, <2>3, <2>4 DEF Good
<1> QED
  BY <1>1, <1>2

\* A step that changes neither the designs nor the loaders.
LEMMA OtherFieldsKeep ==
    ASSUME NEW p, NEW q, NEW c, Good(p, c), Shape(q),
           q.work = p.work, q.exposed = p.exposed, q.design = p.design,
           q.gate = p.gate, q.draft = p.draft, q.share = p.share,
           q.workspace = p.workspace, q.workspaceEdited = p.workspaceEdited
    PROVE  Good(q, c)
BY DEF Good, Kept, LinksCover, Covered

-----------------------------------------------------------------------------
(* The steps. *)

\* Work that an arrival does not protect is stored elsewhere.
LEMMA UnprotectedIsShown ==
    ASSUME NEW p, NEW ref, Kept(p), OwnDesigns, ~Opening!DraftNeedsProtection(p, ref)
    PROVE  p.work \subseteq {p.design}
BY DEF Kept, OwnDesigns, Opening!DraftNeedsProtection, Opening!Stored

LEMMA ArriveKeeps ==
    ASSUME Inv, OwnDesigns, Opening!Arrive
    PROVE  Good(page', calls')
<1> DEFINE plan == Opening!PlanArrival(page)
           ask == [page EXCEPT !.gate = "confirm", !.reason = plan[2]]
           link == [page EXCEPT !.gate = "link"]
           ready == [page EXCEPT !.gate = "ready"]
<1>1. Good(page, {})
  BY DEF Inv, Good, LinksCover
<1>2. CASE plan[1] = "confirm"
  <2>1. page' = ask /\ calls' = Opening!Calling(ask)
    BY <1>2 DEF Opening!Arrive
  <2>2. /\ Shape(ask) /\ ask.work = page.work /\ ask.exposed = page.exposed
        /\ ask.design = page.design /\ ask.gate = "confirm" /\ ask.draft = page.draft
        /\ ask.share = page.share /\ ask.workspace = page.workspace
        /\ ask.workspaceEdited = page.workspaceEdited
    BY DEF Inv, Good, Shape
  <2> HIDE DEF ask, plan
  <2>3. Good(ask, {})
    <3>1. page.gate = "checking"
      BY DEF Opening!Arrive
    <3> QED
      BY <1>1, <2>2, <3>1 DEF Good, Kept, LinksCover, Covered, Undecided
  <2> QED
    BY <2>1, <2>3, CallingCovers
<1>3. CASE plan[1] = "link"
  <2>1. page' = Opening!Opens(link) /\ calls' = Opening!Calling(Opening!Opens(link))
    BY <1>3 DEF Opening!Arrive
  <2>2. ~Opening!DraftNeedsProtection(page, page.link)
    BY <1>3 DEF Opening!PlanArrival
  <2>3. page.work \subseteq {page.design}
    BY <1>1, <2>2, UnprotectedIsShown DEF Good
  <2>4. /\ Shape(link) /\ link.work = page.work /\ link.exposed = page.exposed
        /\ link.design = page.design /\ link.gate = "link" /\ link.draft = page.draft
        /\ link.share = page.share /\ link.workspace = page.workspace
        /\ link.workspaceEdited = page.workspaceEdited
    BY <1>1 DEF Good, Shape
  <2> HIDE DEF link, plan
  <2>5. Good(link, {})
    BY <1>1, <2>3, <2>4 DEF Good, Kept, LinksCover, Covered
  <2> QED
    BY <2>1, <2>5, OpensKeeps, CallingCovers
<1>4. CASE plan[1] = "restore"
  <2>1. /\ page' = Opening!Opens(Opening!StoredRestored(page))
        /\ calls' = Opening!Calling(Opening!Opens(Opening!StoredRestored(page)))
    BY <1>4 DEF Opening!Arrive
  <2>2. Opening!Stored(page) # None /\ page.design \in {Blank, Opening!Stored(page)}
    BY <1>4 DEF Opening!PlanArrival
  <2>3. page.work \subseteq {Opening!Stored(page)}
    BY <1>1, <2>2 DEF Good, Kept, OwnDesigns, Opening!Stored
  <2>4. Good(Opening!StoredRestored(page), {})
    BY <1>1, <2>2, <2>3, StoredRestoredKeeps DEF Good, Kept
  <2> QED
    BY <2>1, <2>4, OpensKeeps, CallingCovers
<1>5. CASE plan[1] \notin {"confirm", "link", "restore"}
  <2>1. page' = Opening!Opens(ready) /\ calls' = Opening!Calling(Opening!Opens(ready))
    BY <1>5 DEF Opening!Arrive
  <2>2. Opening!Stored(page) = None \/ ~Opening!DraftNeedsProtection(page, "none")
    BY <1>5 DEF Opening!PlanArrival
  <2>3. page.work \subseteq {page.design}
    <3>1. CASE Opening!Stored(page) = None
      BY <1>1, <3>1 DEF Good, Kept, OwnDesigns, Opening!Stored
    <3> QED
      BY <1>1, <2>2, <3>1, UnprotectedIsShown DEF Good
  <2>4. /\ Shape(ready) /\ ready.work = page.work /\ ready.exposed = page.exposed
        /\ ready.design = page.design /\ ready.gate = "ready" /\ ready.draft = page.draft
        /\ ready.share = page.share /\ ready.workspace = page.workspace
        /\ ready.workspaceEdited = page.workspaceEdited
    BY <1>1 DEF Good, Shape
  <2> HIDE DEF ready, plan
  <2>5. Good(ready, {})
    BY <1>1, <2>3, <2>4 DEF Good, Kept, LinksCover, Covered
  <2> QED
    BY <2>1, <2>5, OpensKeeps, CallingCovers
<1> QED
  BY <1>2, <1>3, <1>4, <1>5

LEMMA KeepStoredKeeps ==
    ASSUME Inv, OwnDesigns, Opening!KeepStored
    PROVE  Good(page', calls')
<1> DEFINE kept == IF Opening!Stored(page) = None THEN page.design ELSE Opening!Stored(page)
           q == [page EXCEPT !.gate = "ready", !.link = "none", !.work = @ \cap {kept}]
<1>1. page' = Opening!Opens(Opening!StoredRestored(q)) /\ calls' = calls
  BY DEF Opening!KeepStored
<1>2. Good(page, calls) /\ Shape(page)
  BY DEF Inv, Good
<1>3. /\ Shape(q) /\ q.work = page.work \cap {kept} /\ q.exposed = page.exposed
      /\ q.design = page.design /\ q.draft = page.draft
      /\ q.share = page.share /\ q.workspace = page.workspace
      /\ q.workspaceEdited = page.workspaceEdited
  BY <1>2 DEF Shape
<1>4. kept = IF Opening!Stored(q) = None THEN q.design ELSE Opening!Stored(q)
  BY <1>3 DEF Opening!Stored
<1> HIDE DEF q, kept
<1>5. LinksCover(q, calls)
  BY <1>2, <1>3 DEF Good, LinksCover, Covered
<1>6. Good(Opening!StoredRestored(q), calls)
  <2>1. /\ q.work \subseteq Mine /\ q.draft.project \notin q.work
        /\ q.draft.origin \in {None, Linked} /\ q.draft.public \in {None, Linked}
    BY <1>2, <1>3 DEF Good, Kept
  <2>2. q.work \subseteq {IF Opening!Stored(q) = None THEN q.design ELSE Opening!Stored(q)}
    BY <1>3, <1>4
  <2> QED
    BY <1>3, <1>5, <2>1, <2>2, StoredRestoredKeeps
<1> QED
  BY <1>1, <1>6, OpensKeeps

LEMMA ReplaceStoredKeeps ==
    ASSUME Inv, Opening!ReplaceStored
    PROVE  Good(page', calls')
<1> DEFINE started == page.reason = "started"
           q == [page EXCEPT !.gate = IF started THEN "ready" ELSE "link",
                             !.restored = FALSE,
                             !.work = IF started THEN @ \cap {page.design} ELSE {}]
<1>1. page' = Opening!Opens(q) /\ calls' = Opening!Calling(Opening!Opens(q))
  BY DEF Opening!ReplaceStored
<1>2. Good(page, {})
  BY DEF Inv, Good, LinksCover
<1>3. /\ Shape(q) /\ q.work \subseteq page.work \cap {page.design}
      /\ q.exposed = page.exposed /\ q.design = page.design /\ q.draft = page.draft
      /\ q.share = page.share /\ q.workspace = page.workspace
      /\ q.workspaceEdited = page.workspaceEdited
  BY <1>2 DEF Good, Shape
<1> HIDE DEF q
<1>4. Good(q, {})
  BY <1>2, <1>3 DEF Good, Kept, LinksCover, Covered
<1> QED
  BY <1>1, <1>4, OpensKeeps, CallingCovers

LEMMA EditKeeps ==
    ASSUME Inv, Opening!Edit
    PROVE  Good(page', calls')
<1>1. PICK design \in Mine \ {page.design} :
        page' = Opening!Written([Opening!Dispatched(page, design)
                         EXCEPT !.work = (@ \ {page.design}) \cup ({design} \ {page.draft.project}),
                                !.exposed = @ \ {page.design, design}])
  BY DEF Opening!Edit
<1> DEFINE d == Opening!Dispatched(page, design)
           q == [d EXCEPT !.work = (@ \ {page.design}) \cup ({design} \ {page.draft.project}),
                          !.exposed = @ \ {page.design, design}]
<1>2. Good(page, calls)
  BY DEF Inv
<1>3. /\ Shape(d) /\ d.work = page.work /\ d.design = design /\ d.gate = page.gate
      /\ d.draft = page.draft /\ d.share.edited = TRUE /\ d.workspaceEdited = TRUE
  BY <1>2, DispatchedFields DEF Good
<1> HIDE DEF d
<1>4. /\ Shape(q) /\ q.design = design /\ q.gate = page.gate /\ q.draft = page.draft
      /\ q.work = (page.work \ {page.design}) \cup ({design} \ {page.draft.project})
      /\ q.share = d.share /\ q.workspaceEdited = d.workspaceEdited
  BY <1>3 DEF Shape
<1>5. page' = Opening!Written(q) /\ calls' = calls
  BY <1>1 DEF Opening!Edit, d
<1> HIDE DEF q
<1>6. Kept(q)
  BY <1>2, <1>4 DEF Good, Kept
<1>7. LinksCover(q, calls)
  BY <1>3, <1>4 DEF LinksCover
<1> QED
  BY <1>4, <1>5, <1>6, <1>7, WrittenKeeps DEF Good

LEMMA ConfigurationChangedKeeps ==
    ASSUME Inv, Opening!ConfigurationChanged
    PROVE  Good(page', calls')
<1> DEFINE quiet == [page EXCEPT !.due = FALSE]
           over == Opening!Superseded(quiet)
<1>1. Good(page, calls)
  BY DEF Inv
<1>2. Good(quiet, calls)
  <2>1. /\ Shape(quiet) /\ quiet.work = page.work /\ quiet.exposed = page.exposed
        /\ quiet.design = page.design /\ quiet.gate = page.gate
        /\ quiet.draft = page.draft /\ quiet.share = page.share
        /\ quiet.workspace = page.workspace
        /\ quiet.workspaceEdited = page.workspaceEdited
    BY <1>1 DEF Good, Shape
  <2> HIDE DEF quiet
  <2> QED
    BY <1>1, <2>1, OtherFieldsKeep
<1>3. /\ page' = quiet \/ page' = over
      /\ calls' \subseteq calls
  BY DEF Opening!ConfigurationChanged
<1> HIDE DEF quiet
<1>4. Good(over, calls)
  <2>1. /\ Shape(over) /\ over.work = quiet.work /\ over.exposed = quiet.exposed
        /\ over.design = quiet.design /\ over.gate = quiet.gate
        /\ over.draft = quiet.draft /\ over.share.phase = "superseded"
        /\ over.share.pending = FALSE /\ over.share.edited = quiet.share.edited
        /\ over.workspace = quiet.workspace
        /\ over.workspaceEdited = quiet.workspaceEdited
    BY <1>2 DEF Good, Shape, Opening!Superseded
  <2> HIDE DEF over
  <2> QED
    BY <1>2, <2>1 DEF Good, Kept, LinksCover, Covered
<1> HIDE DEF over
<1> QED
  BY <1>2, <1>3, <1>4 DEF Good, LinksCover

LEMMA CatalogueAnswersKeeps ==
    ASSUME Inv, OwnDesigns, Opening!CatalogueAnswers
    PROVE  Good(page', calls')
<1>1. PICK catalogue \in Opening!Catalogues :
        LET known == [page EXCEPT !.catalogue = catalogue]
        IN  (page' = Opening!Reconciled(known) \/ page' = known) /\ calls' = calls
  BY DEF Opening!CatalogueAnswers
<1> DEFINE known == [page EXCEPT !.catalogue = catalogue]
<1>2. /\ Shape(known) /\ known.work = page.work /\ known.exposed = page.exposed
      /\ known.design = page.design /\ known.gate = page.gate
      /\ known.draft = page.draft /\ known.share = page.share
      /\ known.workspace = page.workspace
      /\ known.workspaceEdited = page.workspaceEdited
  BY DEF Inv, Good, Shape
<1>3. (page' = Opening!Reconciled(known) \/ page' = known) /\ calls' = calls
  BY <1>1
<1> HIDE DEF known
<1>4. Good(known, calls)
  BY <1>2, OtherFieldsKeep DEF Inv
<1> QED
  BY <1>3, <1>4, ReconciledKeeps

LEMMA DesignAnswersKeeps ==
    ASSUME Inv, OwnDesigns, Opening!DesignAnswers
    PROVE  Good(page', calls')
<1> DEFINE found == [page EXCEPT !.share.pending = TRUE]
<1>1. Good(page, calls) /\ calls # {} /\ calls' = {}
  BY DEF Inv, Opening!DesignAnswers
<1>2. CASE page' = Opening!Reconciled(found)
  <2>1. /\ Shape(found) /\ found.work = page.work /\ found.exposed = page.exposed
        /\ found.design = page.design /\ found.gate = page.gate
        /\ found.draft = page.draft /\ found.share.edited = page.share.edited
        /\ found.workspace = page.workspace
        /\ found.workspaceEdited = page.workspaceEdited
    BY <1>1 DEF Good, Shape
  <2> HIDE DEF found
  <2>2. Good(found, {})
    BY <1>1, <2>1 DEF Good, Kept, LinksCover, Covered
  <2> QED
    BY <1>1, <1>2, <2>2, ReconciledKeeps
<1>3. CASE \E phase \in {"not-found", "malformed-response", "error"} :
             page' = [page EXCEPT !.share.phase = phase]
  <2>1. PICK phase \in {"not-found", "malformed-response", "error"} :
             page' = [page EXCEPT !.share.phase = phase]
    BY <1>3
  <2> DEFINE q == [page EXCEPT !.share.phase = phase]
  <2>2. /\ Shape(q) /\ q.work = page.work /\ q.exposed = page.exposed
        /\ q.design = page.design /\ q.gate = page.gate /\ q.draft = page.draft
        /\ q.share.edited = page.share.edited /\ q.share.pending = page.share.pending
        /\ q.share.phase # "loading"
        /\ q.workspace = page.workspace /\ q.workspaceEdited = page.workspaceEdited
    BY <1>1 DEF Good, Shape
  <2>3. page' = q
    BY <2>1
  <2> HIDE DEF q
  <2>4. Good(q, {})
    BY <1>1, <2>2 DEF Good, Kept, LinksCover, Covered
  <2> QED
    BY <1>1, <2>3, <2>4
<1> QED
  BY <1>2, <1>3 DEF Opening!DesignAnswers

LEMMA RetryKeeps ==
    ASSUME Inv, Opening!Retry
    PROVE  Good(page', calls')
BY ShareLoadKeeps, CoveredIsEnough DEF Inv, Good, Opening!Retry

LEMMA WorkspaceEndsKeeps ==
    ASSUME Inv, OwnDesigns, Opening!WorkspaceAnswers \/ Opening!WorkspaceFails
    PROVE  Good(page', calls')
<1> DEFINE failed == [page EXCEPT !.workspace = Opening!LoadFailed(@, FALSE)]
           found == Opening!LinkRestored(page, page.link)
           shown == [found EXCEPT !.workspace = Opening!Loaded(@, page.link)]
<1>1. Good(page, calls) /\ calls' = calls
  BY DEF Inv, Opening!WorkspaceAnswers, Opening!WorkspaceFails
<1>2. CASE page' = failed
  <2>1. /\ Shape(failed) /\ failed.work = page.work /\ failed.exposed = page.exposed
        /\ failed.design = page.design /\ failed.gate = page.gate
        /\ failed.draft = page.draft /\ failed.share = page.share
        /\ failed.workspace.load = None
    BY <1>1 DEF Good, Shape, Opening!LoadFailed
  <2> HIDE DEF failed
  <2>2. Good(failed, calls)
    BY <1>1, <2>1 DEF Good, Kept, LinksCover, Covered, OwnDesigns
  <2> QED
    BY <1>1, <1>2, <2>2
<1>3. CASE page' = shown /\ page.workspace.load = Asked /\ ~page.workspaceEdited
  <2>1. Covered(page)
    BY <1>1, <1>3 DEF Good, LinksCover
  <2>2. Shape(found) /\ Kept(found) /\ Covered(found)
    BY <1>1, <2>1, LinkRestoredKeeps DEF Good
  <2> HIDE DEF found
  <2>3. /\ Shape(shown) /\ shown.work = found.work /\ shown.exposed = found.exposed
        /\ shown.design = found.design /\ shown.gate = found.gate
        /\ shown.draft = found.draft
    BY <2>2 DEF Shape, Opening!Loaded
  <2> HIDE DEF shown
  <2>4. Kept(shown) /\ Covered(shown)
    BY <2>2, <2>3 DEF Kept, Covered
  <2> QED
    BY <1>1, <1>3, <2>3, <2>4, CoveredIsEnough DEF Good
<1> QED
  BY <1>2, <1>3 DEF Opening!WorkspaceAnswers, Opening!WorkspaceFails

LEMMA WorkspaceRetryKeeps ==
    ASSUME Inv, Opening!WorkspaceRetry
    PROVE  Good(page', calls')
<1> DEFINE e == Opening!Exposing(page)
           q == [e EXCEPT !.workspace = Opening!Reloaded(@, Opening!Key(page), FALSE),
                          !.workspaceEdited = FALSE]
<1>1. Shape(e) /\ Kept(e) /\ Covered(e)
  BY ExposingCovers DEF Inv, Good
<1>2. page' = q /\ calls' = calls
  BY DEF Opening!WorkspaceRetry
<1> HIDE DEF e
<1>3. /\ Shape(q) /\ q.work = e.work /\ q.exposed = e.exposed
      /\ q.design = e.design /\ q.gate = e.gate /\ q.draft = e.draft
  BY <1>1 DEF Shape, Opening!Reloaded
<1> HIDE DEF q
<1>4. Kept(q) /\ Covered(q)
  BY <1>1, <1>3 DEF Kept, Covered
<1> QED
  BY <1>2, <1>3, <1>4, CoveredIsEnough DEF Good

LEMMA DismissKeeps ==
    ASSUME Inv, OwnDesigns, Opening!Dismiss
    PROVE  Good(page', calls')
<1> DEFINE left == [page EXCEPT !.link = "none", !.share = Opening!IdleShare]
           back == IF page.design = Blank THEN Opening!StoredRestored(left) ELSE left
<1>1. page' = Opening!Render(Opening!Written(back)) /\ calls' = {}
  BY DEF Opening!Dismiss
<1>2. Good(page, calls) /\ page.gate \notin Undecided
  BY DEF Inv, Opening!Dismiss, Opening!Listening, Undecided
<1>3. /\ Shape(left) /\ left.work = page.work /\ left.exposed = page.exposed
      /\ left.design = page.design /\ left.gate = page.gate /\ left.draft = page.draft
      /\ left.share = Opening!IdleShare
      /\ left.workspace = page.workspace /\ left.workspaceEdited = page.workspaceEdited
  BY <1>2 DEF Good, Shape, Opening!IdleShare
<1> HIDE DEF left
<1>4. Good(left, {})
  BY <1>2, <1>3 DEF Good, Kept, LinksCover, Covered, Opening!IdleShare
<1>5. Good(back, {})
  <2>1. CASE page.design = Blank
    <3>1. left.work = {}
      BY <1>2, <1>3, <2>1 DEF Good, Kept, OwnDesigns
    <3>2. Good(Opening!StoredRestored(left), {})
      BY <1>4, <3>1, StoredRestoredKeeps DEF Good, Kept
    <3> QED
      BY <2>1, <3>2
  <2> QED
    BY <1>4, <2>1
<1> HIDE DEF back
<1>6. Good(Opening!Written(back), {})
  BY <1>5, WrittenKeeps DEF Good
<1> QED
  BY <1>1, <1>6, RenderKeeps

LEMMA ClearedKeeps ==
    ASSUME NEW p, NEW c, Good(p, c)
    PROVE  \A r : LET q == [Opening!Dispatched([p EXCEPT !.draft = Opening!NoDraft], Blank)
                            EXCEPT !.restored = r, !.work = {}]
                  IN  Good(q, c)
<1> TAKE r
<1> DEFINE bare == [p EXCEPT !.draft = Opening!NoDraft]
           d == Opening!Dispatched(bare, Blank)
           q == [d EXCEPT !.restored = r, !.work = {}]
<1>1. Shape(bare) /\ bare.draft = Opening!NoDraft
  BY DEF Good, Shape, Opening!NoDraft
<1> HIDE DEF bare
<1>2. /\ Shape(d) /\ d.draft = Opening!NoDraft /\ d.share.edited = TRUE
      /\ d.workspaceEdited = TRUE
  BY <1>1, DispatchedFields
<1> HIDE DEF d
<1>3. /\ Shape(q) /\ q.work = {} /\ q.draft = Opening!NoDraft /\ q.share = d.share
      /\ q.workspaceEdited = d.workspaceEdited
  BY <1>2 DEF Shape
<1> HIDE DEF q
<1>4. Kept(q) /\ Covered(q)
  BY <1>3 DEF Kept, Covered, Opening!NoDraft
<1>5. Good(q, c)
  BY <1>3, <1>4, CoveredIsEnough DEF Good
<1> QED
  BY <1>5 DEF q, d, bare

LEMMA StartOverKeeps ==
    ASSUME Inv, Opening!StartOver
    PROVE  Good(page', calls')
<1>1. /\ page' = [Opening!Dispatched([page EXCEPT !.draft = Opening!NoDraft], Blank)
                  EXCEPT !.restored = FALSE, !.work = {}]
      /\ calls' = calls
  BY DEF Opening!StartOver
<1> QED
  BY <1>1, ClearedKeeps DEF Inv

LEMMA DraftSavedKeeps ==
    ASSUME Inv, Opening!Saved
    PROVE  Good(page', calls')
<1> DEFINE q == [page EXCEPT !.draft.project = page.design, !.work = @ \ {page.design}]
<1>1. Good(page, calls)
  BY DEF Inv
<1>2. page' = q /\ calls' = calls
  BY DEF Opening!Saved
<1>3. /\ Shape(q) /\ q.work = page.work \ {page.design} /\ q.exposed = page.exposed
      /\ q.design = page.design /\ q.gate = page.gate
      /\ q.draft.design = page.draft.design /\ q.draft.project = page.design
      /\ q.draft.origin = page.draft.origin /\ q.draft.public = page.draft.public
      /\ q.share = page.share /\ q.workspace = page.workspace
      /\ q.workspaceEdited = page.workspaceEdited
  BY <1>1 DEF Good, Shape
<1> HIDE DEF q
<1>4. Kept(q)
  BY <1>1, <1>3 DEF Good, Kept
<1>5. LinksCover(q, calls)
  BY <1>1, <1>3 DEF Good, LinksCover, Covered
<1> QED
  BY <1>2, <1>3, <1>4, <1>5 DEF Good

LEMMA AuthKeeps ==
    ASSUME Inv, NEW auth
    PROVE  LET q == [page EXCEPT !.auth = auth]
           IN  Good(q, calls) /\ q.draft = page.draft
<1> DEFINE q == [page EXCEPT !.auth = auth]
<1>1. /\ Shape(q) /\ q.work = page.work /\ q.exposed = page.exposed
      /\ q.design = page.design /\ q.gate = page.gate /\ q.draft = page.draft
      /\ q.share = page.share /\ q.workspace = page.workspace
      /\ q.workspaceEdited = page.workspaceEdited
  BY DEF Inv, Good, Shape
<1> HIDE DEF q
<1>2. Good(q, calls)
  BY <1>1, OtherFieldsKeep DEF Inv
<1> QED
  BY <1>1, <1>2 DEF q

LEMMA SessionStepsKeep ==
    ASSUME Inv, Opening!SessionChecked \/ Opening!SignIn \/ Opening!SignOut
    PROVE  Good(page', calls')
<1>1. CASE Opening!SessionChecked \/ Opening!SignIn
  <2>1. PICK auth : page' = Opening!Render([page EXCEPT !.auth = auth]) /\ calls' = calls
    BY <1>1 DEF Opening!SessionChecked, Opening!SignIn
  <2> QED
    BY <2>1, AuthKeeps, RenderKeeps
<1>2. CASE Opening!SignOut
  <2> DEFINE out == [page EXCEPT !.auth = "out"]
             bare == [out EXCEPT !.draft = Opening!NoDraft]
             d == Opening!Dispatched(bare, Blank)
             gone == [d EXCEPT !.work = {}]
  <2>1. /\ page' = Opening!Render(out) \/ page' = Opening!Render(gone)
        /\ calls' = calls
    BY <1>2 DEF Opening!SignOut
  <2>2. Good(out, calls)
    BY AuthKeeps
  <2> HIDE DEF out
  <2>3. Shape(bare) /\ bare.draft = Opening!NoDraft
    BY <2>2 DEF Good, Shape, Opening!NoDraft
  <2> HIDE DEF bare
  <2>4. Shape(d) /\ d.draft = Opening!NoDraft
    BY <2>3, DispatchedFields
  <2> HIDE DEF d
  <2>5. Shape(gone) /\ gone.work = {} /\ gone.draft = Opening!NoDraft
    BY <2>4 DEF Shape
  <2> HIDE DEF gone
  <2>6. Kept(gone) /\ Covered(gone)
    BY <2>5 DEF Kept, Covered, Opening!NoDraft
  <2>7. Good(gone, calls)
    BY <2>5, <2>6, CoveredIsEnough DEF Good
  <2> QED
    BY <2>1, <2>2, <2>7, RenderKeeps
<1> QED
  BY <1>1, <1>2

LEMMA ReloadKeeps ==
    ASSUME Inv, OwnDesigns, Opening!Reload
    PROVE  Good(page', calls')
<1> DEFINE f == Opening!Fresh(page.draft, page.link, "initializing", "loading")
           q == [f EXCEPT !.work = page.work \cap {Opening!Stored(page)}]
<1>1. Good(page, calls)
  BY DEF Inv
<1>2. page' = q /\ calls' = {}
  BY DEF Opening!Reload
<1>3. /\ Shape(f) /\ f.gate = "checking" /\ f.draft = page.draft
      /\ f.share = Opening!IdleShare /\ f.workspace.load = None
  BY <1>1 DEF Opening!Fresh, Good, Shape, Opening!IdleShare, Opening!EmptyResource
<1> HIDE DEF f
<1>4. /\ Shape(q) /\ q.work = page.work \cap {page.draft.design}
      /\ q.gate = "checking" /\ q.draft = page.draft
      /\ q.share = Opening!IdleShare /\ q.workspace.load = None
  BY <1>3 DEF Shape, Opening!Stored
<1> HIDE DEF q
<1>5. Kept(q)
  BY <1>1, <1>4 DEF Good, Kept, Undecided
<1>6. LinksCover(q, {})
  BY <1>4 DEF LinksCover, Opening!IdleShare, OwnDesigns
<1> QED
  BY <1>2, <1>4, <1>5, <1>6 DEF Good

-----------------------------------------------------------------------------
LEMMA InitIsGood == ASSUME Opening!Init, OwnDesigns PROVE Inv
<1>1. PICK link \in Opening!Links, draft \in {None} \cup Mine :
        page = [Opening!Fresh([Opening!NoDraft EXCEPT !.design = draft], link, "initializing", "loading")
                EXCEPT !.work = {draft} \ {None}]
  BY DEF Opening!Init
<1> DEFINE back == [Opening!NoDraft EXCEPT !.design = draft]
           f == Opening!Fresh(back, link, "initializing", "loading")
<1>2. /\ DOMAIN back = {"design", "origin", "project", "public"}
      /\ back.design = draft /\ back.origin = None /\ back.project = None
      /\ back.public = None
  BY DEF Opening!NoDraft
<1> HIDE DEF back
<1>3. /\ Shape(f) /\ f.gate = "checking" /\ f.draft = back
      /\ f.share = Opening!IdleShare /\ f.workspace.load = None
  BY <1>2 DEF Opening!Fresh, Shape, Opening!IdleShare, Opening!EmptyResource
<1> HIDE DEF f
<1>4. page = [f EXCEPT !.work = {draft} \ {None}]
  BY <1>1 DEF f, back
<1>5. /\ Shape(page) /\ page.work = {draft} \ {None} /\ page.gate = "checking"
      /\ page.draft = back /\ page.share = Opening!IdleShare /\ page.workspace.load = None
  BY <1>3, <1>4 DEF Shape
<1>6. Kept(page)
  BY <1>2, <1>5 DEF Kept, Undecided
<1>7. LinksCover(page, calls)
  BY <1>5 DEF LinksCover, Opening!IdleShare, OwnDesigns, Opening!Init
<1> QED
  BY <1>5, <1>6, <1>7 DEF Inv, Good

LEMMA StepKeeps ==
    ASSUME Inv, OwnDesigns, Opening!Next \/ UNCHANGED Opening!vars PROVE Inv'
<1>1. Good(page', calls')
  <2>1. CASE UNCHANGED Opening!vars
    BY <2>1 DEF Inv, Opening!vars
  <2> QED
    BY <2>1, ArriveKeeps, KeepStoredKeeps, ReplaceStoredKeeps, EditKeeps,
       ConfigurationChangedKeeps, CatalogueAnswersKeeps, DesignAnswersKeeps,
       RetryKeeps, WorkspaceEndsKeeps, WorkspaceRetryKeeps, DismissKeeps,
       StartOverKeeps, DraftSavedKeeps, SessionStepsKeep, ReloadKeeps DEF Opening!Next
<1> QED
  BY <1>1 DEF Inv, Good, Shape, Kept, LinksCover, Covered

\* Whatever the order of edits, answers, sign-ins and reloads, a link that loads
\* late never replaces a design the visitor made meanwhile
\* (shared-design.ts 353, workspace-configuration-loader.tsx 213).
THEOREM EditsSurvive == Spec => []NewerEditKept
<1> DEFINE I == part = "opening" => Inv
<1>1. OwnDesigns
  BY VisitAssumption DEF OwnDesigns
<1>2. Init => I
  BY <1>1, InitIsGood DEF Init
<1>3. I /\ [Next]_vars => I'
  <2>1. I /\ UNCHANGED vars => I'
    BY <1>1, StepKeeps DEF vars, visit, Opening!vars
  <2>2. I /\ Next => I'
    BY <1>1, StepKeeps DEF Next
  <2> QED
    BY <2>1, <2>2
<1>4. I => NewerEditKept
  BY DEF Inv, Good, Kept, NewerEditKept, Opening!NewerEditKept
<1> QED
  BY <1>2, <1>3, <1>4, PTL DEF Spec

-----------------------------------------------------------------------------
(* The types of an arrival. *)

Phases == {"idle", "malformed-id", "loading", "waiting-patterns", "restored",
           "superseded", "not-found", "malformed-response", "error",
           "catalogue-error", "pattern-unavailable"}
OpeningDesigns == Opening!Designs \cup {Blank}
OpeningKeys == {None, "share", "version"}
OpeningDrafts == [design : Opening!Designs \cup {None}, origin : Opening!Designs \cup {None},
           project : Opening!Designs \cup {None}, public : Opening!Designs \cup {None}]
OpeningWorkspaces ==
    [deps : OpeningKeys, load : {None, Asked}, settled : OpeningKeys, data : Opening!Links \cup {None},
     error : BOOLEAN, fresh : BOOLEAN, background : BOOLEAN]
OpeningPages ==
    [design : OpeningDesigns, gate : {"checking", "confirm", "link", "ready"},
     reason : Opening!Links \cup {"started"}, restored : BOOLEAN, due : BOOLEAN,
     draft : OpeningDrafts, link : Opening!Links, auth : {"initializing", "guest", "in", "out"},
     catalogue : Opening!Catalogues,
     share : [phase : Phases, edited : BOOLEAN, pending : BOOLEAN],
     workspace : OpeningWorkspaces, workspaceEdited : BOOLEAN,
     work : SUBSET Mine, exposed : SUBSET Mine, lost : SUBSET Mine]
OpeningTyped == page \in OpeningPages /\ calls \subseteq {"design"}

LEMMA WrittenTyped == ASSUME NEW p \in OpeningPages PROVE Opening!Written(p) \in OpeningPages
BY DEF OpeningPages, OpeningDrafts, OpeningDesigns, Opening!Written

LEMMA DispatchedTyped ==
    ASSUME NEW p \in OpeningPages, NEW design \in OpeningDesigns
    PROVE  Opening!Dispatched(p, design) \in OpeningPages
BY DEF OpeningPages, Opening!Dispatched

LEMMA ExposingTyped == ASSUME NEW p \in OpeningPages PROVE Opening!Exposing(p) \in OpeningPages
BY DEF OpeningPages, Opening!Exposing

LEMMA StoredRestoredTyped ==
    ASSUME NEW p \in OpeningPages
    PROVE  Opening!StoredRestored(p) \in OpeningPages
<1> DEFINE d == Opening!Dispatched(p, Opening!Stored(p))
<1>1. ASSUME Opening!Stored(p) # None PROVE d \in OpeningPages
  <2>1. Opening!Stored(p) \in OpeningDesigns
    BY <1>1 DEF OpeningPages, OpeningDrafts, OpeningDesigns, Opening!Stored
  <2> QED
    BY <2>1, DispatchedTyped
<1> HIDE DEF d
<1>2. d \in OpeningPages => [d EXCEPT !.gate = "ready", !.restored = TRUE] \in OpeningPages
  BY DEF OpeningPages
<1> QED
  BY <1>1, <1>2 DEF Opening!StoredRestored, d

LEMMA ShareLoadTyped ==
    ASSUME NEW p \in OpeningPages
    PROVE  Opening!ShareLoad(p) \in OpeningPages
BY ExposingTyped DEF OpeningPages, Phases, Opening!ShareLoad

LEMMA RekeyedTyped ==
    ASSUME NEW r \in OpeningWorkspaces, NEW key \in OpeningKeys
    PROVE  Opening!Rekeyed(r, key) \in OpeningWorkspaces
BY DEF OpeningWorkspaces, Opening!Rekeyed

LEMMA KeyTyped == ASSUME NEW p PROVE Opening!Key(p) \in OpeningKeys
BY DEF OpeningKeys, Opening!Key

LEMMA RenderTyped == ASSUME NEW p \in OpeningPages PROVE Opening!Render(p) \in OpeningPages
<1>1. Opening!Rekeyed(p.workspace, Opening!Key(p)) \in OpeningWorkspaces
  BY RekeyedTyped, KeyTyped DEF OpeningPages
<1> DEFINE asked == Opening!Rekeyed(p.workspace, Opening!Key(p))
           e == Opening!Exposing(p)
<1>2. e \in OpeningPages
  BY ExposingTyped
<1>3. Opening!Render(p) = p
      \/ Opening!Render(p) = [e EXCEPT !.workspace = asked, !.workspaceEdited = FALSE]
  BY DEF Opening!Render
<1> HIDE DEF asked, e
<1>4. asked \in OpeningWorkspaces
  BY <1>1 DEF asked
<1>5. [e EXCEPT !.workspace = asked, !.workspaceEdited = FALSE] \in OpeningPages
  BY <1>2, <1>4 DEF OpeningPages
<1> QED
  BY <1>3, <1>5

LEMMA OpensTyped == ASSUME NEW p \in OpeningPages PROVE Opening!Opens(p) \in OpeningPages
<1>1. [p EXCEPT !.share.phase = "malformed-id"] \in OpeningPages
  BY DEF OpeningPages, Phases
<1> QED
  BY <1>1, WrittenTyped, ShareLoadTyped, RenderTyped DEF Opening!Opens

LEMMA LinkRestoredTyped ==
    ASSUME NEW p \in OpeningPages, NEW ref PROVE Opening!LinkRestored(p, ref) \in OpeningPages
<1>1. Opening!RecordLinkRestore(p, ref) \in OpeningPages
  <2> DEFINE draft == [design |-> Linked, origin |-> Linked,
                       project |-> IF ref = "version" THEN Linked ELSE None,
                       public |-> IF ref = "design" THEN Linked ELSE None]
  <2>1. draft \in OpeningDrafts
    BY DEF OpeningDrafts, Opening!Designs
  <2> HIDE DEF draft
  <2>2. [p EXCEPT !.draft = draft] \in OpeningPages
    BY <2>1 DEF OpeningPages
  <2> QED
    BY <2>2 DEF Opening!RecordLinkRestore, draft
<1>2. Linked \in OpeningDesigns
  BY DEF OpeningDesigns, Opening!Designs
<1>3. Opening!Written(Opening!Dispatched(Opening!RecordLinkRestore(p, ref), Linked)) \in OpeningPages
  BY <1>1, <1>2, WrittenTyped, DispatchedTyped
<1> QED
  BY <1>3 DEF OpeningPages, Opening!LinkRestored

LEMMA ReconciledTyped ==
    ASSUME NEW p \in OpeningPages
    PROVE  Opening!Reconciled(p) \in OpeningPages
<1> DEFINE found == Opening!LinkRestored(p, "design")
<1>1. Opening!Superseded(p) \in OpeningPages
  BY DEF OpeningPages, Phases, Opening!Superseded
<1>2. found \in OpeningPages
  BY LinkRestoredTyped
<1> HIDE DEF found
<1>3. [found EXCEPT !.share.phase = "restored", !.share.pending = FALSE] \in OpeningPages
  BY <1>2 DEF OpeningPages, Phases
<1>4. \A phase \in Phases : [p EXCEPT !.share.phase = phase] \in OpeningPages
  BY DEF OpeningPages
<1> QED
  BY <1>1, <1>3, <1>4 DEF Opening!Reconciled, Phases, found

LEMMA CallingTyped == ASSUME NEW p PROVE Opening!Calling(p) \subseteq {"design"}
BY DEF Opening!Calling

LEMMA ArriveTyped == ASSUME OpeningTyped, Opening!Arrive PROVE OpeningTyped'
<1>1. Opening!PlanArrival(page)[2] \in Opening!Links \cup {"started", "none"}
  BY DEF OpeningTyped, OpeningPages, Opening!PlanArrival, Opening!Links, Opening!Ref
<1>2. /\ \A reason \in Opening!Links \cup {"started"} :
            [page EXCEPT !.gate = "confirm", !.reason = reason] \in OpeningPages
      /\ [page EXCEPT !.gate = "link"] \in OpeningPages
      /\ [page EXCEPT !.gate = "ready"] \in OpeningPages
  BY DEF OpeningTyped, OpeningPages
<1>3. "none" \in Opening!Links
  BY DEF Opening!Links
<1> QED
  BY <1>1, <1>2, <1>3, OpensTyped, StoredRestoredTyped, CallingTyped
  DEF Opening!Arrive, OpeningTyped

LEMMA ChoiceTyped ==
    ASSUME OpeningTyped, Opening!KeepStored \/ Opening!ReplaceStored
    PROVE  OpeningTyped'
<1>1. /\ \A kept : [page EXCEPT !.gate = "ready", !.link = "none", !.work = @ \cap {kept}] \in OpeningPages
      /\ \A gate \in {"ready", "link"}, work \in SUBSET page.work :
           [page EXCEPT !.gate = gate, !.restored = FALSE, !.work = work] \in OpeningPages
  BY DEF OpeningTyped, OpeningPages, Opening!Links
<1>2. CASE Opening!KeepStored
  BY <1>1, <1>2, OpensTyped, StoredRestoredTyped DEF Opening!KeepStored, OpeningTyped
<1>3. CASE Opening!ReplaceStored
  <2> DEFINE started == page.reason = "started"
             gate == IF started THEN "ready" ELSE "link"
             work == IF started THEN page.work \cap {page.design} ELSE {}
             q == [page EXCEPT !.gate = gate, !.restored = FALSE, !.work = work]
  <2>1. page' = Opening!Opens(q) /\ calls' = Opening!Calling(Opening!Opens(q))
    BY <1>3 DEF Opening!ReplaceStored
  <2>2. q \in OpeningPages
    BY <1>1
  <2> HIDE DEF q
  <2> QED
    BY <2>1, <2>2, OpensTyped, CallingTyped DEF OpeningTyped
<1> QED
  BY <1>2, <1>3

LEMMA EditTyped == ASSUME OpeningTyped, Opening!Edit PROVE OpeningTyped'
<1>1. PICK design \in Mine :
        page' = Opening!Written([Opening!Dispatched(page, design)
                         EXCEPT !.work = (@ \ {page.design}) \cup ({design} \ {page.draft.project}),
                                !.exposed = @ \ {page.design, design}])
  BY DEF Opening!Edit
<1> DEFINE d == Opening!Dispatched(page, design)
<1>2. d \in OpeningPages
  BY DispatchedTyped DEF OpeningTyped, OpeningDesigns, Opening!Designs
<1> HIDE DEF d
<1>3. [d EXCEPT !.work = (@ \ {page.design}) \cup ({design} \ {page.draft.project}),
                !.exposed = @ \ {page.design, design}] \in OpeningPages
  BY <1>2 DEF OpeningPages
<1> QED
  BY <1>1, <1>3, WrittenTyped DEF OpeningTyped, Opening!Edit, d

LEMMA ChangedTyped == ASSUME OpeningTyped, Opening!ConfigurationChanged PROVE OpeningTyped'
<1> DEFINE quiet == [page EXCEPT !.due = FALSE]
<1>1. quiet \in OpeningPages
  BY DEF OpeningTyped, OpeningPages
<1>2. (page' = quiet \/ page' = Opening!Superseded(quiet)) /\ calls' \subseteq calls
  BY DEF Opening!ConfigurationChanged
<1> HIDE DEF quiet
<1>3. Opening!Superseded(quiet) \in OpeningPages
  BY <1>1 DEF OpeningPages, Phases, Opening!Superseded
<1> QED
  BY <1>1, <1>2, <1>3 DEF OpeningTyped

LEMMA OpeningAnswersTyped ==
    ASSUME OpeningTyped, Opening!CatalogueAnswers \/ Opening!DesignAnswers \/ Opening!Retry
    PROVE  OpeningTyped'
<1>1. /\ \A catalogue \in Opening!Catalogues : [page EXCEPT !.catalogue = catalogue] \in OpeningPages
      /\ [page EXCEPT !.share.pending = TRUE] \in OpeningPages
      /\ \A phase \in Phases : [page EXCEPT !.share.phase = phase] \in OpeningPages
  BY DEF OpeningTyped, OpeningPages
<1>2. CASE Opening!CatalogueAnswers
  BY <1>1, <1>2, ReconciledTyped DEF Opening!CatalogueAnswers, OpeningTyped
<1>3. CASE Opening!DesignAnswers
  BY <1>1, <1>3, ReconciledTyped DEF Opening!DesignAnswers, OpeningTyped, Phases
<1>4. CASE Opening!Retry
  BY <1>4, ShareLoadTyped DEF Opening!Retry, OpeningTyped
<1> QED
  BY <1>2, <1>3, <1>4

LEMMA WorkspaceTyped ==
    ASSUME OpeningTyped, Opening!WorkspaceAnswers \/ Opening!WorkspaceFails \/ Opening!WorkspaceRetry
    PROVE  OpeningTyped'
<1>1. \A p \in OpeningPages : [p EXCEPT !.workspace = Opening!LoadFailed(@, FALSE)] \in OpeningPages
  <2>1. \A r \in OpeningWorkspaces : Opening!LoadFailed(r, FALSE) \in OpeningWorkspaces
    BY DEF OpeningWorkspaces, Opening!LoadFailed
  <2> QED
    BY <2>1 DEF OpeningPages
<1>2. \A p \in OpeningPages : [p EXCEPT !.workspace = Opening!Loaded(@, page.link)] \in OpeningPages
  <2>1. \A r \in OpeningWorkspaces : Opening!Loaded(r, page.link) \in OpeningWorkspaces
    BY DEF OpeningWorkspaces, Opening!Loaded, OpeningTyped, OpeningPages
  <2> QED
    BY <2>1 DEF OpeningPages
<1>3. \A p \in OpeningPages :
        [p EXCEPT !.workspace = Opening!Reloaded(@, Opening!Key(page), FALSE),
                  !.workspaceEdited = FALSE] \in OpeningPages
  <2>1. \A r \in OpeningWorkspaces : Opening!Reloaded(r, Opening!Key(page), FALSE) \in OpeningWorkspaces
    BY DEF OpeningWorkspaces, Opening!Reloaded
  <2> QED
    BY <2>1 DEF OpeningPages
<1>4. page \in OpeningPages
  BY DEF OpeningTyped
<1>5. CASE Opening!WorkspaceAnswers
  BY <1>1, <1>2, <1>4, <1>5, LinkRestoredTyped DEF Opening!WorkspaceAnswers, OpeningTyped
<1>6. CASE Opening!WorkspaceFails
  BY <1>1, <1>4, <1>6 DEF Opening!WorkspaceFails, OpeningTyped
<1>7. CASE Opening!WorkspaceRetry
  BY <1>3, <1>4, <1>7, ExposingTyped DEF Opening!WorkspaceRetry, OpeningTyped
<1> QED
  BY <1>5, <1>6, <1>7

LEMMA NoDraftTyped == Opening!NoDraft \in OpeningDrafts
BY DEF Opening!NoDraft, OpeningDrafts

LEMMA ClearedTyped ==
    ASSUME NEW p \in OpeningPages
    PROVE  LET d == Opening!Dispatched([p EXCEPT !.draft = Opening!NoDraft], Blank)
           IN  /\ [d EXCEPT !.restored = FALSE, !.work = {}] \in OpeningPages
               /\ [d EXCEPT !.work = {}] \in OpeningPages
<1> DEFINE d == Opening!Dispatched([p EXCEPT !.draft = Opening!NoDraft], Blank)
<1>1. [p EXCEPT !.draft = Opening!NoDraft] \in OpeningPages
  BY NoDraftTyped DEF OpeningPages
<1>2. d \in OpeningPages
  BY <1>1, DispatchedTyped DEF OpeningDesigns
<1> HIDE DEF d
<1>3. /\ [d EXCEPT !.restored = FALSE, !.work = {}] \in OpeningPages
      /\ [d EXCEPT !.work = {}] \in OpeningPages
  BY <1>2 DEF OpeningPages
<1> QED
  BY <1>3 DEF d

LEMMA DismissTyped == ASSUME OpeningTyped, Opening!Dismiss PROVE OpeningTyped'
<1> DEFINE left == [page EXCEPT !.link = "none", !.share = Opening!IdleShare]
<1>1. left \in OpeningPages
  BY DEF OpeningTyped, OpeningPages, Opening!IdleShare, Phases, Opening!Links
<1>2. \/ page' = Opening!Render(Opening!Written(Opening!StoredRestored(left)))
      \/ page' = Opening!Render(Opening!Written(left))
  BY DEF Opening!Dismiss
<1> HIDE DEF left
<1> QED
  BY <1>1, <1>2, StoredRestoredTyped, WrittenTyped, RenderTyped
  DEF OpeningTyped, Opening!Dismiss

LEMMA OpeningVisitorTyped ==
    ASSUME OpeningTyped, \/ Opening!StartOver \/ Opening!Saved \/ Opening!SessionChecked
                  \/ Opening!SignIn \/ Opening!SignOut
    PROVE  OpeningTyped'
<1>1. /\ page \in OpeningPages
      /\ \A auth \in {"guest", "in", "out"} : [page EXCEPT !.auth = auth] \in OpeningPages
  BY DEF OpeningTyped, OpeningPages
<1>2. CASE Opening!StartOver
  BY <1>1, <1>2, ClearedTyped DEF Opening!StartOver, OpeningTyped
<1>3. CASE Opening!Saved
  <2>1. [page.draft EXCEPT !.project = page.design] \in OpeningDrafts
    BY <1>1, <1>3 DEF Opening!Saved, OpeningPages, OpeningDrafts
  <2>2. [page EXCEPT !.draft.project = page.design, !.work = @ \ {page.design}] \in OpeningPages
    BY <1>1, <2>1 DEF OpeningPages
  <2> QED
    BY <1>3, <2>2 DEF Opening!Saved, OpeningTyped
<1>4. CASE Opening!SessionChecked \/ Opening!SignIn
  BY <1>1, <1>4, RenderTyped DEF Opening!SessionChecked, Opening!SignIn, OpeningTyped
<1>5. CASE Opening!SignOut
  <2> DEFINE out == [page EXCEPT !.auth = "out"]
  <2>1. \/ page' = Opening!Render(out)
        \/ page' = Opening!Render([Opening!Dispatched([out EXCEPT !.draft = Opening!NoDraft], Blank)
                                   EXCEPT !.work = {}])
    BY <1>5 DEF Opening!SignOut
  <2>2. out \in OpeningPages
    BY <1>1
  <2> HIDE DEF out
  <2> QED
    BY <2>1, <2>2, <1>5, ClearedTyped, RenderTyped DEF OpeningTyped, Opening!SignOut
<1> QED
  BY <1>2, <1>3, <1>4, <1>5

LEMMA FreshTyped ==
    ASSUME NEW draft \in OpeningDrafts, NEW link \in Opening!Links, NEW work \in SUBSET Mine
    PROVE  [Opening!Fresh(draft, link, "initializing", "loading") EXCEPT !.work = work] \in OpeningPages
<1>1. Opening!EmptyResource \in OpeningWorkspaces
  BY DEF Opening!EmptyResource, OpeningWorkspaces, OpeningKeys
<1>2. Opening!IdleShare \in [phase : Phases, edited : BOOLEAN, pending : BOOLEAN]
  BY DEF Opening!IdleShare, Phases
<1>3. Blank \in OpeningDesigns /\ "none" \in Opening!Links /\ "loading" \in Opening!Catalogues
  BY DEF OpeningDesigns, Opening!Links, Opening!Catalogues
<1> QED
  BY <1>1, <1>2, <1>3 DEF Opening!Fresh, OpeningPages

LEMMA ReloadTyped == ASSUME OpeningTyped, Opening!Reload PROVE OpeningTyped'
<1>1. /\ page.draft \in OpeningDrafts /\ page.link \in Opening!Links
      /\ page.work \cap {Opening!Stored(page)} \in SUBSET Mine
  BY DEF OpeningTyped, OpeningPages
<1> QED
  BY <1>1, FreshTyped DEF Opening!Reload, OpeningTyped

LEMMA OpeningInitTyped == ASSUME Opening!Init PROVE OpeningTyped
<1>1. PICK link \in Opening!Links, draft \in {None} \cup Mine :
        page = [Opening!Fresh([Opening!NoDraft EXCEPT !.design = draft], link,
                              "initializing", "loading")
                EXCEPT !.work = {draft} \ {None}]
  BY DEF Opening!Init
<1>2. [Opening!NoDraft EXCEPT !.design = draft] \in OpeningDrafts
  BY NoDraftTyped DEF OpeningDrafts, Opening!Designs
<1>3. {draft} \ {None} \in SUBSET Mine
  OBVIOUS
<1> QED
  BY <1>1, <1>2, <1>3, FreshTyped DEF Opening!Init, OpeningTyped

LEMMA OpeningStepTyped ==
    ASSUME OpeningTyped, Opening!Next \/ UNCHANGED Opening!vars
    PROVE  OpeningTyped'
<1>1. CASE UNCHANGED Opening!vars
  BY <1>1 DEF Opening!vars, OpeningTyped
<1> QED
  BY <1>1, ArriveTyped, ChoiceTyped, EditTyped, ChangedTyped, OpeningAnswersTyped, WorkspaceTyped,
     DismissTyped, OpeningVisitorTyped, ReloadTyped DEF Opening!Next

LEMMA OpeningTypes == ASSUME OpeningTyped PROVE Opening!TypeOK
<1>1. page.draft \in OpeningDrafts => \A field \in DOMAIN Opening!NoDraft : page.draft[field] \in Opening!Designs \cup {None}
  BY DEF OpeningDrafts, Opening!NoDraft
<1>2. page.workspace \in OpeningWorkspaces => page.workspace.load \in {None, Asked}
  BY DEF OpeningWorkspaces
<1> QED
  BY <1>1, <1>2 DEF OpeningTyped, OpeningPages, Phases, OpeningDesigns, Opening!TypeOK
=============================================================================
