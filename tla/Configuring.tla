---------------------------- MODULE Configuring -----------------------------
(***************************************************************************)
(* The configuration and its stages (frontend context/configuration/,      *)
(* components/configurator/configurator.tsx with the step components, and  *)
(* review-summary.ts), up to what a save accepts (services/design-save.ts) *)
(* and what a stored draft brings back (draft-configuration.ts).           *)
(*                                                                         *)
(* Measurements are integers: hundredths of the unit.  "box" and "round"   *)
(* are measured like "rectangle" and "square".  A detail stands for the    *)
(* cover's options and the pattern's scale, which every reader accepts.    *)
(***************************************************************************)
EXTENDS Integers

CONSTANTS None,
          Typed,        \* the numbers the visitor types
          Details       \* the values of the detail

VARIABLE page   \* design, asking (pendingShape), requested (requestedStepId),
                \* highest (highestStepReached), catalogue (it is there and
                \* offers the pattern), granted (the preview of a custom one)
vars == page

Shapes == {"rectangle", "square", "tapered"}
Fields == {"width", "height", "backWidth", "thickness"}
Units == {"cm", "in"}
Fabrics == {"built-in", "solid", "custom"}
Steps == <<"shape", "measurements", "details", "pattern", "preview", "review">>
Last == 5

Initial == [shape |-> None, width |-> None, height |-> None, backWidth |-> None,
            thickness |-> None, unit |-> "cm", fabric |-> None,
            detail |-> CHOOSE d \in Details : TRUE]

TypeOK ==
    /\ page.design.shape \in Shapes \cup {None} /\ page.design.unit \in Units
    /\ \A f \in Fields : page.design[f] \in Nat \cup {None}
    /\ page.design.fabric \in Fabrics \cup {None} /\ page.design.detail \in Details
    /\ page.asking \in {None, "square"}
    /\ page.requested \in 0 .. Last /\ page.highest \in 0 .. Last
    /\ page.catalogue \in BOOLEAN /\ page.granted \in BOOLEAN

-----------------------------------------------------------------------------
(* Measurements. *)

\* A length and the range of a field, in units of 0.0001 cm.
Exact(h, unit) == IF unit = "cm" THEN h * 100 ELSE h * 254
Least(f) == IF f = "thickness" THEN 10000 ELSE 100000
Most(f)  == IF f = "thickness" THEN 600000 ELSE 3000000
WithinRange(h, f, unit) ==
    h # None /\ Exact(h, unit) \in Least(f) .. Most(f)

\* Rounded to hundredths, a half up: no typed length is a half.
Converted(h, from) ==
    IF h = None THEN None
    ELSE IF from = "in" THEN (h * 254 + 50) \div 100 ELSE (h * 100 + 127) \div 254

\* Equal sides; the back narrower than the front.
MeasurementsValid(d) ==
    /\ d.shape # None
    /\ \A f \in {"width", "height", "thickness"} : WithinRange(d[f], f, d.unit)
    /\ d.shape = "square" => d.width = d.height
    /\ d.shape = "tapered" => /\ WithinRange(d.backWidth, "backWidth", d.unit)
                              /\ d.backWidth < d.width

-----------------------------------------------------------------------------
(* The reducer. *)

SetShape(d, shape) ==
    [d EXCEPT !.shape = shape, !.height = IF shape = "square" THEN d.width ELSE @]
SetMeasure(d, f, h) ==
    IF d.shape = "square"
    THEN CASE f = "width"  -> [d EXCEPT !.width = h, !.height = h]
           [] f = "height" -> d
           [] OTHER        -> [d EXCEPT ![f] = h]
    ELSE [d EXCEPT ![f] = h]
SetUnit(d, unit) ==
    [f \in DOMAIN d |->
        IF f \in Fields THEN Converted(d[f], d.unit)
        ELSE IF f = "unit" THEN unit ELSE d[f]]

\* What the draft keeps of a design and brings back, field by field.
Sanitized(d) ==
    [d EXCEPT !.height = IF d.shape = "square" THEN d.width ELSE @]

\* Two designs are the same when a save would store the same.
Fingerprint(d) ==
    [d EXCEPT !.backWidth = IF d.shape = "tapered" THEN @ ELSE None]

-----------------------------------------------------------------------------
(* Readiness. *)

\* (Mutant: a catalogue that is there is enough.)
PatternIssueOfCatalogue(p) ==
    CASE p.design.fabric = "custom" -> ~p.granted
      [] p.design.fabric = "solid"  -> FALSE
      [] OTHER -> ~p.catalogue

\* Why the fabric keeps the visitor at the pattern stage.
PatternIssue(p) ==
    CASE p.design.fabric = "custom" -> ~p.granted
      [] p.design.fabric = "solid"  -> FALSE
      [] OTHER -> ~p.catalogue \/ p.design.fabric = None
ReviewReady(p) == MeasurementsValid(p.design) /\ ~PatternIssue(p)

\* What the two ways to save accept of a design.
AcceptsProject(d) == MeasurementsValid(d) /\ d.fabric # None
AcceptsPublic(d) == AcceptsProject(d) /\ d.fabric # "custom"

\* (Mutant: the pattern stage waits for a fabric.)
AllowedBeforePattern(p) ==
    IF p.design.shape = None THEN 0
    ELSE IF ~MeasurementsValid(p.design) THEN 1
    ELSE IF PatternIssue(p) THEN 2
    ELSE IF ReviewReady(p) THEN 5 ELSE 4

\* How far the data lets the visitor go, and the stage that is shown.
Allowed(p) ==
    IF p.design.shape = None THEN 0
    ELSE IF ~MeasurementsValid(p.design) THEN 1
    ELSE IF PatternIssue(p) THEN 3
    ELSE IF ReviewReady(p) THEN 5 ELSE 4
Least2(a, b) == IF a < b THEN a ELSE b
Accessible(p) == Least2(p.highest, Allowed(p))
Active(p) == Least2(p.requested, Accessible(p))
At(step) == Steps[Active(page) + 1] = step

CanContinue ==
    LET step == Steps[Active(page) + 1]
    IN  CASE step = "shape"        -> page.design.shape # None
          [] step = "measurements" -> MeasurementsValid(page.design)
          [] step = "pattern"      -> ~PatternIssue(page)
          [] step = "preview"      -> ReviewReady(page)
          [] OTHER                 -> TRUE
\* The stages the indicator lets the visitor come back to.
Revisitable ==
    LET active  == Active(page)
        allowed == Allowed(page)
        valid   == MeasurementsValid(page.design)
        fabric  == ~PatternIssue(page)
        compatible == <<page.design.shape # None, valid, valid, valid /\ fabric,
                        valid /\ fabric, valid /\ fabric>>
    IN  {i \in 0 .. allowed : /\ i # active /\ compatible[i + 1]
                              /\ \/ i < page.highest
                                 \/ page.highest = Last /\ i = Last}

-----------------------------------------------------------------------------
Fresh(design, step, highest) ==
    [design |-> design, asking |-> None, requested |-> step, highest |-> highest,
     catalogue |-> FALSE, granted |-> FALSE]
Init == page = Fresh(Initial, 0, 0)

Designs(d) == page' = [page EXCEPT !.design = d]

\* The shape stage: equal sides are asked about when both are there.
ChooseShape(shape) ==
    /\ At("shape") /\ page.design.shape # shape
    /\ LET d == page.design IN
       IF shape = "square" /\ d.width # None /\ d.height # None /\ d.width # d.height
       THEN page' = [page EXCEPT !.asking = shape]
       ELSE Designs(SetShape(d, shape))
AnswerShape ==
    /\ At("shape") /\ page.asking # None
    /\ \E d \in {page.design, SetShape(page.design, page.asking)} :
          page' = [page EXCEPT !.asking = None, !.design = d]

\* The measurement stage: a text is committed once it is a length in range,
\* and an empty field when the visitor leaves it.
Shown(f) == f = "backWidth" => page.design.shape = "tapered"
Type(f, h) ==
    /\ At("measurements") /\ Shown(f)
    /\ f = "height" => page.design.shape # "square"
    /\ h = None \/ WithinRange(h, f, page.design.unit)
    /\ Designs(SetMeasure(page.design, f, h))
ChangeUnit(unit) ==
    /\ At("measurements") /\ unit # page.design.unit
    /\ Designs(SetUnit(page.design, unit))

\* The cover's options, and the scale at the preview.
ChooseDetail(detail) ==
    /\ At("details") \/ (At("preview") /\ page.design.fabric # "solid")
    /\ Designs([page.design EXCEPT !.detail = detail])

\* The pattern stage.  A custom pattern is chosen with its preview.
ChooseFabric(fabric) ==
    /\ At("pattern")
    /\ fabric = "built-in" => page.catalogue
    /\ page' = [page EXCEPT !.design.fabric = fabric,
                            !.granted = fabric = "custom"]

\* A stored custom pattern's preview is granted; its image is deleted.
PreviewAnswers ==
    /\ page.design.fabric = "custom"
    /\ page' = [page EXCEPT !.granted = ~@]

\* The catalogue is there with the pattern; it loads again, fails, is empty, or
\* has lost the pattern.
CatalogueChanges == page' = [page EXCEPT !.catalogue = ~@]

Continue ==
    /\ Active(page) < Last /\ CanContinue
    /\ LET next == Active(page) + 1 IN
       page' = [page EXCEPT !.requested = next, !.asking = None,
                            !.highest = IF @ < next THEN next ELSE @]
\* Back, the indicator, and the preview's edit buttons.
Offered == ({Active(page) - 1} \cap Nat) \cup Revisitable
           \cup IF At("preview") THEN 1 .. 3 ELSE {}
GoTo(i) ==
    page' = IF i > Accessible(page) THEN page
            ELSE [page EXCEPT !.requested = i, !.asking = None]

\* The notice of a restored draft (after a reload) starts over.
StartNew ==
    /\ page.design.shape # None
    /\ page' = [Fresh(Initial, 0, 0) EXCEPT !.catalogue = page.catalogue]

\* The page is loaded again and brings back what the draft's effect wrote: the
\* design without its preview, and the stage that was shown.
Reload == page' = Fresh(Sanitized(page.design), Active(page), page.highest)

Next ==
    \/ \E shape \in Shapes : ChooseShape(shape)
    \/ AnswerShape
    \/ \E f \in Fields, h \in Typed \cup {None} : Type(f, h)
    \/ \E unit \in Units : ChangeUnit(unit)
    \/ \E detail \in Details : ChooseDetail(detail)
    \/ \E fabric \in Fabrics : ChooseFabric(fabric)
    \/ PreviewAnswers
    \/ CatalogueChanges \/ Continue
    \/ \E i \in Offered : GoTo(i)
    \/ StartNew \/ Reload
Spec == Init /\ [][Next]_vars

-----------------------------------------------------------------------------
\* A stage that is offered opens: what enables Continue, what the indicator
\* calls completed and how far the data goes are derived apart from each other
\* (configurator.tsx 184-235, 418-476), and agree after any sequence of choices,
\* answers and reloads.
OfferedStageOpens ==
    /\ Offered \subseteq 0 .. Accessible(page)
    /\ (Active(page) < Last /\ CanContinue) => Active(page) + 1 <= Allowed(page)

\* A design the review shows as ready is one that both ways to save accept,
\* and it stays the same design when the page is loaded again
\* (review-summary.ts 249-410, design-save.ts 95-206, draft-configuration.ts).
ReviewIsSaved ==
    ReviewReady(page) =>
        /\ AcceptsProject(page.design)
        /\ page.design.fabric # "custom" => AcceptsPublic(page.design)
        /\ Fingerprint(Sanitized(page.design)) = Fingerprint(page.design)
=============================================================================
