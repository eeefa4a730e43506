----------------------------- MODULE Publishing -----------------------------
(***************************************************************************)
(* The public link of the reviewed design (frontend components/            *)
(* configurator/save-share-panel.tsx over the controller of services/      *)
(* design-save.ts).  Each panel has its own controller; one that is left   *)
(* goes on unheard.  A request is never repeated by itself: its answer may *)
(* be lost after the design was stored, and the visitor tries again.       *)
(***************************************************************************)
EXTENDS Naturals, Sequences

CONSTANTS None, Designs,
          MaxRecords        \* bound: designs the server stores

VARIABLES page,     \* the design on the screen and the panel
          calls,    \* the requests of this panel's controller
          server    \* the stored designs, by their public id
vars == <<page, calls, server>>

TypeOK ==
    /\ page.design \in Designs /\ page.here \in BOOLEAN
    /\ page.phase \in {"idle", "saving", "error", "success"}
    /\ page.link \in DOMAIN server \cup {None}
    /\ page.sent \in Designs \cup {None}
    /\ page.copy \in {"idle", "copying", "success", "error"}
    /\ page.mark = None \/ page.mark.record \in DOMAIN server
    /\ calls \in Seq(Designs)

Panel(design, here, mark) ==
    [design |-> design, here |-> here, phase |-> "idle", link |-> None,
     sent |-> None, copy |-> "idle", mark |-> mark]
Init == /\ \E d \in Designs : page = Panel(d, FALSE, None)
        /\ calls = <<>> /\ server = <<>>

\* The effect of a shown link: opening it later replaces no work.
Marked(p) == IF p.phase = "success"
             THEN [p EXCEPT !.mark = [record |-> p.link, print |-> p.design]] ELSE p

\* submit(): a request in flight is shared, and a link is not made again.  What
\* the boundary does not accept is not sent.
Submit ==
    /\ page.here /\ page.phase \in {"idle", "saving", "error"}
    /\ IF calls # <<>> THEN UNCHANGED <<page, calls>>
       ELSE \/ /\ calls' = <<page.design>>
               /\ page' = [page EXCEPT !.phase = "saving", !.sent = page.design]
            \/ /\ page' = [page EXCEPT !.phase = "error"] /\ UNCHANGED calls
    /\ UNCHANGED server

\* (Mutant: the answer is believed.)
AnsweredUnread(record) ==
    page' = Marked([page EXCEPT !.phase = "success", !.link = record])

\* #save(): a link is offered only for a record that is what was sent.
Answered(record) ==
    page' = IF server'[record] = Head(calls)
            THEN Marked([page EXCEPT !.phase = "success", !.link = record])
            ELSE [page EXCEPT !.phase = "error"]
Stores ==
    /\ calls # <<>> /\ Len(server) < MaxRecords
    /\ server' = Append(server, Head(calls))
    /\ \/ Answered(Len(server'))
       \/ page' = [page EXCEPT !.phase = "error"]      \* the answer is lost
    /\ calls' = Tail(calls)
\* A record of something else, or none.
Fails ==
    /\ calls # <<>>
    /\ UNCHANGED server
    /\ \/ \E record \in DOMAIN server : Answered(record)
       \/ page' = [page EXCEPT !.phase = "error"]
    /\ calls' = Tail(calls)

\* copyShareLink(): one at a time.
Copy == /\ page.here /\ page.phase = "success" /\ page.copy # "copying"
        /\ page' = [page EXCEPT !.copy = "copying"]
        /\ UNCHANGED <<calls, server>>
Copied == /\ page.copy = "copying"
          /\ page' \in {[page EXCEPT !.copy = c] : c \in {"success", "error"}}
          /\ UNCHANGED <<calls, server>>

\* What was sent may still be stored.
Leave == /\ page.here /\ page' = Panel(page.design, FALSE, page.mark)
         /\ server' \in {server} \cup
              (IF Len(server) < MaxRecords THEN {server \o calls} ELSE {})
         /\ calls' = <<>>
\* A stage edits the design, and the review shows it again.
Enter == /\ ~page.here
         /\ \E d \in Designs : page' = Panel(d, TRUE, page.mark)
         /\ UNCHANGED <<calls, server>>
\* A link that was retried is answered: the design is replaced on the screen.
Replaced == \E d \in Designs \ {page.design} :
    /\ page.here
    /\ page' = Marked([page EXCEPT !.design = d, !.mark = None])
    /\ UNCHANGED <<calls, server>>

Next == \/ Submit \/ Stores \/ Fails \/ Copy \/ Copied
        \/ Leave \/ Enter \/ Replaced
Spec == Init /\ [][Next]_vars

-----------------------------------------------------------------------------
\* The shown link leads to the design that was sent, and once there is a link
\* no other request is out that could still store the design again
\* (design-save.ts 65-89, 255-272; docs/architecture.md 48-49).
LinkIsWhatWasSent ==
    page.phase = "success" => server[page.link] = page.sent /\ calls = <<>>
=============================================================================
