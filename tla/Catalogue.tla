------------------------------ MODULE Catalogue -----------------------------
(***************************************************************************)
(* The patterns of the configurator (frontend services/                    *)
(* pattern-catalogue.ts, use-pattern-catalogue.ts) and the request that    *)
(* wakes the API while the visitor is still on another page (services/     *)
(* api-warmup.ts), which the catalogue joins when there is one.            *)
(*                                                                         *)
(* The catalogue is filtered by the server when it is loaded and by the    *)
(* browser when it is there; both are taken to filter alike.  A request of *)
(* an older version is forgotten: nothing it says is heard.                *)
(***************************************************************************)
EXTENDS Naturals

CONSTANTS None,
          AllPatterns,      \* the filters of the complete catalogue
          Filters,          \* the other filters a visitor can choose
          MaxLoads          \* bound: loads of one mount

VARIABLES page,     \* mounted, phase, filters, shown (the filters of the
                    \* patterns shown), complete (it has the catalogue)
          calls,    \* the newest load: None, or whose answer it waits for
          server    \* the warm-up of this tab
vars == <<page, calls, server>>

Phases == {"loading", "ready", "empty", "error"}
Warm == {"none", "barred", "health", "patterns", "done", "failed"}
TypeOK ==
    /\ page \in [mounted : BOOLEAN, phase : Phases, complete : BOOLEAN,
                 filters : Filters \cup {AllPatterns},
                 asked : Filters \cup {AllPatterns, None},
                 shown : Filters \cup {AllPatterns, None}, loads : 0 .. MaxLoads]
    /\ calls \in {None, "warm", "own"}
    /\ server \in Warm

Unmounted == [mounted |-> FALSE, phase |-> "loading", complete |-> FALSE,
              filters |-> AllPatterns, asked |-> None, shown |-> None, loads |-> 0]
Init == page = Unmounted /\ calls = None /\ server = "none"

-----------------------------------------------------------------------------
\* #load: the newest version, which hears the warm-up or asks by itself.
Load(p, filters) ==
    [p EXCEPT !.phase = "loading", !.filters = filters, !.asked = filters,
              !.shown = None, !.loads = @ + 1]
Failed(p) == [p EXCEPT !.phase = "error", !.shown = None, !.asked = None]

\* Another page is idle: one warm-up in a tab, and none once the API is asked.
StartWarmup ==
    /\ ~page.mounted /\ server = "none"
    /\ server' \in {"health", "barred"}     \* reduced data, or an earlier page
    /\ UNCHANGED <<page, calls>>

\* The configurator mounts: it asks for the complete catalogue.
Mount ==
    /\ ~page.mounted
    /\ page' = Load([Unmounted EXCEPT !.mounted = TRUE], AllPatterns)
    /\ server' = IF server = "none" THEN "barred" ELSE server
    /\ calls' = IF server \in {"none", "barred"} THEN "own" ELSE "warm"
Unmount ==
    /\ page.mounted
    /\ page' = Unmounted /\ calls' = None
    /\ UNCHANGED server

Retry ==
    /\ page.mounted /\ page.loads < MaxLoads
    /\ page.phase # "loading"
    /\ page' = Load(page, page.filters) /\ calls' = "own"
    /\ UNCHANGED server

\* The visitor filters what is there, also while a load is out.
SetFilters == \E filters \in Filters \cup {AllPatterns} :
    /\ page.mounted /\ page.complete /\ filters # page.filters
    /\ \E phase \in {"ready", "empty"} :
          page' = [page EXCEPT !.filters = filters, !.shown = filters, !.phase = phase]
    /\ UNCHANGED <<calls, server>>

\* The warm-up moves: health first, then the patterns.
WarmupMoves ==
    /\ \/ server = "health" /\ server' \in {"patterns", "failed"}
       \/ server = "patterns" /\ server' \in {"done", "failed"}
    /\ UNCHANGED <<page, calls>>

\* A step of the joined warm-up, or of the own request, is told: connecting,
\* cold, trying again.
StatusTold ==
    /\ calls = "own" \/ (calls = "warm" /\ server \in {"health", "patterns"})
    /\ page' = [page EXCEPT !.phase = "loading", !.shown = None]
    /\ UNCHANGED <<calls, server>>

\* (Mutant: under the filters chosen meanwhile.)
ResolvedUnder ==
    \/ page' = [page EXCEPT !.phase = "ready", !.shown = page.asked, !.asked = None,
                            !.complete = @ \/ page.asked = AllPatterns]
    \/ page' = Failed(page)

\* The catalogue has its patterns: none, some, or data it cannot show.
Resolved ==
    \/ /\ page' = [page EXCEPT !.phase = "ready", !.filters = page.asked,
                               !.shown = page.asked, !.asked = None,
                               !.complete = @ \/ page.asked = AllPatterns]
    \/ /\ page' = [page EXCEPT !.phase = "empty", !.asked = None, !.shown = None,
                               !.complete = @ /\ page.asked # AllPatterns]
    \/ page' = Failed(page)

\* (Mutant: it goes on waiting for it.)
WarmupEndsWaiting ==
    /\ calls = "warm" /\ server = "done"
    /\ Resolved /\ calls' = None
    /\ UNCHANGED server

\* A warm-up that failed makes the catalogue ask by itself.
WarmupEnds ==
    /\ calls = "warm" /\ server \in {"done", "failed"}
    /\ IF server = "done" THEN Resolved /\ calls' = None
       ELSE calls' = "own" /\ UNCHANGED page
    /\ UNCHANGED server
RequestEnds ==
    /\ calls = "own"
    /\ Resolved
    /\ calls' = None
    /\ UNCHANGED server

Next == \/ StartWarmup \/ Mount \/ Unmount \/ Retry \/ SetFilters
        \/ WarmupMoves \/ StatusTold \/ WarmupEnds \/ RequestEnds

\* Every request ends: at its answer, or at its time limit.
Fairness == WF_vars(WarmupMoves) /\ WF_vars(WarmupEnds) /\ WF_vars(RequestEnds)
Spec == Init /\ [][Next]_vars /\ Fairness

-----------------------------------------------------------------------------
\* What the grid shows are the patterns of the filters it names, also when a
\* load that was out while the visitor filtered is answered.
ShownByItsFilters == page.phase = "ready" => page.shown = page.filters

\* A load of a mounted configurator ends, also one that joined a warm-up which
\* fails after the page stopped waiting for its health check.
Settled == page.mounted => page.phase # "loading"
CatalogueSettles == []<>Settled
=============================================================================
