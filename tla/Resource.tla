------------------------------ MODULE Resource ------------------------------
(***************************************************************************)
(* The hook every screen loads its data with (frontend                     *)
(* services/use-resource.ts): what one resource remembers, and what each   *)
(* of its callbacks makes of it.                                           *)
(*                                                                         *)
(* A generation is only ever compared with the newest one, so `fresh`      *)
(* stands for "what settled has the newest generation".  A request that    *)
(* was aborted is forgotten at once: its answer changes nothing.           *)
(***************************************************************************)

CONSTANTS None,     \* no key, no data, no request
          Asked     \* a request that is out and that the server has not served

\* What the hook remembers.
\*    deps      the key its effect last ran for
\*    load      the request of that effect: None, Asked, or the answer to it
\*              that is on its way
\*    settled   the key of what settled last; None when nothing did
\*    data, error  what settled last holds
\*    fresh     nothing was reloaded since it settled
\*    background  the last reload was in the background
\* Who waits for a reload is not followed: it ends with its request.
EmptyResource ==
    [deps |-> None, load |-> None, settled |-> None, data |-> None,
     error |-> FALSE, fresh |-> FALSE, background |-> FALSE]

\* The effect: a new key aborts the request of the old one and asks again.
Rekeyed(r, key) ==
    IF key = r.deps THEN r
    ELSE [r EXCEPT !.deps = key,
                   !.load = IF key = None THEN None ELSE Asked]

\* The request is answered with data, or fails.  A failure keeps what the
\* same key showed, or with keepPreviousData whatever was shown.
Loaded(r, data) ==
    [r EXCEPT !.load = None, !.settled = r.deps, !.data = data,
              !.error = FALSE, !.fresh = TRUE]
LoadFailed(r, keep) ==
    [r EXCEPT !.load = None, !.settled = r.deps, !.error = TRUE,
              !.data = IF r.settled = r.deps \/ keep THEN @ ELSE None,
              !.fresh = TRUE]

\* reload(): the caller's closure has the key of the render it was made in.
Reloaded(r, key, background) ==
    IF key = None THEN r
    ELSE [r EXCEPT !.load = IF r.deps = None THEN None ELSE Asked,
                   !.fresh = FALSE, !.background = background]

\* (Mutant: whatever key is shown.)
UpdatedAnyway(r, key, keep, base) ==
    IF r.settled = None \/ r.data = None THEN r ELSE [r EXCEPT !.data = base]

\* update(): a mutation's result replaces the data of the closure's key.
\* base is what the change makes of the data that is there.
Updated(r, key, keep, base) ==
    IF r.settled = None \/ (r.settled # key /\ ~keep) \/ r.data = None THEN r
    ELSE [r EXCEPT !.data = base]

\* clearError(): a screen's banner is replaced by an action.
ErrorCleared(r, key) == [r EXCEPT !.error = @ /\ r.settled # key]

-----------------------------------------------------------------------------
(* What the hook returns to a render for a key. *)

DataFor(r, key, keep) ==
    IF r.settled # None /\ r.settled = key /\ r.data # None THEN r.data
    ELSE IF keep /\ key # None THEN r.data ELSE None
ErrorFor(r, key) == r.settled # None /\ r.settled = key /\ r.error
LoadingFor(r, key) ==
    /\ key # None
    /\ ~(r.settled = key /\ r.fresh)
    /\ ~(r.background /\ r.settled = key /\ r.data # None)
=============================================================================
