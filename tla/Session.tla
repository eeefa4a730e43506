------------------------------ MODULE Session -------------------------------
(***************************************************************************)
(* The session of one browser tab (frontend context/auth/auth-context.tsx, *)
(* the token storage of services/account-api.ts, the sign-in form and the  *)
(* account page), with what loads by the session's token                   *)
(* (use-account-resource.ts).                                              *)
(*                                                                         *)
(* The server keeps the sessions; other devices revoke them and time       *)
(* expires them.  Any request may be answered late, or not at all.  A page *)
(* that is loaded again keeps only what the tab stores.                    *)
(***************************************************************************)
EXTENDS Resource, FiniteSets

CONSTANT Tokens         \* the tokens the server can still issue

VARIABLES
    live,       \* the sessions the server accepts
    expired,    \* the sessions whose time is over
    used,       \* the tokens issued so far
    terms,      \* the sessions whose account acknowledged the terms
    registered, \* the sessions issued to a new account
    stored,     \* the token in this tab's storage
    signedIn,   \* the session a sign-in on this page started
    ended,      \* the token went away without an explicit sign-out
    restored,   \* the check of a token an earlier page stored
    list,       \* what a screen loads with the session
    calls       \* the other requests of the page, by what they are for
vars == <<live, expired, used, terms, registered, stored, signedIn, ended,
          restored, list, calls>>
server == <<live, expired, used, terms, registered>>

\* The sign-in form is mounted anew for each mode, so one of each may be out;
\* a registration goes on with the acknowledgement of the terms.  The screens
\* have one request out that nothing cancels: a change, or one that leaves.
Slots == {"login", "register", "screen"}
Leaving == {"logout", "logoutAll", "deleteAccount"}
Call(op, token) == [op |-> op, token |-> token, answer |-> None]
Ends == {"ok", "refused", "failed"}

\* The key each resource has in a render.
RestoreKey(tab, here) == IF tab # None /\ here # tab THEN tab ELSE None
Confirmed(tab, here, check) ==
    tab # None /\ (here = tab \/ DataFor(check, RestoreKey(tab, here), FALSE) = tab)
Authenticated == Confirmed(stored, signedIn, restored)
Status == IF stored = None THEN "guest"
          ELSE IF Authenticated THEN "authenticated" ELSE "initializing"

\* The next render: what it does to the two resources.
Render(tab, here, check) ==
    LET checking == Rekeyed(check, RestoreKey(tab, here))
    IN  /\ stored' = tab /\ signedIn' = here /\ restored' = checking
        /\ list' = Rekeyed(list, IF Confirmed(tab, here, checking) THEN tab
                                 ELSE None)

\* Removing the token tells the page, even when there was none.
Removed(check) == Render(None, signedIn, check) /\ ended' = TRUE
Cleared == Render(None, None, restored) /\ ended' = FALSE
Stays == UNCHANGED <<stored, signedIn, ended, restored, list>>

TypeOK ==
    /\ live \subseteq used /\ expired \subseteq used /\ used \subseteq Tokens
    /\ stored \in used \union {None} /\ signedIn \in used \union {None}
    /\ \A s \in Slots : calls[s] # None =>
         /\ calls[s].op \in Slots \union Leaving \union {"acknowledge", "change"}
         /\ calls[s].token \in used \union {None}
    /\ DataFor(restored, restored.deps, FALSE) \in {None, restored.deps}

Init == /\ live = {} /\ expired = {} /\ used = {} /\ terms = {}
        /\ registered = {}
        /\ stored = None /\ signedIn = None /\ ended = FALSE
        /\ restored = EmptyResource /\ list = EmptyResource
        /\ calls = [s \in Slots |-> None]

Send(slot, call) == calls' = [calls EXCEPT ![slot] = call]
Answered(slot, answer) == calls' = [calls EXCEPT ![slot].answer = answer]
Waits(slot) == calls[slot] # None /\ calls[slot].answer = None
Ended(slot, answers) == calls[slot] # None /\ calls[slot].answer \in answers

-----------------------------------------------------------------------------
(* Signing in. *)

\* The forms are shown to guests.  Each refuses a second submit while its own
\* is out, and a form that is not filled in is not sent.
Submit(mode) ==
    /\ Status = "guest" /\ calls[mode] = None
    /\ Send(mode, Call(mode, None))
    /\ Stays /\ UNCHANGED server

ServeSignIn(mode, t) ==
    /\ Waits(mode) /\ calls[mode].op = mode /\ t \notin used
    /\ used' = used \union {t} /\ live' = live \union {t}
    /\ registered' = IF mode = "register" THEN registered \union {t}
                     ELSE registered
    /\ calls' = [calls EXCEPT ![mode] = [@ EXCEPT !.token = t, !.answer = "ok"]]
    /\ Stays /\ UNCHANGED <<expired, terms>>

\* (Mutant: a registration begins it as well.)
SignedInAtOnce(slot) ==
    /\ Ended(slot, {"ok"}) /\ calls[slot].op \in {"login", "register", "acknowledge"}
    /\ Render(calls[slot].token, calls[slot].token, restored)
    /\ ended' = FALSE
    /\ Send(slot, None)
    /\ UNCHANGED server

\* The session begins: whatever the tab stored is replaced.
SignedIn(slot) ==
    /\ Ended(slot, {"ok"}) /\ calls[slot].op \in {"login", "acknowledge"}
    /\ Render(calls[slot].token, calls[slot].token, restored)
    /\ ended' = FALSE
    /\ Send(slot, None)
    /\ UNCHANGED server

\* A new account acknowledges its terms before its session is stored.
Registered ==
    /\ Ended("register", {"ok"}) /\ calls["register"].op = "register"
    /\ Send("register", Call("acknowledge", calls["register"].token))
    /\ Stays /\ UNCHANGED server

ServeTerms ==
    LET t == calls["register"].token
    IN  /\ Waits("register") /\ calls["register"].op = "acknowledge"
        /\ IF t \in live
           THEN terms' = terms \union {t} /\ Answered("register", "ok")
           ELSE Answered("register", "refused") /\ UNCHANGED terms
        /\ Stays /\ UNCHANGED <<live, expired, used, registered>>

SignInFails(slot) ==
    /\ Ended(slot, {"refused", "failed"})
    /\ IF calls[slot].answer = "refused" THEN Removed(restored) ELSE Stays
    /\ Send(slot, None)
    /\ UNCHANGED server

-----------------------------------------------------------------------------
(* Checking a token an earlier page stored. *)

\* Both requests of the check are answered.  A revoked, expired or unknown
\* session, and an API that cannot be reached, end it.
CheckAnswered ==
    /\ restored.load = Asked
    /\ IF stored \in live
       THEN LET checked == Loaded(restored, restored.deps)
            IN  Render(stored, signedIn, checked) /\ UNCHANGED ended
       ELSE Removed(LoadFailed(restored, FALSE))
    /\ UNCHANGED <<server, calls>>

\* (Mutant: the token is kept for another try.)
CheckFailsKeeping ==
    /\ restored.load = Asked
    /\ Render(stored, signedIn, LoadFailed(restored, FALSE)) /\ UNCHANGED ended
    /\ UNCHANGED <<server, calls>>

CheckFails ==
    /\ restored.load = Asked
    /\ Removed(LoadFailed(restored, FALSE))
    /\ UNCHANGED <<server, calls>>

\* The timer of the shown session.
ExpiryTimer ==
    /\ Authenticated /\ stored \in expired
    /\ Removed(restored)
    /\ UNCHANGED <<server, calls>>

-----------------------------------------------------------------------------
(* The account page and the screens. *)

\* Signing out, here or everywhere, deleting the account, or a screen's change.
\* Revoking the tab's own session in the list acts on the tab as a deletion.
Ask(op) ==
    /\ Authenticated /\ calls["screen"] = None
    /\ Send("screen", Call(op, stored))
    /\ Stays /\ UNCHANGED server

\* A wrong passphrase fails without a refusal of the session.
Serve ==
    LET c == calls["screen"]
    IN  /\ Waits("screen")
        /\ IF c.token \notin live
           THEN Answered("screen", "refused") /\ UNCHANGED live
           ELSE \/ /\ Answered("screen", "ok")
                   /\ live' = CASE c.op = "change" -> live
                                [] c.op = "logout" -> live \ {c.token}
                                [] OTHER           -> {}
                \/ /\ c.op = "deleteAccount"
                   /\ Answered("screen", "failed") /\ UNCHANGED live
        /\ Stays /\ UNCHANGED <<expired, used, terms, registered>>

\* Signing out clears the tab however its request ends, deleting only when it
\* succeeds.  Any other refusal removes the stored token (clearStoredToken).
Concluded ==
    LET c == calls["screen"]
    IN  /\ Ended("screen", Ends)
        /\ IF \/ c.op \in {"logout", "logoutAll"}
              \/ c.op = "deleteAccount" /\ c.answer = "ok"
           THEN Cleared
           ELSE IF c.answer = "refused" THEN Removed(restored) ELSE Stays
        /\ Send("screen", None)
        /\ UNCHANGED server

\* The screen's own data, loaded with the token as part of the key.
ListAnswered ==
    /\ list.load = Asked
    /\ IF list.deps \in live
       THEN /\ list' = Loaded(list, list.deps)
            /\ UNCHANGED <<stored, signedIn, ended, restored>>
       ELSE Removed(restored)
    /\ UNCHANGED <<server, calls>>
ListFails ==
    /\ list.load = Asked
    /\ list' = LoadFailed(list, FALSE)
    /\ UNCHANGED <<server, stored, signedIn, ended, restored, calls>>
ReloadList ==
    /\ Authenticated
    /\ list' = Reloaded(list, stored, FALSE)
    /\ UNCHANGED <<server, stored, signedIn, ended, restored, calls>>

-----------------------------------------------------------------------------
(* What the page does not decide. *)

\* The connection breaks or the time limit runs out.
CallFails(slot) ==
    /\ calls[slot] # None /\ calls[slot].answer # "failed"
    /\ Answered(slot, "failed")
    /\ Stays /\ UNCHANGED server

\* Time is over, or another device revokes the session.
Expire(t) ==
    /\ t \in live
    /\ live' = live \ {t} /\ expired' = expired \union {t}
    /\ Stays /\ UNCHANGED <<used, terms, registered, calls>>
Revoke(t) ==
    /\ t \in live
    /\ live' = live \ {t}
    /\ Stays /\ UNCHANGED <<expired, used, terms, registered, calls>>

\* The page is loaded again.
OpenPage ==
    /\ signedIn' = None /\ ended' = FALSE
    /\ calls' = [s \in Slots |-> None]
    /\ restored' = Rekeyed(EmptyResource, stored)
    /\ list' = EmptyResource
    /\ UNCHANGED <<server, stored>>

Next ==
    \/ \E mode \in {"login", "register"} :
         \/ Submit(mode) \/ SignedIn(mode) \/ SignInFails(mode)
         \/ \E t \in Tokens : ServeSignIn(mode, t)
    \/ Registered \/ ServeTerms
    \/ CheckAnswered \/ CheckFails \/ ExpiryTimer
    \/ \E op \in Leaving \union {"change"} : Ask(op)
    \/ Serve \/ Concluded
    \/ ListAnswered \/ ListFails \/ ReloadList
    \/ \E slot \in Slots : CallFails(slot)
    \/ \E t \in Tokens : Expire(t) \/ Revoke(t)
    \/ OpenPage

Spec == Init /\ [][Next]_vars

\* Every request of the page ends (the transport's time limit) and every end
\* is handled; the timer fires.  A page may be loaded again for ever, so what
\* ends there is only promised of a page that stays.
FairSpec == /\ Spec
            /\ WF_vars(CheckFails) /\ WF_vars(ExpiryTimer) /\ WF_vars(ListFails)

-----------------------------------------------------------------------------
(* What the session promises. *)

\* A session is stored only when its account has acknowledged the terms it was
\* created under: no answer, failure or second form lets a new account in
\* before (auth-context.tsx 160-178).
StoredAcknowledged == stored \in registered => stored \in terms

\* A screen shows the data of the session that is signed in, never what an
\* earlier session of the tab loaded (use-account-resource.ts 23-30).
ScreenShowsOwnSession ==
    DataFor(list, list.deps, FALSE) \in {None, stored}

\* The page never stays without an answer about a stored session.
Checking == Status = "initializing"
CheckEnds == Checking ~> ~Checking

\* A refusal ends the session it was about ("A 401 for a request that carried
\* the session ends it", docs/architecture.md 65): the late refusal of a
\* request of an earlier session leaves the newer one alone.  (The code breaks
\* it: account-api.ts 543-549 removes whatever token is stored.)
LateRefusalSparesNewer ==
    [][(calls["screen"] # None /\ calls'["screen"] = None
        /\ calls["screen"].op = "change" /\ calls["screen"].answer = "refused"
        /\ stored \notin {None, calls["screen"].token})
       => stored' # None]_calls
=============================================================================
