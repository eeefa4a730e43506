--------------------------- MODULE SessionProofs ---------------------------
(* What TLAPS proves of the session of a tab, for any number of tokens the *)
(* server can issue.                                                       *)
EXTENDS Visit, TLAPS

\* What the lemmas need of the constants: no token and no answer is None.
NoneIsNothing == None \notin Tokens \cup Session!Ends
LEMMA NothingIsNone == NoneIsNothing
BY VisitAssumption DEF NoneIsNothing

-----------------------------------------------------------------------------
(* The terms of a new account. *)

Forms == {"login", "register"}
FormCall(tokens) == [op : {"login", "register", "acknowledge"},
                     token : tokens \cup {None}, answer : Session!Ends \cup {None}]

\* What a form's request may store when it succeeds: the session of a login,
\* which is of no new account, or one whose terms are acknowledged.
MayStore(c, new, acknowledged) ==
    c.answer = "ok" => \/ c.op = "login" /\ c.token \notin new
                       \/ c.op = "register"
                       \/ c.op = "acknowledge" /\ c.token \in acknowledged

TermsInv ==
    /\ registered \subseteq used /\ used \subseteq Tokens
    /\ stored \in used \cup {None}
    /\ DOMAIN calls = Session!Slots /\ calls = [s \in Session!Slots |-> calls[s]]
    /\ \A s \in Forms : calls[s] # None =>
         calls[s] \in FormCall(used) /\ MayStore(calls[s], registered, terms)
    /\ Session!StoredAcknowledged

USE DEF Session!Slots

\* Steps that issue no session, touch no form, and store nothing.
LEMMA OthersKeepTerms ==
    ASSUME TermsInv, NoneIsNothing,
           UNCHANGED <<used, registered, terms>>, stored' \in {stored, None},
           \/ UNCHANGED calls
           \/ \E call : calls' = [calls EXCEPT !["screen"] = call]
    PROVE  TermsInv'
<1>1. \A s \in Forms : calls'[s] = calls[s]
  BY DEF TermsInv, Forms
<1>2. DOMAIN calls' = Session!Slots /\ calls' = [s \in Session!Slots |-> calls'[s]]
  BY DEF TermsInv
<1>3. Session!StoredAcknowledged'
  BY DEF TermsInv, Session!StoredAcknowledged, NoneIsNothing
<1> QED
  BY <1>1, <1>2, <1>3 DEF TermsInv, FormCall, MayStore

\* Steps of a form that store nothing.
LEMMA FormKeepsTerms ==
    ASSUME TermsInv, NoneIsNothing, NEW form \in Forms, NEW call,
           UNCHANGED <<used, registered>>, terms \subseteq terms',
           stored' \in {stored, None},
           calls' = [calls EXCEPT ![form] = call],
           call # None => call \in FormCall(used) /\ MayStore(call, registered', terms')
    PROVE  TermsInv'
<1>1. DOMAIN calls' = Session!Slots /\ calls' = [s \in Session!Slots |-> calls'[s]]
  BY DEF TermsInv
<1>2. calls'[form] = call /\ \A s \in Forms \ {form} : calls'[s] = calls[s]
  BY DEF TermsInv, Forms
<1>3. Session!StoredAcknowledged'
  BY DEF TermsInv, Session!StoredAcknowledged, NoneIsNothing
<1>4. ASSUME NEW s \in Forms, calls'[s] # None
      PROVE  calls'[s] \in FormCall(used') /\ MayStore(calls'[s], registered', terms')
  <2>1. CASE s = form
    BY <1>2, <1>4, <2>1 DEF FormCall
  <2>2. CASE s # form
    BY <1>2, <1>4, <2>2 DEF TermsInv, FormCall, MayStore
  <2> QED
    BY <2>1, <2>2
<1> QED
  BY <1>1, <1>3, <1>4 DEF TermsInv, MayStore

LEMMA Stores ==
    ASSUME NEW tab, NEW here, NEW check, Session!Render(tab, here, check)
    PROVE  stored' = tab
BY DEF Session!Render

\* A session is issued to a form: it is new, so no other request carries it.
LEMMA ServeSignInKeepsTerms ==
    ASSUME TermsInv, NoneIsNothing, NEW mode \in Forms, NEW t \in Tokens,
           Session!ServeSignIn(mode, t)
    PROVE  TermsInv'
<1> DEFINE issued == [calls[mode] EXCEPT !.token = t, !.answer = "ok"]
<1>1. /\ calls[mode] \in FormCall(used) /\ calls[mode].op = mode
      /\ t \notin used /\ t # None
      /\ calls' = [calls EXCEPT ![mode] = issued]
      /\ used' = used \cup {t} /\ UNCHANGED <<stored, terms>>
      /\ registered' = IF mode = "register" THEN registered \cup {t} ELSE registered
  BY DEF Session!ServeSignIn, Session!Waits, Session!Stays, TermsInv, NoneIsNothing
<1>2. DOMAIN calls' = Session!Slots /\ calls' = [s \in Session!Slots |-> calls'[s]]
  BY <1>1 DEF TermsInv
<1>3. calls'[mode] = issued /\ \A s \in Forms \ {mode} : calls'[s] = calls[s]
  BY <1>1 DEF TermsInv, Forms
<1>4. issued \in FormCall(used') /\ MayStore(issued, registered', terms')
  <2>1. issued \in FormCall(used') /\ issued.op = mode /\ issued.token = t
    BY <1>1 DEF FormCall, Session!Ends
  <2>2. mode = "login" => t \notin registered'
    BY <1>1 DEF TermsInv
  <2> QED
    BY <2>1, <2>2 DEF MayStore, Forms
<1>5. ASSUME NEW s \in Forms \ {mode}, calls[s] # None
      PROVE  calls[s] \in FormCall(used') /\ MayStore(calls[s], registered', terms')
  <2>1. calls[s] \in FormCall(used) /\ MayStore(calls[s], registered, terms)
    BY <1>5 DEF TermsInv
  <2>2. calls[s].token # t
    BY <2>1, <1>1 DEF FormCall
  <2>3. calls[s] \in FormCall(used')
    BY <2>1, <1>1 DEF FormCall
  <2> QED
    BY <2>1, <2>2, <2>3, <1>1 DEF MayStore
<1>6. \A s \in Forms : calls'[s] # None =>
        calls'[s] \in FormCall(used') /\ MayStore(calls'[s], registered', terms')
  BY <1>3, <1>4, <1>5
<1>7. Session!StoredAcknowledged' /\ registered' \subseteq used' /\ used' \subseteq Tokens
      /\ stored' \in used' \cup {None}
  BY <1>1 DEF TermsInv, Session!StoredAcknowledged
<1> QED
  BY <1>2, <1>6, <1>7 DEF TermsInv, MayStore

LEMMA SignedInKeepsTerms ==
    ASSUME TermsInv, NoneIsNothing, NEW form \in Forms, Session!SignedIn(form)
    PROVE  TermsInv'
<1>1. /\ calls[form] # None /\ calls[form].answer = "ok"
      /\ calls[form].op \in {"login", "acknowledge"}
      /\ calls' = [calls EXCEPT ![form] = None]
      /\ UNCHANGED <<used, registered, terms>>
  BY DEF Session!SignedIn, Session!Ended, Session!Send, Session!server
<1>2. stored' = calls[form].token
  BY Stores DEF Session!SignedIn
<1>3. stored' \in used' \cup {None} /\ Session!StoredAcknowledged'
  BY <1>1, <1>2 DEF TermsInv, FormCall, MayStore, Session!StoredAcknowledged
<1>4. DOMAIN calls' = Session!Slots /\ calls' = [s \in Session!Slots |-> calls'[s]]
  BY <1>1 DEF TermsInv
<1>5. calls'[form] = None /\ \A s \in Forms \ {form} : calls'[s] = calls[s]
  BY <1>1 DEF TermsInv, Forms
<1> QED
  BY <1>1, <1>3, <1>4, <1>5 DEF TermsInv, FormCall, MayStore

\* A request of a form that ends or goes on without storing a session.
LEMMA FormStepsKeepTerms ==
    ASSUME TermsInv, NoneIsNothing, NEW form \in Forms,
           Session!Submit(form) \/ Session!SignInFails(form) \/ Session!CallFails(form)
    PROVE  TermsInv'
<1>1. CASE Session!Submit(form)
  <2>1. /\ calls' = [calls EXCEPT ![form] = Session!Call(form, None)]
        /\ UNCHANGED <<used, registered, terms, stored>>
    BY <1>1 DEF Session!Submit, Session!Send, Session!Stays, Session!server
  <2>2. /\ Session!Call(form, None) \in FormCall(used)
        /\ MayStore(Session!Call(form, None), registered', terms')
    BY <2>1 DEF Session!Call, FormCall, MayStore, Forms, NoneIsNothing, Session!Ends
  <2> QED
    BY <2>1, <2>2, FormKeepsTerms
<1>2. CASE Session!SignInFails(form)
  <2>1. /\ calls' = [calls EXCEPT ![form] = None]
        /\ UNCHANGED <<used, registered, terms>> /\ stored' \in {stored, None}
    BY <1>2, Stores DEF Session!SignInFails, Session!Send, Session!Removed,
                        Session!Stays, Session!server
  <2> QED
    BY <2>1, FormKeepsTerms
<1>3. CASE Session!CallFails(form)
  <2> DEFINE failed == [calls[form] EXCEPT !.answer = "failed"]
  <2>1. /\ calls[form] \in FormCall(used)
        /\ calls' = [calls EXCEPT ![form] = failed]
        /\ UNCHANGED <<used, registered, terms, stored>>
    BY <1>3 DEF Session!CallFails, Session!Answered, Session!Stays, Session!server,
                TermsInv
  <2>2. failed \in FormCall(used) /\ MayStore(failed, registered', terms')
    BY <2>1 DEF FormCall, MayStore, Session!Ends
  <2> HIDE DEF failed
  <2> QED
    BY <2>1, <2>2, FormKeepsTerms
<1> QED
  BY <1>1, <1>2, <1>3

\* The two steps between a registration and its session.
LEMMA RegistrationKeepsTerms ==
    ASSUME TermsInv, NoneIsNothing, Session!Registered \/ Session!ServeTerms
    PROVE  TermsInv'
<1> DEFINE c == calls["register"]
<1>1. CASE Session!Registered
  <2> DEFINE next == Session!Call("acknowledge", c.token)
  <2>1. /\ c \in FormCall(used) /\ calls' = [calls EXCEPT !["register"] = next]
        /\ UNCHANGED <<used, registered, terms, stored>>
    BY <1>1 DEF Session!Registered, Session!Ended, Session!Send, Session!Stays,
                Session!server, TermsInv, Forms
  <2>2. next \in FormCall(used) /\ MayStore(next, registered', terms')
    BY <2>1 DEF Session!Call, FormCall, MayStore, NoneIsNothing, Session!Ends
  <2> HIDE DEF next
  <2> QED
    BY <2>1, <2>2, FormKeepsTerms DEF Forms
<1>2. CASE Session!ServeTerms
  <2>1. /\ c \in FormCall(used) /\ c.op = "acknowledge"
        /\ UNCHANGED <<used, registered, stored>>
    BY <1>2 DEF Session!ServeTerms, Session!Waits, Session!Stays, TermsInv, Forms
  <2>2. CASE /\ terms' = terms \union {c.token}
             /\ calls' = [calls EXCEPT !["register"].answer = "ok"]
    <3> DEFINE done == [c EXCEPT !.answer = "ok"]
    <3>1. calls' = [calls EXCEPT !["register"] = done] /\ terms \subseteq terms'
      BY <2>2
    <3>2. done \in FormCall(used) /\ MayStore(done, registered', terms')
      BY <2>1, <2>2 DEF FormCall, MayStore, Session!Ends
    <3> HIDE DEF done
    <3> QED
      BY <2>1, <3>1, <3>2, FormKeepsTerms DEF Forms
  <2>3. CASE /\ UNCHANGED terms
             /\ calls' = [calls EXCEPT !["register"].answer = "refused"]
    <3> DEFINE done == [c EXCEPT !.answer = "refused"]
    <3>1. calls' = [calls EXCEPT !["register"] = done] /\ terms \subseteq terms'
      BY <2>3
    <3>2. done \in FormCall(used) /\ MayStore(done, registered', terms')
      BY <2>1, <2>3 DEF FormCall, MayStore, Session!Ends
    <3> HIDE DEF done
    <3> QED
      BY <2>1, <3>1, <3>2, FormKeepsTerms DEF Forms
  <2> QED
    BY <1>2, <2>2, <2>3 DEF Session!ServeTerms, Session!Answered
<1> QED
  BY <1>1, <1>2

\* Steps of the screens, of the checks and of the world.
LEMMA OtherSteps ==
    ASSUME TermsInv, NoneIsNothing,
           \/ Session!CheckAnswered \/ Session!CheckFails \/ Session!ExpiryTimer
           \/ \E op \in Session!Leaving \cup {"change"} : Session!Ask(op)
           \/ Session!Serve \/ Session!Concluded
           \/ Session!ListAnswered \/ Session!ListFails \/ Session!ReloadList
           \/ Session!CallFails("screen")
           \/ \E t \in Tokens : Session!Expire(t) \/ Session!Revoke(t)
           \/ UNCHANGED Session!vars
    PROVE  TermsInv'
<1>1. UNCHANGED <<used, registered, terms>>
  BY DEF Session!CheckAnswered, Session!CheckFails, Session!ExpiryTimer, Session!Ask,
         Session!Serve, Session!Concluded, Session!ListAnswered,
         Session!ListFails, Session!ReloadList, Session!CallFails, Session!Expire,
         Session!Revoke, Session!server, Session!vars
<1>2. stored' \in {stored, None}
  BY Stores DEF Session!CheckAnswered, Session!CheckFails, Session!ExpiryTimer,
                Session!Ask, Session!Serve, Session!Concluded,
         Session!ListAnswered, Session!ListFails, Session!ReloadList, Session!CallFails,
         Session!Expire, Session!Revoke, Session!vars,
         Session!Removed, Session!Cleared, Session!Stays
<1>3. UNCHANGED calls \/ \E call : calls' = [calls EXCEPT !["screen"] = call]
  BY DEF Session!CheckAnswered, Session!CheckFails, Session!ExpiryTimer, Session!Ask,
         Session!Serve, Session!Concluded, Session!ListAnswered,
         Session!ListFails, Session!ReloadList, Session!CallFails, Session!Expire,
         Session!Revoke, Session!vars, Session!Send, Session!Answered
<1> QED
  BY <1>1, <1>2, <1>3, OthersKeepTerms

LEMMA TermsInvariant ==
    ASSUME TermsInv, NoneIsNothing, Session!Next \/ UNCHANGED Session!vars
    PROVE  TermsInv'
<1>1. CASE Session!OpenPage
  BY <1>1 DEF Session!OpenPage, Session!server, TermsInv, Session!StoredAcknowledged,
              Forms, MayStore, FormCall
<1>2. ASSUME NEW mode \in Forms,
             \/ Session!Submit(mode) \/ Session!SignedIn(mode) \/ Session!SignInFails(mode)
             \/ \E t \in Tokens : Session!ServeSignIn(mode, t)
      PROVE  TermsInv'
  BY <1>2, FormStepsKeepTerms, SignedInKeepsTerms, ServeSignInKeepsTerms
<1>3. ASSUME NEW slot \in Session!Slots, Session!CallFails(slot) PROVE TermsInv'
  BY <1>3, FormStepsKeepTerms, OtherSteps DEF Forms
<1> QED
  BY <1>1, <1>2, <1>3, RegistrationKeepsTerms, OtherSteps DEF Session!Next, Forms

\* No answer, failure, reload or second form stores the session of a new account
\* whose terms are not acknowledged (auth-context.tsx 160-178).
THEOREM TermsBeforeSession == Spec => []StoredAcknowledged
<1> DEFINE I == part = "session" => TermsInv
<1> USE NothingIsNone
<1>1. Init => I
  BY DEF Init, Session!Init, TermsInv, Session!StoredAcknowledged, Forms
<1>2. I => StoredAcknowledged
  BY DEF TermsInv, StoredAcknowledged
<1>3. I /\ [Next]_vars => I'
  <2>1. I /\ UNCHANGED vars => I'
    BY TermsInvariant DEF vars, session, Session!vars
  <2>2. I /\ Next => I'
    BY TermsInvariant DEF Next
  <2> QED
    BY <2>1, <2>2
<1> QED
  BY <1>1, <1>2, <1>3, PTL DEF Spec

-----------------------------------------------------------------------------
(* What a screen shows. *)

Keys == Tokens \cup {None, Asked}
ListRow == [deps : Keys, load : Keys, settled : Keys, data : Keys,
            error : BOOLEAN, fresh : BOOLEAN, background : BOOLEAN]

\* The key of the list's last render is the stored token or none, and what
\* settled under a key is the data of that key.
OwnList ==
    /\ list \in ListRow
    /\ list.deps \in {None, stored}
    /\ list.settled # None => list.data \in {None, list.settled}

LEMMA RekeyedRow ==
    ASSUME NEW r \in ListRow, NEW key \in Keys
    PROVE  /\ Session!Rekeyed(r, key) \in ListRow /\ Session!Rekeyed(r, key).deps = key
           /\ Session!Rekeyed(r, key).settled = r.settled
           /\ Session!Rekeyed(r, key).data = r.data
BY DEF Session!Rekeyed, ListRow, Keys

\* Every render asks for the data of the token it stores, or for none.
LEMMA RenderKeepsList ==
    ASSUME OwnList, NEW tab \in Tokens \cup {None}, NEW here, NEW check,
           Session!Render(tab, here, check)
    PROVE  OwnList'
<1>1. PICK key \in {None, tab} : list' = Session!Rekeyed(list, key)
  BY DEF Session!Render
<1>2. stored' = tab /\ key \in Keys /\ list \in ListRow
  BY Stores DEF Keys, OwnList
<1> QED
  BY <1>1, <1>2, RekeyedRow DEF OwnList

\* What settles is the data of the key it was asked for.
LEMMA SettledKeepsList ==
    ASSUME OwnList, UNCHANGED stored,
           \/ list' = Session!Loaded(list, list.deps)
           \/ list' = Session!LoadFailed(list, FALSE)
           \/ \E key : list' = Session!Reloaded(list, key, FALSE)
    PROVE  OwnList'
<1>1. CASE list' = Session!Loaded(list, list.deps)
  BY <1>1 DEF OwnList, ListRow, Session!Loaded, Keys
<1>2. CASE list' = Session!LoadFailed(list, FALSE)
  <2>1. (list.settled = list.deps \/ FALSE) = (list.settled = list.deps)
    OBVIOUS
  <2>2. list' = [list EXCEPT !.load = None, !.settled = list.deps, !.error = TRUE,
                 !.data = IF list.settled = list.deps THEN list.data ELSE None,
                 !.fresh = TRUE]
    BY <1>2 DEF Session!LoadFailed
  <2> QED
    BY <2>2 DEF OwnList, ListRow, Keys
<1>3. CASE \E key : list' = Session!Reloaded(list, key, FALSE)
  BY <1>3 DEF OwnList, ListRow, Session!Reloaded, Keys
<1> QED
  BY <1>1, <1>2, <1>3

LEMMA ListInvariant ==
    ASSUME TermsInv, NoneIsNothing, OwnList, Session!Next \/ UNCHANGED Session!vars
    PROVE  OwnList'
<1> USE DEF Forms
<1>1. stored \in Tokens \cup {None}
  BY DEF TermsInv
<1>2. ASSUME Session!Stays \/ UNCHANGED Session!vars PROVE OwnList'
  BY <1>2 DEF Session!Stays, Session!vars, OwnList
<1>3. ASSUME NEW check, Session!Removed(check) \/ Session!Cleared PROVE OwnList'
  BY <1>3, RenderKeepsList DEF Session!Removed, Session!Cleared
<1>4. ASSUME NEW form \in Forms, Session!SignedIn(form) PROVE OwnList'
  <2>1. calls[form].token \in Tokens \cup {None}
    BY <1>4 DEF Session!SignedIn, Session!Ended, TermsInv, FormCall
  <2> QED
    BY <1>4, <2>1, RenderKeepsList DEF Session!SignedIn
<1>5. ASSUME NEW form \in Forms,
             \/ Session!Submit(form) \/ Session!SignInFails(form)
             \/ \E t \in Tokens : Session!ServeSignIn(form, t)
      PROVE  OwnList'
  BY <1>2, <1>3, <1>5 DEF Session!Submit, Session!SignInFails, Session!ServeSignIn
<1>6. CASE Session!Registered \/ Session!ServeTerms \/ Session!Serve
  BY <1>2, <1>6 DEF Session!Registered, Session!ServeTerms, Session!Serve
<1>7. CASE Session!CheckAnswered
  BY <1>1, <1>3, <1>7, RenderKeepsList DEF Session!CheckAnswered
<1>8. CASE Session!CheckFails \/ Session!ExpiryTimer
  BY <1>3, <1>8 DEF Session!CheckFails, Session!ExpiryTimer
<1>9. CASE Session!Concluded
  BY <1>2, <1>3, <1>9 DEF Session!Concluded
<1>10. CASE Session!ListAnswered \/ Session!ListFails \/ Session!ReloadList
  BY <1>3, <1>10, SettledKeepsList DEF Session!ListAnswered, Session!ListFails,
                                       Session!ReloadList
<1>11. CASE Session!OpenPage
  BY <1>11 DEF Session!OpenPage, Session!EmptyResource, OwnList, ListRow, Keys
<1>12. ASSUME \/ \E op \in Session!Leaving \cup {"change"} : Session!Ask(op)
              \/ \E slot \in Session!Slots : Session!CallFails(slot)
              \/ \E t \in Tokens : Session!Expire(t) \/ Session!Revoke(t)
       PROVE  OwnList'
  BY <1>2, <1>12 DEF Session!Ask, Session!CallFails, Session!Expire, Session!Revoke
<1> QED
  BY <1>2, <1>4, <1>5, <1>6, <1>7, <1>8, <1>9, <1>10, <1>11, <1>12 DEF Session!Next

\* Every screen of the session's pages keeps to the session the tab stores.
Owned == part = "session" => TermsInv /\ OwnList

LEMMA OwnedInit == Init => Owned
<1>1. Session!Init => TermsInv
  BY DEF Session!Init, TermsInv, Session!StoredAcknowledged, Forms
<1>2. Session!Init => OwnList
  BY DEF Session!Init, Session!EmptyResource, OwnList, ListRow, Keys
<1> QED
  BY <1>1, <1>2 DEF Init, Owned

LEMMA OwnedInvariant == Owned /\ [Next]_vars => Owned'
<1> USE NothingIsNone
<1>1. Owned /\ UNCHANGED vars => Owned'
  BY TermsInvariant, ListInvariant DEF Owned, vars, session, Session!vars
<1>2. Owned /\ Next => Owned'
  BY TermsInvariant, ListInvariant DEF Owned, Next
<1> QED
  BY <1>1, <1>2

LEMMA OwnedShows ==
    Owned /\ part = "session" => Session!ScreenShowsOwnSession
BY DEF Owned, OwnList, Session!ScreenShowsOwnSession, Session!DataFor

-----------------------------------------------------------------------------
(* The types of a session. *)

\* What settled under a key is of that key.
Own(r) == r \in ListRow /\ (r.settled # None => r.data \in {None, r.settled})
ScreenCall(tokens) ==
    [op : Session!Leaving \cup {"change"}, token : tokens \cup {None},
     answer : Session!Ends \cup {None}]
CheckTyped == Own(restored) /\ signedIn \in used \cup {None}
ServerTyped == live \subseteq used /\ expired \subseteq used
ScreenCallTyped == calls["screen"] \in ScreenCall(used) \cup {None}
SessionTyped == CheckTyped /\ ServerTyped /\ ScreenCallTyped

LEMMA OwnStays ==
    ASSUME NEW r, Own(r)
    PROVE  /\ \A key \in Keys : Own(Session!Rekeyed(r, key))
           /\ Own(Session!Loaded(r, r.deps))
           /\ Own(Session!LoadFailed(r, FALSE))
<1>1. \A key \in Keys : Own(Session!Rekeyed(r, key))
  BY RekeyedRow DEF Own
<1>2. Own(Session!Loaded(r, r.deps))
  BY DEF Own, ListRow, Session!Loaded, Keys
<1>3. Own(Session!LoadFailed(r, FALSE))
  <2>1. (r.settled = r.deps \/ FALSE) = (r.settled = r.deps)
    OBVIOUS
  <2>2. Session!LoadFailed(r, FALSE) =
          [r EXCEPT !.load = None, !.settled = r.deps, !.error = TRUE,
                    !.data = IF r.settled = r.deps THEN r.data ELSE None, !.fresh = TRUE]
    BY <2>1 DEF Session!LoadFailed
  <2> QED
    BY <2>2 DEF Own, ListRow, Keys
<1> QED
  BY <1>1, <1>2, <1>3

LEMMA RenderKeepsCheck ==
    ASSUME NEW tab \in Tokens \cup {None}, NEW here, NEW check, Own(check),
           Session!Render(tab, here, check)
    PROVE  Own(restored') /\ signedIn' = here
<1>1. Session!RestoreKey(tab, here) \in Keys
  BY DEF Session!RestoreKey, Keys
<1> QED
  BY <1>1, OwnStays DEF Session!Render

LEMMA UsedGrows ==
    ASSUME Session!Next \/ UNCHANGED Session!vars PROVE used \subseteq used'
BY DEF Session!Next, Session!Submit, Session!SignedIn, Session!SignInFails,
       Session!ServeSignIn, Session!Registered, Session!ServeTerms,
       Session!CheckAnswered, Session!CheckFails, Session!ExpiryTimer, Session!Ask,
       Session!Serve, Session!Concluded, Session!ListAnswered, Session!ListFails,
       Session!ReloadList, Session!CallFails, Session!Expire, Session!Revoke,
       Session!OpenPage, Session!server, Session!vars

\* The check of a stored token, and the session a sign-in started.
LEMMA CheckStepsTyped ==
    ASSUME TermsInv, SessionTyped, Session!Next \/ UNCHANGED Session!vars
    PROVE  CheckTyped'
<1>0. /\ stored \in Tokens \cup {None} /\ signedIn \in used \cup {None} /\ Own(restored)
      /\ used \subseteq Tokens /\ used \subseteq used'
  BY UsedGrows DEF TermsInv, SessionTyped, CheckTyped
<1>1. ASSUME NEW tab \in Tokens \cup {None}, NEW here \in used \cup {None},
             NEW check, Own(check), Session!Render(tab, here, check)
      PROVE  CheckTyped'
  BY <1>0, <1>1, RenderKeepsCheck DEF CheckTyped
<1>2. ASSUME Session!Stays \/ UNCHANGED Session!vars PROVE CheckTyped'
  BY <1>0, <1>2 DEF Session!Stays, Session!vars, CheckTyped
<1>3. ASSUME NEW check, Own(check), Session!Removed(check) PROVE CheckTyped'
  BY <1>0, <1>1, <1>3 DEF Session!Removed
<1>4. ASSUME Session!Cleared PROVE CheckTyped'
  BY <1>0, <1>1, <1>4 DEF Session!Cleared
<1>5. ASSUME NEW form \in Forms, Session!SignedIn(form) PROVE CheckTyped'
  <2>1. calls[form].token \in used \cup {None}
    BY <1>5 DEF Session!SignedIn, Session!Ended, TermsInv, FormCall
  <2>2. calls[form].token \in Tokens \cup {None}
    BY <1>0, <2>1
  <2> QED
    BY <1>0, <1>1, <1>5, <2>1, <2>2 DEF Session!SignedIn
<1>6. ASSUME NEW form \in Forms,
             \/ Session!Submit(form) \/ Session!SignInFails(form)
             \/ \E t \in Tokens : Session!ServeSignIn(form, t)
      PROVE  CheckTyped'
  BY <1>0, <1>2, <1>3, <1>6 DEF Session!Submit, Session!SignInFails, Session!ServeSignIn
<1>7. ASSUME Session!Registered \/ Session!ServeTerms \/ Session!Serve PROVE CheckTyped'
  BY <1>2, <1>7 DEF Session!Registered, Session!ServeTerms, Session!Serve
<1>8. ASSUME Session!CheckAnswered PROVE CheckTyped'
  <2>1. \/ Session!Render(stored, signedIn, Session!Loaded(restored, restored.deps))
        \/ Session!Removed(Session!LoadFailed(restored, FALSE))
    BY <1>8 DEF Session!CheckAnswered
  <2>2. /\ Own(Session!Loaded(restored, restored.deps))
        /\ Own(Session!LoadFailed(restored, FALSE))
    BY <1>0, OwnStays
  <2> QED
    BY <1>0, <1>1, <1>3, <2>1, <2>2
<1>9. ASSUME Session!CheckFails \/ Session!ExpiryTimer PROVE CheckTyped'
  BY <1>0, <1>3, <1>9, OwnStays DEF Session!CheckFails, Session!ExpiryTimer
<1>10. ASSUME Session!Concluded PROVE CheckTyped'
  BY <1>0, <1>2, <1>3, <1>4, <1>10 DEF Session!Concluded
<1>11. ASSUME Session!ListAnswered \/ Session!ListFails \/ Session!ReloadList
       PROVE  CheckTyped'
  BY <1>0, <1>3, <1>11 DEF Session!ListAnswered, Session!ListFails, Session!ReloadList,
     CheckTyped
<1>12. ASSUME Session!OpenPage PROVE CheckTyped'
  <2>1. Own(Session!EmptyResource)
    BY DEF Own, ListRow, Keys, Session!EmptyResource
  <2>2. stored \in Keys
    BY <1>0 DEF Keys
  <2> QED
    BY <1>12, <2>1, <2>2, OwnStays DEF Session!OpenPage, CheckTyped
<1>13. ASSUME \/ \E op \in Session!Leaving \cup {"change"} : Session!Ask(op)
              \/ \E slot \in Session!Slots : Session!CallFails(slot)
              \/ \E t \in Tokens : Session!Expire(t) \/ Session!Revoke(t)
       PROVE  CheckTyped'
  BY <1>2, <1>13 DEF Session!Ask, Session!CallFails, Session!Expire, Session!Revoke
<1> QED
  BY <1>2, <1>5, <1>6, <1>7, <1>8, <1>9, <1>10, <1>11, <1>12, <1>13
     DEF Session!Next, Forms

\* The sessions the server knows.
LEMMA ServerStepsTyped ==
    ASSUME SessionTyped, Session!Next \/ UNCHANGED Session!vars
    PROVE  ServerTyped'
BY DEF SessionTyped, ServerTyped,
       Session!Next, Session!Submit, Session!SignedIn, Session!SignInFails,
       Session!ServeSignIn, Session!Registered, Session!ServeTerms,
       Session!CheckAnswered, Session!CheckFails, Session!ExpiryTimer, Session!Ask,
       Session!Serve, Session!Concluded, Session!ListAnswered, Session!ListFails,
       Session!ReloadList, Session!CallFails, Session!Expire, Session!Revoke,
       Session!OpenPage, Session!server, Session!vars

\* The request of a screen.
LEMMA ScreenStepsTyped ==
    ASSUME TermsInv, SessionTyped, Session!Next \/ UNCHANGED Session!vars
    PROVE  ScreenCallTyped'
<1>0. /\ calls["screen"] \in ScreenCall(used) \cup {None} /\ used \subseteq used'
      /\ DOMAIN calls = Session!Slots /\ stored \in used \cup {None}
      /\ ScreenCall(used) \subseteq ScreenCall(used')
  <2>1. used \subseteq used'
    BY UsedGrows
  <2> QED
    BY <2>1 DEF TermsInv, SessionTyped, ScreenCallTyped, ScreenCall
<1>1. ASSUME calls'["screen"] \in {calls["screen"], None} PROVE ScreenCallTyped'
  BY <1>0, <1>1 DEF ScreenCallTyped
<1>2. ASSUME UNCHANGED calls PROVE ScreenCallTyped'
  BY <1>1, <1>2
<1>3. ASSUME NEW slot \in Forms, NEW call, calls' = [calls EXCEPT ![slot] = call]
      PROVE  ScreenCallTyped'
  BY <1>0, <1>1, <1>3 DEF Forms
<1>4. ASSUME NEW call, calls' = [calls EXCEPT !["screen"] = call],
             call \in ScreenCall(used) \cup {None}
      PROVE  ScreenCallTyped'
  BY <1>0, <1>4 DEF ScreenCallTyped
<1>5. ASSUME NEW answer \in Session!Ends, calls["screen"] # None,
             Session!Answered("screen", answer)
      PROVE  ScreenCallTyped'
  <2>1. [calls["screen"] EXCEPT !.answer = answer] \in ScreenCall(used)
    BY <1>0, <1>5 DEF ScreenCall
  <2> QED
    BY <1>4, <1>5, <2>1 DEF Session!Answered
<1>6. ASSUME NEW mode \in Forms,
             \/ Session!Submit(mode) \/ Session!SignedIn(mode) \/ Session!SignInFails(mode)
             \/ \E t \in Tokens : Session!ServeSignIn(mode, t)
      PROVE  ScreenCallTyped'
  BY <1>3, <1>6 DEF Session!Submit, Session!SignedIn, Session!SignInFails, Session!Send,
     Session!ServeSignIn
<1>7. ASSUME Session!Registered \/ Session!ServeTerms PROVE ScreenCallTyped'
  BY <1>3, <1>7 DEF Session!Registered, Session!Send, Session!ServeTerms,
     Session!Answered, Forms
<1>8. ASSUME \/ Session!CheckAnswered \/ Session!CheckFails \/ Session!ExpiryTimer
             \/ Session!ListAnswered \/ Session!ListFails \/ Session!ReloadList
             \/ \E t \in Tokens : Session!Expire(t) \/ Session!Revoke(t)
             \/ UNCHANGED Session!vars
      PROVE  ScreenCallTyped'
  BY <1>2, <1>8 DEF Session!CheckAnswered, Session!CheckFails, Session!ExpiryTimer,
     Session!ListAnswered, Session!ListFails, Session!ReloadList, Session!Expire,
     Session!Revoke, Session!vars
<1>9. ASSUME NEW op \in Session!Leaving \cup {"change"}, Session!Ask(op)
      PROVE  ScreenCallTyped'
  <2>1. Session!Call(op, stored) \in ScreenCall(used)
    BY <1>0 DEF Session!Call, ScreenCall
  <2> QED
    BY <1>4, <1>9, <2>1 DEF Session!Ask, Session!Send
<1>10. ASSUME Session!Serve PROVE ScreenCallTyped'
  <2>1. \E answer \in Session!Ends :
          Session!Answered("screen", answer) /\ calls["screen"] # None
    BY <1>10 DEF Session!Serve, Session!Waits, Session!Ends
  <2> QED
    BY <1>5, <2>1
<1>11. ASSUME Session!Concluded PROVE ScreenCallTyped'
  BY <1>4, <1>11 DEF Session!Concluded, Session!Send
<1>12. ASSUME NEW slot \in Session!Slots, Session!CallFails(slot) PROVE ScreenCallTyped'
  <2>1. calls[slot] # None /\ Session!Answered(slot, "failed") /\ "failed" \in Session!Ends
    BY <1>12 DEF Session!CallFails, Session!Ends
  <2>2. slot = "screen" \/ slot \in Forms
    BY DEF Forms
  <2> QED
    BY <1>3, <1>5, <2>1, <2>2 DEF Session!Answered
<1>13. ASSUME Session!OpenPage PROVE ScreenCallTyped'
  BY <1>1, <1>13 DEF Session!OpenPage
<1> QED
  BY <1>6, <1>7, <1>8, <1>9, <1>10, <1>11, <1>12, <1>13 DEF Session!Next, Forms

LEMMA SessionInitTyped == ASSUME Session!Init PROVE SessionTyped
<1>1. Own(restored)
  BY DEF Session!Init, Session!EmptyResource, Own, ListRow, Keys
<1> QED
  BY <1>1 DEF Session!Init, SessionTyped, CheckTyped, ServerTyped, ScreenCallTyped

LEMMA SessionStepTyped ==
    ASSUME TermsInv, SessionTyped, Session!Next \/ UNCHANGED Session!vars
    PROVE  SessionTyped'
BY CheckStepsTyped, ServerStepsTyped, ScreenStepsTyped DEF SessionTyped

LEMMA SessionTypes == ASSUME TermsInv, SessionTyped PROVE Session!TypeOK
<1>1. Session!DataFor(restored, restored.deps, FALSE) \in {None, restored.deps}
  BY DEF Session!DataFor, SessionTyped, CheckTyped, Own
<1>2. ASSUME NEW s \in Session!Slots, calls[s] # None
      PROVE  /\ calls[s].op \in Session!Slots \cup Session!Leaving \cup {"acknowledge", "change"}
             /\ calls[s].token \in used \cup {None}
  <2>1. CASE s = "screen"
    BY <1>2, <2>1 DEF SessionTyped, ScreenCallTyped, ScreenCall
  <2>2. CASE s \in Forms
    BY <1>2, <2>2 DEF TermsInv, FormCall, Forms
  <2> QED
    BY <2>1, <2>2 DEF Forms
<1> QED
  BY <1>1, <1>2 DEF TermsInv, SessionTyped, CheckTyped, ServerTyped, Session!TypeOK
=============================================================================
