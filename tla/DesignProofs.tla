---------------------------- MODULE DesignProofs ----------------------------
(***************************************************************************)
(* Proofs about a design in the visitor's hands: its stages (Configuring), *)
(* the visitor's own patterns (Patterns), its way to a project and the     *)
(* cart (Saving) and its public link (Publishing), for any designs, any    *)
(* size of the account and any number of files and requests.               *)
(***************************************************************************)
EXTENDS Visit, TLAPS, Integers, Sequences

-----------------------------------------------------------------------------
(* The public link. *)

\* The request that is out is for what the panel calls sent, and a link that is
\* shown leads there.
PublishingInv ==
    /\ DOMAIN page = {"design", "here", "phase", "link", "sent", "copy", "mark"}
    /\ page.design \in Prints /\ server \in Seq(Prints)
    /\ \/ calls = <<>>
       \/ page.sent \in Prints /\ calls = <<page.sent>> /\ page.phase = "saving"
    /\ ~page.here => calls = <<>>
    /\ page.phase = "success" =>
         /\ calls = <<>> /\ page.link \in DOMAIN server
         /\ server[page.link] = page.sent

LEMMA OneRequest ==
    ASSUME NEW S, NEW x \in S
    PROVE  <<x>> \in Seq(S) /\ Head(<<x>>) = x /\ Tail(<<x>>) = <<>>
<1>1. <<x>> \in Seq(S) /\ Len(<<x>>) = 1 /\ <<x>>[1] = x
  OBVIOUS
<1>2. Tail(<<x>>) \in Seq(S) /\ Len(Tail(<<x>>)) = 0
  BY <1>1
<1> QED
  BY <1>1, <1>2

LEMMA Joined ==
    ASSUME NEW S, NEW s \in Seq(S), NEW t \in Seq(S) PROVE s \o t \in Seq(S)
OBVIOUS

LEMMA PublishingInitKeeps == ASSUME Publishing!Init PROVE PublishingInv
<1>1. PICK d \in Prints : page = Publishing!Panel(d, FALSE, None)
  BY DEF Publishing!Init
<1> QED
  BY <1>1 DEF PublishingInv, Publishing!Init, Publishing!Panel

\* The effect of a shown link changes the mark only.
LEMMA MarkedSame ==
    ASSUME NEW p, DOMAIN p = {"design", "here", "phase", "link", "sent", "copy", "mark"}
    PROVE  LET m == Publishing!Marked(p)
           IN  /\ DOMAIN m = DOMAIN p /\ m.design = p.design /\ m.here = p.here
               /\ m.phase = p.phase /\ m.link = p.link /\ m.sent = p.sent
BY DEF Publishing!Marked

LEMMA PublishingInvariant ==
    ASSUME PublishingInv, Publishing!Next \/ UNCHANGED Publishing!vars
    PROVE  PublishingInv'
<1> USE DEF PublishingInv
<1>1. CASE UNCHANGED Publishing!vars
  BY <1>1 DEF Publishing!vars
<1>2. CASE Publishing!Submit
  <2>1. CASE UNCHANGED <<page, calls>>
    BY <1>2, <2>1 DEF Publishing!Submit
  <2>2. CASE /\ calls' = <<page.design>>
             /\ page' = [page EXCEPT !.phase = "saving", !.sent = page.design]
    BY <1>2, <2>2 DEF Publishing!Submit
  <2>3. CASE calls = <<>> /\ UNCHANGED calls /\ page' = [page EXCEPT !.phase = "error"]
    BY <1>2, <2>3 DEF Publishing!Submit
  <2> QED
    BY <1>2, <2>1, <2>2, <2>3 DEF Publishing!Submit
\* What an answer leaves, when it is about a record that is there.
<1>3. ASSUME server' \in Seq(Prints), calls # <<>>, calls' = Tail(calls),
             \/ \E record \in DOMAIN server' : Publishing!Answered(record)
             \/ page' = [page EXCEPT !.phase = "error"]
      PROVE  PublishingInv'
  <2>1. /\ calls = <<page.sent>> /\ Head(calls) = page.sent /\ calls' = <<>>
    <3>1. page.sent \in Prints /\ calls = <<page.sent>>
      BY <1>3
    <3>2. Head(<<page.sent>>) = page.sent /\ Tail(<<page.sent>>) = <<>>
      BY <3>1, OneRequest, Zenon
    <3> QED
      BY <1>3, <3>1, <3>2, Zenon
  <2>2. CASE page' = [page EXCEPT !.phase = "error"]
    BY <1>3, <2>1, <2>2
  <2>3. ASSUME NEW record \in DOMAIN server', server'[record] = Head(calls),
               page' = Publishing!Marked([page EXCEPT !.phase = "success", !.link = record])
        PROVE  PublishingInv'
    <3> DEFINE p == [page EXCEPT !.phase = "success", !.link = record]
    <3>1. /\ DOMAIN p = DOMAIN page /\ p.design = page.design /\ p.phase = "success"
          /\ p.link = record /\ p.sent = page.sent /\ p.here = page.here
      OBVIOUS
    <3> HIDE DEF p
    <3>2. page' = Publishing!Marked(p)
      BY <2>3 DEF p
    <3>3. /\ DOMAIN page' = DOMAIN page /\ page'.design = page.design
          /\ page'.phase = "success" /\ page'.link = record /\ page'.sent = page.sent
          /\ page'.here = page.here
      BY <3>1, <3>2, MarkedSame
    <3> QED
      BY <1>3, <2>1, <2>3, <3>3
  <2> QED
    BY <1>3, <2>2, <2>3 DEF Publishing!Answered
<1>4. CASE Publishing!Stores
  <2>1. Head(calls) \in Prints
    BY <1>4 DEF Publishing!Stores
  <2>2. /\ server' = Append(server, Head(calls)) /\ server' \in Seq(Prints)
        /\ Len(server') \in DOMAIN server'
    BY <1>4, <2>1 DEF Publishing!Stores
  <2> QED
    BY <1>3, <1>4, <2>2 DEF Publishing!Stores
<1>5. CASE Publishing!Fails
  BY <1>3, <1>5 DEF Publishing!Fails
<1>6. CASE Publishing!Copy \/ Publishing!Copied
  <2>1. PICK copy : page' = [page EXCEPT !.copy = copy]
    BY <1>6 DEF Publishing!Copy, Publishing!Copied
  <2> QED
    BY <1>6, <2>1 DEF Publishing!Copy, Publishing!Copied
<1>7. CASE Publishing!Leave
  <2>1. page' = Publishing!Panel(page.design, FALSE, page.mark) /\ calls' = <<>>
    BY <1>7 DEF Publishing!Leave
  <2>2. server' \in Seq(Prints)
    <3>1. CASE page.sent \in Prints /\ calls = <<page.sent>>
      <4>1. calls \in Seq(Prints)
        BY <3>1, OneRequest, Zenon
      <4>2. server' = server \/ server' = server \o calls
        BY <1>7 DEF Publishing!Leave
      <4> QED
        BY <4>1, <4>2, Joined
    <3>2. CASE calls = <<>>
      BY <1>7, <3>2 DEF Publishing!Leave
    <3> QED
      BY <3>1, <3>2
  <2> QED
    BY <2>1, <2>2 DEF Publishing!Panel
<1>8. CASE Publishing!Enter
  <2>1. PICK d \in Prints : page' = Publishing!Panel(d, TRUE, page.mark)
    BY <1>8 DEF Publishing!Enter
  <2> QED
    BY <1>8, <2>1 DEF Publishing!Enter, Publishing!Panel
<1>9. CASE Publishing!Replaced
  <2>1. PICK d \in Prints : page' = Publishing!Marked([page EXCEPT !.design = d,
                                                                   !.mark = None])
    BY <1>9 DEF Publishing!Replaced
  <2> DEFINE p == [page EXCEPT !.design = d, !.mark = None]
  <2>2. /\ DOMAIN p = DOMAIN page /\ p.design = d /\ p.phase = page.phase
        /\ p.link = page.link /\ p.sent = page.sent /\ p.here = page.here
    OBVIOUS
  <2>3. page' = Publishing!Marked(p)
    BY <2>1
  <2> HIDE DEF p
  <2>4. /\ DOMAIN page' = DOMAIN page /\ page'.design = d /\ page'.phase = page.phase
        /\ page'.link = page.link /\ page'.sent = page.sent /\ page'.here = page.here
    BY <2>2, <2>3, MarkedSame
  <2> QED
    BY <1>9, <2>4 DEF Publishing!Replaced
<1> QED
  BY <1>1, <1>2, <1>4, <1>5, <1>6, <1>7, <1>8, <1>9 DEF Publishing!Next

\* A public link that is shown leads to the design that was sent, and while it is
\* shown no request is out that could store the design again, although answers
\* are lost and the panel is left and shown again (design-save.ts 65-89, 255-272).
THEOREM LinksLeadToWhatWasSent == Spec => []LinkIsWhatWasSent
<1> DEFINE I == part = "publishing" => PublishingInv
<1>1. Init => I
  BY PublishingInitKeeps DEF Init
<1>2. I => LinkIsWhatWasSent
  BY DEF LinkIsWhatWasSent, Publishing!LinkIsWhatWasSent, PublishingInv
<1>3. I /\ [Next]_vars => I'
  <2>1. I /\ UNCHANGED vars => I'
    BY PublishingInvariant DEF vars, visit, Publishing!vars
  <2>2. I /\ Next => I'
    BY PublishingInvariant DEF Next
  <2> QED
    BY <2>1, <2>2
<1> QED
  BY <1>1, <1>2, <1>3, PTL DEF Spec

-----------------------------------------------------------------------------
(* Saving. *)

\* A link of the draft, or a design the panel knows, and its version.
Stored(link, s) ==
    /\ link.id \in DOMAIN s.projects /\ link.version \in DOMAIN s.projects[link.id]
    /\ s.projects[link.id][link.version] = link.print
Known(linked, s) ==
    /\ linked.id \in DOMAIN s.projects
    /\ \E v \in DOMAIN s.projects[linked.id] : s.projects[linked.id][v] = linked.print

Differ(versions) ==
    Len(versions) >= 1 /\ \A v \in 2 .. Len(versions) : versions[v] # versions[v - 1]

\* What the account holds: projects with versions that differ from the ones
\* before them, and a cart with one quote of a version.
Account(s) ==
    /\ DOMAIN s = {"projects", "gone", "quotes", "cart"}
    /\ s.projects \in Seq(Seq(Prints))
    /\ s.quotes \in Seq([version : Nat \X Nat, good : BOOLEAN])
    /\ s.cart \subseteq DOMAIN s.quotes
    /\ \A id \in DOMAIN s.projects : Differ(s.projects[id])
    /\ \A q, r \in s.cart : s.quotes[q].version = s.quotes[r].version => q = r

\* What the page remembers of the account.
Remembered(p, s) ==
    /\ DOMAIN p = {"design", "here", "auth", "project", "marker", "pending", "linked"}
    /\ p.design \in Prints
    /\ p.project # None => Stored(p.project, s)
    /\ p.linked # None => Known(p.linked, s)
    /\ p.marker # None => /\ p.marker.quote \in DOMAIN s.quotes
                          /\ s.quotes[p.marker.quote].version = p.marker.version

\* What the action in flight found out before its next request.
Acting(a, p, s) ==
    /\ DOMAIN a = {"kind", "print", "here", "saved", "quote", "step", "id"}
    /\ a.print \in Prints
    /\ a.step \in {"look", "version"} => a.id \in DOMAIN s.projects
    /\ a.step = "version" => s.projects[a.id][Len(s.projects[a.id])] # a.print
    /\ a.step \in {"cart", "quote", "price", "add"} =>
         Saving!Version(a.saved) \in Nat \X Nat
    /\ a.step \in {"quote", "price", "add"} =>
         \A q \in s.cart : s.quotes[q].version # Saving!Version(a.saved)
    /\ a.step = "quote" /\ p.marker # None => p.marker.version = Saving!Version(a.saved)
    /\ a.step = "add" => /\ a.quote \in DOMAIN s.quotes
                         /\ s.quotes[a.quote].version = Saving!Version(a.saved)

SavingGood(p, c, s) ==
    /\ Account(s) /\ Remembered(p, s)
    /\ DOMAIN c = {"action", "check"}
    /\ c.action # None => Acting(c.action, p, s)
    /\ c.check # None => c.check \in DOMAIN s.projects
SavingInv == SavingGood(page, calls, server)

LEMMA Appended ==
    ASSUME NEW S, NEW q \in Seq(S), NEW x \in S
    PROVE  LET r == Append(q, x)
           IN  /\ r \in Seq(S) /\ Len(q) \in Nat /\ Len(r) = Len(q) + 1
               /\ DOMAIN q = 1 .. Len(q) /\ DOMAIN r = 1 .. Len(q) + 1
               /\ \A i \in 1 .. Len(q) : r[i] = q[i]
               /\ r[Len(q) + 1] = x
OBVIOUS

LEMMA DifferStays ==
    ASSUME NEW S, NEW q \in Seq(S), Differ(q), NEW x \in S, q[Len(q)] # x
    PROVE  Differ(Append(q, x))
<1> DEFINE r == Append(q, x)
<1>1. /\ Len(q) \in Nat /\ Len(r) = Len(q) + 1 /\ r[Len(q) + 1] = x
      /\ \A i \in 1 .. Len(q) : r[i] = q[i]
  BY Appended
<1> HIDE DEF r
<1>2. ASSUME NEW v \in 2 .. Len(r) PROVE r[v] # r[v - 1]
  <2>1. CASE v = Len(q) + 1
    BY <1>1, <2>1 DEF Differ
  <2>2. CASE v \in 2 .. Len(q)
    <3>1. v \in 1 .. Len(q) /\ v - 1 \in 1 .. Len(q)
      BY <1>1, <2>2
    <3> QED
      BY <1>1, <2>2, <3>1 DEF Differ
  <2> QED
    BY <1>1, <2>1, <2>2
<1> QED
  BY <1>1, <1>2 DEF Differ, r

\* The account only grows, whatever is deleted or expires.
Grows(s, t) ==
    /\ DOMAIN s.projects \subseteq DOMAIN t.projects
    /\ \A id \in DOMAIN s.projects :
         /\ DOMAIN s.projects[id] \subseteq DOMAIN t.projects[id]
         /\ \A v \in DOMAIN s.projects[id] : t.projects[id][v] = s.projects[id][v]
    /\ DOMAIN s.quotes \subseteq DOMAIN t.quotes
    /\ \A q \in DOMAIN s.quotes : t.quotes[q].version = s.quotes[q].version

LEMMA RememberedStays ==
    ASSUME NEW p, NEW s, NEW t, Remembered(p, s), Grows(s, t) PROVE Remembered(p, t)
<1>1. p.project # None => Stored(p.project, t)
  BY DEF Remembered, Stored, Grows
<1>2. p.linked # None => Known(p.linked, t)
  BY DEF Remembered, Known, Grows
<1> QED
  BY <1>1, <1>2 DEF Remembered, Grows

\* The check of the link that begins, goes on or is dropped.
LEMMA CheckedKeeps ==
    ASSUME NEW p, NEW c, NEW s, Remembered(p, s), DOMAIN c = {"action", "check"},
           c.check # None => c.check \in DOMAIN s.projects
    PROVE  LET d == Saving!Checked(p, c)
           IN  /\ DOMAIN d = {"action", "check"} /\ d.action = c.action
               /\ d.check # None => d.check \in DOMAIN s.projects
BY DEF Saving!Checked, Saving!CheckKey, Remembered, Stored

\* The action goes on with what it knows, or ends.
LEMMA GoesKeeps ==
    ASSUME NEW p, NEW a, NEW s, DOMAIN calls = {"action", "check"},
           calls.check # None => calls.check \in DOMAIN s.projects,
           Account(s), Remembered(p, s), a # None => Acting(a, p, s),
           Saving!Goes(p, a)
    PROVE  SavingGood(page', calls', s)
<1> DEFINE c == [calls EXCEPT !.action = a]
<1>1. DOMAIN c = {"action", "check"} /\ c.action = a /\ c.check = calls.check
  OBVIOUS
<1>2. page' = p /\ calls' = Saving!Checked(p, c)
  BY DEF Saving!Goes
<1> HIDE DEF c
<1>3. /\ DOMAIN calls' = {"action", "check"} /\ calls'.action = a
      /\ calls'.check # None => calls'.check \in DOMAIN s.projects
  BY <1>1, <1>2, CheckedKeeps
<1> QED
  BY <1>2, <1>3 DEF SavingGood

\* What was saved is remembered, and the action ends or goes on to the cart.
LEMMA SavedKeeps ==
    ASSUME NEW s, NEW saved, NEW newProject, DOMAIN calls = {"action", "check"},
           calls.check # None => calls.check \in DOMAIN s.projects,
           Account(s), Remembered(page, s), calls.action # None,
           DOMAIN calls.action = {"kind", "print", "here", "saved", "quote", "step", "id"},
           calls.action.print \in Prints,
           Stored(saved, s), saved.print = calls.action.print,
           Saving!AfterSave(Saving!Remembers(saved, newProject), saved)
    PROVE  SavingGood(page', calls', s)
<1> DEFINE p == Saving!Remembers(saved, newProject)
           known == [id |-> saved.id, print |-> calls.action.print]
           marker == IF newProject THEN None ELSE page.marker
           linked == IF calls.action.here THEN known ELSE page.linked
           a == [calls.action EXCEPT !.step = "cart", !.saved = saved]
<1>1. Known(known, s)
  BY DEF Known, Stored
<1>2. marker \in {None, page.marker} /\ linked \in {known, page.linked}
  OBVIOUS
<1>3. p = [page EXCEPT !.project = saved, !.marker = marker, !.linked = linked]
  BY DEF Saving!Remembers, Saving!Now
<1>4. /\ DOMAIN a = DOMAIN calls.action /\ a.print = calls.action.print
      /\ a.step = "cart" /\ a.saved = saved
  OBVIOUS
<1> HIDE DEF known, marker, linked, a
<1>5. Remembered(p, s)
  BY <1>1, <1>2, <1>3 DEF Remembered
<1>6. Saving!Version(saved) \in Nat \X Nat
  BY DEF Saving!Version, Stored, Account
<1>7. Acting(a, p, s)
  BY <1>4, <1>6 DEF Acting
<1>8. Saving!Goes(p, None) \/ Saving!Goes(p, a)
  BY DEF Saving!AfterSave, Saving!Ends, Saving!Now, a, p
<1> HIDE DEF p
<1> QED
  BY <1>5, <1>7, <1>8, GoesKeeps

LEMMA LookKeeps == ASSUME SavingInv, Saving!Look PROVE SavingInv'
<1> USE DEF SavingInv, SavingGood
<1> DEFINE now == calls.action
           projects == server.projects
<1>1. /\ UNCHANGED server /\ now # None /\ now.step = "look"
      /\ Acting(now, page, server) /\ now.id \in DOMAIN projects
  BY DEF Saving!Look, Saving!At, Acting
<1>2. CASE now.id \in server.gone
  <2> DEFINE p == [page EXCEPT !.project = None, !.marker = None]
             a == [now EXCEPT !.step = "create"]
  <2>1. Saving!Goes(p, a)
    BY <1>2 DEF Saving!Look, Saving!Now
  <2>2. Remembered(p, server)
    BY DEF Remembered
  <2>3. DOMAIN a = DOMAIN now /\ a.print = now.print /\ a.step = "create"
    BY <1>1 DEF Acting
  <2> HIDE DEF p, a
  <2>4. Acting(a, p, server)
    BY <1>1, <2>3 DEF Acting
  <2> QED
    BY <1>1, <2>1, <2>2, <2>4, GoesKeeps
<1>3. CASE now.id \notin server.gone /\ Saving!Current(now.id) = now.print
  <2> DEFINE saved == Saving!Link(now.id, Len(projects[now.id]), now.print)
  <2>1. Saving!AfterSave(Saving!Remembers(saved, FALSE), saved)
    BY <1>3 DEF Saving!Look, Saving!Now
  <2>2. saved.id = now.id /\ saved.version = Len(projects[now.id])
        /\ saved.print = now.print
    BY DEF Saving!Link
  <2>3. projects[now.id] \in Seq(Prints) /\ Len(projects[now.id]) >= 1
    BY <1>1 DEF Account, Differ
  <2> HIDE DEF saved
  <2>4. Stored(saved, server)
    BY <1>1, <1>3, <2>2, <2>3 DEF Stored, Saving!Current
  <2>5. /\ calls.action # None /\ calls.action.print \in Prints
        /\ DOMAIN calls.action =
             {"kind", "print", "here", "saved", "quote", "step", "id"}
        /\ saved.print = calls.action.print /\ server' = server
    BY <1>1, <2>2 DEF Acting
  <2>6. SavingGood(page', calls', server)
    BY <2>1, <2>4, <2>5, SavedKeeps
  <2> QED
    BY <2>5, <2>6
<1>4. CASE now.id \notin server.gone /\ Saving!Current(now.id) # now.print
  <2> DEFINE a == [now EXCEPT !.step = "version"]
  <2>1. Saving!Goes(page, a)
    BY <1>4 DEF Saving!Look, Saving!Now
  <2>2. /\ DOMAIN a = DOMAIN now /\ a.print = now.print /\ a.step = "version"
        /\ a.id = now.id
    BY <1>1 DEF Acting
  <2> HIDE DEF a
  <2>3. Acting(a, page, server)
    BY <1>1, <1>4, <2>2 DEF Acting, Saving!Current
  <2> QED
    BY <1>1, <2>1, <2>3, GoesKeeps
<1> QED
  BY <1>2, <1>3, <1>4

\* A new version follows one that differs.
LEMMA VersionKeeps == ASSUME SavingInv, Saving!CreateVersion PROVE SavingInv'
<1> USE DEF SavingInv, SavingGood
<1> DEFINE now == calls.action  id == calls.action.id  old == server.projects
           saved == Saving!Link(id, Len(server'.projects[id]), now.print)
<1>1. /\ now # None /\ now.step = "version" /\ Acting(now, page, server)
      /\ server' = [server EXCEPT !.projects[id] = Append(@, now.print)]
      /\ \/ Saving!Goes(page, None)
         \/ Saving!AfterSave(Saving!Remembers(saved, FALSE), saved)
  BY DEF Saving!CreateVersion, Saving!At, Saving!Now, Saving!Ends
<1>2. /\ id \in DOMAIN old /\ now.print \in Prints
      /\ old[id][Len(old[id])] # now.print
  BY <1>1 DEF Acting
<1>3. old \in Seq(Seq(Prints)) /\ old[id] \in Seq(Prints) /\ Len(old[id]) >= 1
  BY <1>2 DEF Account, Differ
<1> DEFINE new == Append(old[id], now.print)
<1>4. /\ new \in Seq(Prints) /\ Len(old[id]) \in Nat /\ Len(new) = Len(old[id]) + 1
      /\ DOMAIN old[id] = 1 .. Len(old[id]) /\ DOMAIN new = 1 .. Len(old[id]) + 1
      /\ \A i \in 1 .. Len(old[id]) : new[i] = old[id][i]
      /\ new[Len(old[id]) + 1] = now.print
  BY <1>2, <1>3, Appended
<1>5. /\ DOMAIN server' = DOMAIN server /\ server'.projects = [old EXCEPT ![id] = new]
      /\ server'.quotes = server.quotes /\ server'.cart = server.cart
  BY <1>1 DEF Account
<1> HIDE DEF new
<1>6. /\ server'.projects \in Seq(Seq(Prints)) /\ DOMAIN server'.projects = DOMAIN old
      /\ \A i \in DOMAIN old : server'.projects[i] = IF i = id THEN new ELSE old[i]
  BY <1>2, <1>3, <1>4, <1>5
<1>7. Account(server')
  <2>1. ASSUME NEW i \in DOMAIN server'.projects
        PROVE  Differ(server'.projects[i])
    <3>1. CASE i = id
      BY <1>2, <1>3, <1>6, <3>1, DifferStays DEF Account, new
    <3>2. CASE i # id
      BY <1>6, <3>2 DEF Account
    <3> QED
      BY <3>1, <3>2
  <2> QED
    BY <1>5, <1>6, <2>1 DEF Account
<1>8. Grows(server, server')
  <2>1. ASSUME NEW i \in DOMAIN old
        PROVE  /\ DOMAIN old[i] \subseteq DOMAIN server'.projects[i]
               /\ \A v \in DOMAIN old[i] : server'.projects[i][v] = old[i][v]
    <3>1. CASE i = id
      <4>1. server'.projects[i] = new
        BY <1>6, <3>1
      <4> QED
        BY <1>4, <3>1, <4>1
    <3>2. CASE i # id
      BY <1>6, <3>2
    <3> QED
      BY <3>1, <3>2
  <2> QED
    BY <1>5, <1>6, <2>1 DEF Grows
<1>9. /\ Remembered(page, server')
      /\ calls.check # None => calls.check \in DOMAIN server'.projects
  BY <1>6, <1>8, RememberedStays
<1>10. Stored(saved, server') /\ saved.print = now.print
  <2>1. saved.id = id /\ saved.version = Len(new) /\ saved.print = now.print
    BY <1>2, <1>6 DEF Saving!Link
  <2> QED
    BY <1>2, <1>4, <1>6, <2>1 DEF Stored
<1> HIDE DEF saved
<1>11. /\ DOMAIN calls = {"action", "check"} /\ calls.action # None
       /\ DOMAIN calls.action =
            {"kind", "print", "here", "saved", "quote", "step", "id"}
       /\ calls.action.print \in Prints /\ saved.print = calls.action.print
  BY <1>1, <1>10 DEF Acting
<1> HIDE DEF SavingInv, SavingGood
<1>12. CASE Saving!Goes(page, None)
  BY <1>7, <1>9, <1>11, <1>12, GoesKeeps DEF SavingInv
<1>13. CASE Saving!AfterSave(Saving!Remembers(saved, FALSE), saved)
  BY <1>7, <1>9, <1>10, <1>11, <1>13, SavedKeeps DEF SavingInv
<1> QED
  BY <1>1, <1>12, <1>13

LEMMA ProjectKeeps == ASSUME SavingInv, Saving!CreateProject PROVE SavingInv'
<1> USE DEF SavingInv, SavingGood
<1> DEFINE now == calls.action  old == server.projects  first == <<now.print>>
           saved == Saving!Link(Len(server'.projects), 1, now.print)
<1>1. /\ now # None /\ Acting(now, page, server)
      /\ server' = [server EXCEPT !.projects = Append(@, first)]
      /\ \/ Saving!Goes(page, None)
         \/ Saving!AfterSave(Saving!Remembers(saved, TRUE), saved)
  BY DEF Saving!CreateProject, Saving!At, Saving!Now, Saving!Ends
<1>2. now.print \in Prints /\ old \in Seq(Seq(Prints))
  BY <1>1 DEF Acting, Account
<1>3. /\ first \in Seq(Prints) /\ Len(first) = 1 /\ DOMAIN first = 1 .. 1
      /\ first[1] = now.print
  BY <1>2
<1> HIDE DEF first
<1> DEFINE new == Append(old, first)
<1>4. /\ new \in Seq(Seq(Prints)) /\ Len(old) \in Nat /\ Len(new) = Len(old) + 1
      /\ DOMAIN old = 1 .. Len(old) /\ DOMAIN new = 1 .. Len(old) + 1
      /\ \A i \in 1 .. Len(old) : new[i] = old[i]
      /\ new[Len(old) + 1] = first
  BY <1>2, <1>3, Appended
<1>5. /\ DOMAIN server' = DOMAIN server /\ server'.projects = new
      /\ server'.quotes = server.quotes /\ server'.cart = server.cart
  BY <1>1 DEF Account
<1> HIDE DEF new
<1>6. Account(server')
  <2>1. ASSUME NEW i \in DOMAIN new
        PROVE  Differ(new[i])
    <3>1. CASE i \in DOMAIN old
      BY <1>4, <3>1 DEF Account
    <3>2. CASE i \notin DOMAIN old
      <4>1. new[i] = first
        BY <1>4, <3>2
      <4>2. Differ(first)
        BY <1>3 DEF Differ
      <4> QED
        BY <4>1, <4>2
    <3> QED
      BY <3>1, <3>2
  <2> QED
    BY <1>4, <1>5, <2>1 DEF Account
<1>7. Grows(server, server')
  BY <1>4, <1>5 DEF Grows
<1>8. /\ Remembered(page, server')
      /\ calls.check # None => calls.check \in DOMAIN server'.projects
  BY <1>4, <1>5, <1>7, RememberedStays
<1>9. Stored(saved, server') /\ saved.print = now.print
  <2>1. saved.id = Len(new) /\ saved.version = 1 /\ saved.print = now.print
    BY <1>5 DEF Saving!Link
  <2> QED
    BY <1>3, <1>4, <1>5, <2>1 DEF Stored
<1> HIDE DEF saved
<1>10. /\ DOMAIN calls = {"action", "check"} /\ calls.action # None
       /\ DOMAIN calls.action =
            {"kind", "print", "here", "saved", "quote", "step", "id"}
       /\ calls.action.print \in Prints /\ saved.print = calls.action.print
  BY <1>1, <1>9 DEF Acting
<1> HIDE DEF SavingInv, SavingGood
<1>11. CASE Saving!Goes(page, None)
  BY <1>6, <1>8, <1>10, <1>11, GoesKeeps DEF SavingInv
<1>12. CASE Saving!AfterSave(Saving!Remembers(saved, TRUE), saved)
  BY <1>6, <1>8, <1>9, <1>10, <1>12, SavedKeeps DEF SavingInv
<1> QED
  BY <1>1, <1>11, <1>12

\* A quote is priced for the saved version, and is added once.
LEMMA CartStepsKeep ==
    ASSUME SavingInv, Saving!LookAtCart \/ Saving!ReuseQuote PROVE SavingInv'
<1> DEFINE now == calls.action
<1>1. /\ Account(server) /\ Remembered(page, server) /\ DOMAIN calls = {"action", "check"}
      /\ now # None /\ Acting(now, page, server) /\ server' = server
      /\ calls.check # None => calls.check \in DOMAIN server.projects
      /\ now.step \in {"cart", "quote"}
  BY DEF Saving!LookAtCart, Saving!ReuseQuote, Saving!At, SavingInv, SavingGood
<1>2. ASSUME NEW a, Acting(a, page, server), Saving!Goes(page, a) PROVE SavingInv'
  BY <1>1, <1>2, GoesKeeps DEF SavingInv
<1>3. CASE Saving!Goes(page, None)
  BY <1>1, <1>3, GoesKeeps DEF SavingInv
<1>4. CASE Saving!LookAtCart /\ ~Saving!InCart(Saving!Version(now.saved))
  <2> DEFINE step == IF page.marker # None /\ page.marker.version = Saving!Version(now.saved)
                     THEN "quote" ELSE "price"
             a == [now EXCEPT !.step = step]
  <2>1. Saving!Goes(page, a)
    BY <1>4 DEF Saving!LookAtCart, Saving!Now
  <2>2. /\ step \in {"quote", "price"}
        /\ step = "quote" => page.marker.version = Saving!Version(now.saved)
    OBVIOUS
  <2> HIDE DEF step
  <2>3. /\ DOMAIN a = DOMAIN now /\ a.print = now.print /\ a.step = step
        /\ a.saved = now.saved
    BY <1>1 DEF Acting
  <2> HIDE DEF a
  <2>4. \A q \in server.cart : server.quotes[q].version # Saving!Version(now.saved)
    BY <1>4 DEF Saving!InCart
  <2>5. now.step = "cart"
    BY <1>4 DEF Saving!LookAtCart, Saving!At
  <2>6. Saving!Version(a.saved) = Saving!Version(now.saved)
    BY <2>3
  <2>7. Acting(a, page, server)
    BY <1>1, <2>2, <2>3, <2>4, <2>5, <2>6 DEF Acting
  <2> QED
    BY <1>2, <2>1, <2>7
<1>5. CASE Saving!ReuseQuote
  <2> DEFINE a == [now EXCEPT !.step = "add", !.quote = page.marker.quote]
             b == [now EXCEPT !.step = "price"]
  <2>1. /\ Saving!Goes(page, a) \/ Saving!Goes(page, b)
        /\ now.step = "quote" /\ page.marker # None
    BY <1>5 DEF Saving!ReuseQuote, Saving!Now, Saving!At
  <2>2. /\ DOMAIN a = DOMAIN now /\ a.print = now.print /\ a.step = "add"
        /\ a.saved = now.saved /\ a.quote = page.marker.quote
        /\ DOMAIN b = DOMAIN now /\ b.print = now.print /\ b.step = "price"
        /\ b.saved = now.saved
    BY <1>1 DEF Acting
  <2> HIDE DEF a, b
  <2>3. /\ Saving!Version(a.saved) = Saving!Version(now.saved)
        /\ Saving!Version(b.saved) = Saving!Version(now.saved)
    BY <2>2
  <2>4. /\ page.marker.quote \in DOMAIN server.quotes
        /\ server.quotes[page.marker.quote].version = Saving!Version(now.saved)
    BY <1>1, <2>1 DEF Remembered, Acting
  <2>5. Acting(a, page, server)
    BY <1>1, <2>1, <2>2, <2>3, <2>4 DEF Acting
  <2>6. Acting(b, page, server)
    BY <1>1, <2>1, <2>2, <2>3 DEF Acting
  <2> QED
    BY <1>2, <2>1, <2>5, <2>6
<1> QED
  BY <1>3, <1>4, <1>5 DEF Saving!LookAtCart, Saving!Ends, Saving!Now

LEMMA QuoteKeeps == ASSUME SavingInv, Saving!CreateQuote PROVE SavingInv'
<1> DEFINE now == calls.action  version == Saving!Version(calls.action.saved)
           quote == Len(server.quotes) + 1
           row == [version |-> version, good |-> TRUE]
           mark == [version |-> version, quote |-> quote]
           p == [page EXCEPT !.marker = mark]
           a == [now EXCEPT !.step = "add", !.quote = quote]
<1>1. /\ Account(server) /\ Remembered(page, server) /\ DOMAIN calls = {"action", "check"}
      /\ now # None /\ Acting(now, page, server)
      /\ calls.check # None => calls.check \in DOMAIN server.projects
      /\ now.step = "price"
      /\ server' = [server EXCEPT !.quotes = Append(@, row)]
      /\ Saving!Goes(page, None) \/ Saving!Goes(p, a)
  BY DEF Saving!CreateQuote, Saving!At, Saving!Now, Saving!Ends, SavingInv, SavingGood
<1>2. /\ version \in Nat \X Nat /\ row \in [version : Nat \X Nat, good : BOOLEAN]
      /\ row.version = version
      /\ \A q \in server.cart : server.quotes[q].version # version
  BY <1>1 DEF Acting
<1> DEFINE new == Append(server.quotes, row)  old == server.quotes
           Rows == [version : Nat \X Nat, good : BOOLEAN]
<1>3. /\ new \in Seq(Rows)
      /\ Len(old) \in Nat /\ DOMAIN old = 1 .. Len(old)
      /\ DOMAIN new = 1 .. quote /\ \A i \in 1 .. Len(old) : new[i] = old[i]
      /\ new[quote] = row
  <2>1. old \in Seq(Rows) /\ row \in Rows
    BY <1>1, <1>2 DEF Account
  <2>2. quote = Len(old) + 1 /\ new = Append(old, row)
    OBVIOUS
  <2> HIDE DEF row, old, new, quote, Rows
  <2> QED
    BY <2>1, <2>2, Appended
<1>4. /\ DOMAIN server' = DOMAIN server /\ server'.projects = server.projects
      /\ server'.quotes = new /\ server'.cart = server.cart
  BY <1>1 DEF Account
<1>5. /\ mark.version = version /\ mark.quote = quote
      /\ DOMAIN a = DOMAIN now /\ a.print = now.print /\ a.step = "add"
      /\ a.saved = now.saved /\ a.quote = quote
  BY <1>1 DEF Acting
<1>6. DOMAIN p = DOMAIN page /\ p.design = page.design /\ p.project = page.project
      /\ p.linked = page.linked /\ p.marker = mark
  BY <1>1 DEF Remembered
<1> HIDE DEF new, row, mark, p, a, quote
<1>7. quote \in DOMAIN new /\ new[quote].version = version
  BY <1>2, <1>3 DEF quote
<1>8. DOMAIN old \subseteq DOMAIN new /\ \A i \in DOMAIN old : new[i] = old[i]
  <2>1. Len(old) \in Nat /\ quote = Len(old) + 1
    BY <1>3 DEF quote
  <2>2. 1 .. Len(old) \subseteq 1 .. quote
    BY <2>1
  <2> HIDE DEF old, Rows
  <2> QED
    BY <1>3, <2>2
<1>9. Grows(server, server')
  BY <1>4, <1>8 DEF Grows
<1>10. Account(server')
  <2>1. server'.cart \subseteq DOMAIN old /\ DOMAIN old \subseteq DOMAIN new
    BY <1>1, <1>4, <1>8 DEF Account
  <2>2. \A q \in server'.cart : new[q].version = old[q].version
    BY <1>8, <2>1
  <2>3. \A q, r \in server'.cart : old[q].version = old[r].version => q = r
    BY <1>1, <1>4 DEF Account
  <2>4. \A q, r \in server'.cart : new[q].version = new[r].version => q = r
    BY <2>2, <2>3
  <2>5. /\ DOMAIN server' = {"projects", "gone", "quotes", "cart"}
        /\ server'.projects \in Seq(Seq(Prints))
        /\ \A id \in DOMAIN server'.projects : Differ(server'.projects[id])
    BY <1>1, <1>4 DEF Account
  <2> HIDE DEF old
  <2> QED
    BY <1>3, <1>4, <2>1, <2>4, <2>5 DEF Account
<1>11. Remembered(page, server')
  BY <1>1, <1>9, RememberedStays
<1>12. Remembered(p, server')
  BY <1>4, <1>5, <1>6, <1>7, <1>11 DEF Remembered
<1>13. Saving!Version(a.saved) = version
  BY <1>5
<1>14. Acting(a, p, server')
  <2>1. \A q \in server'.cart : server'.quotes[q].version # version
    BY <1>1, <1>2, <1>4, <1>8 DEF Account
  <2> QED
    BY <1>1, <1>2, <1>4, <1>5, <1>7, <1>13, <2>1 DEF Acting
<1> HIDE DEF version
<1> QED
  BY <1>1, <1>4, <1>10, <1>11, <1>12, <1>14, GoesKeeps DEF SavingInv

LEMMA AddKeeps == ASSUME SavingInv, Saving!AddQuote PROVE SavingInv'
<1> DEFINE now == calls.action
<1>1. /\ Account(server) /\ Remembered(page, server) /\ DOMAIN calls = {"action", "check"}
      /\ now # None /\ Acting(now, page, server) /\ now.step = "add"
      /\ calls.check # None => calls.check \in DOMAIN server.projects
      /\ server' = [server EXCEPT !.cart = @ \cup {now.quote}]
      /\ Saving!Goes(page, None)
  BY DEF Saving!AddQuote, Saving!At, Saving!Now, Saving!Ends, SavingInv, SavingGood
<1>2. /\ DOMAIN server' = DOMAIN server /\ server'.projects = server.projects
      /\ server'.quotes = server.quotes /\ server'.cart = server.cart \cup {now.quote}
  BY <1>1 DEF Account
<1>3. /\ now.quote \in DOMAIN server.quotes
      /\ \A q \in server.cart : server.quotes[q].version # server.quotes[now.quote].version
  BY <1>1 DEF Acting
<1>4. Account(server')
  BY <1>1, <1>2, <1>3 DEF Account
<1>5. Remembered(page, server')
  BY <1>1, <1>2 DEF Remembered, Stored, Known
<1> QED
  BY <1>1, <1>2, <1>4, <1>5, GoesKeeps DEF SavingInv

-----------------------------------------------------------------------------
(* What happens besides the action. *)

\* An action goes on with a page that forgot its marker, or another page.
LEMMA ActingStays ==
    ASSUME NEW a, NEW p, NEW q, NEW s, Acting(a, p, s), q.marker \in {None, p.marker}
    PROVE  Acting(a, q, s)
BY DEF Acting

\* The panel is left: its action goes on unheard.
LEMMA AwayKeeps ==
    ASSUME SavingInv, NEW q, Remembered(q, server), q.marker \in {None, page.marker},
           page' = Saving!Away(q), calls' = Saving!AwayCalls, server' = server
    PROVE  SavingInv'
<1> DEFINE a == IF calls.action = None THEN None ELSE [calls.action EXCEPT !.here = FALSE]
           p == Saving!Away(q)
<1>1. DOMAIN calls = {"action", "check"}
      /\ (calls.action # None => Acting(calls.action, page, server))
  BY DEF SavingInv, SavingGood
<1>2. calls' = [calls EXCEPT !.check = None, !.action = a]
  BY DEF Saving!AwayCalls
<1>3. ASSUME calls.action # None PROVE Acting(a, q, server)
  <2>1. Acting(calls.action, q, server)
    BY <1>1, <1>3, ActingStays
  <2>2. a = [calls.action EXCEPT !.here = FALSE]
    BY <1>3
  <2> HIDE DEF a
  <2>3. /\ DOMAIN a = DOMAIN calls.action /\ a.print = calls.action.print
        /\ a.step = calls.action.step /\ a.id = calls.action.id
        /\ a.saved = calls.action.saved /\ a.quote = calls.action.quote
    BY <2>1, <2>2 DEF Acting
  <2>4. Saving!Version(a.saved) = Saving!Version(calls.action.saved)
    BY <2>3
  <2> QED
    BY <2>1, <2>3, <2>4 DEF Acting
<1>4. calls.action = None => a = None
  OBVIOUS
<1> HIDE DEF a
<1>5. DOMAIN calls' = {"action", "check"} /\ calls'.check = None /\ calls'.action = a
  BY <1>1, <1>2
<1>6. /\ DOMAIN p = DOMAIN q /\ p.design = q.design /\ p.project = q.project
      /\ p.marker = q.marker /\ p.linked = None
  BY DEF Saving!Away, Remembered
<1> HIDE DEF p
<1>7. Remembered(p, server)
  BY <1>6 DEF Remembered
<1>8. a # None => Acting(a, p, server)
  BY <1>3, <1>4, <1>6, ActingStays
<1>9. Account(server)
  BY DEF SavingInv, SavingGood
<1> QED
  BY <1>5, <1>7, <1>8, <1>9 DEF SavingInv, SavingGood, p

\* The page changes and the check of the link follows.
LEMMA PageKeeps ==
    ASSUME SavingInv, NEW q, NEW c, Remembered(q, server), q.marker \in {None, page.marker},
           DOMAIN c = {"action", "check"}, c.check \in {None, calls.check},
           c.action # None => Acting(c.action, page, server),
           page' = q, calls' = Saving!Checked(q, c), server' = server
    PROVE  SavingInv'
<1>1. Account(server) /\ (calls.check # None => calls.check \in DOMAIN server.projects)
  BY DEF SavingInv, SavingGood
<1>2. /\ DOMAIN calls' = {"action", "check"} /\ calls'.action = c.action
      /\ calls'.check # None => calls'.check \in DOMAIN server.projects
  BY <1>1, CheckedKeeps
<1>3. c.action # None => Acting(c.action, q, server)
  BY ActingStays
<1> QED
  BY <1>1, <1>2, <1>3 DEF SavingInv, SavingGood

\* run() begins an action unless one is in flight.
LEMMA RunKeeps ==
    ASSUME NEW kind, NEW q, NEW s, Remembered(q, s), SavingInv, server = s,
           q.marker \in {None, page.marker}
    PROVE  LET c == Saving!Run(kind, q, calls)
           IN  /\ DOMAIN c = {"action", "check"} /\ c.check = calls.check
               /\ c.action # None => Acting(c.action, q, s)
<1>1. /\ DOMAIN calls = {"action", "check"}
      /\ calls.action # None => Acting(calls.action, page, s)
  BY DEF SavingInv, SavingGood
<1>2. CASE calls.action # None
  BY <1>1, <1>2, ActingStays DEF Saving!Run
<1>3. CASE calls.action = None
  <2> DEFINE a == Saving!Began(kind, q)
  <2>1. /\ DOMAIN a = {"kind", "print", "here", "saved", "quote", "step", "id"}
        /\ a.print = q.design
        /\ a.step = IF q.project = None THEN "create" ELSE "look"
        /\ a.step = "look" => a.id = q.project.id
    BY DEF Saving!Began
  <2>2. Saving!Run(kind, q, calls) = [calls EXCEPT !.action = a]
    BY <1>3 DEF Saving!Run
  <2> HIDE DEF a
  <2>3. Acting(a, q, s)
    BY <2>1 DEF Acting, Remembered, Stored
  <2> QED
    BY <1>1, <2>2, <2>3
<1> QED
  BY <1>2, <1>3

\* The panel shows with a session: what was asked for before it is taken.
LEMMA ResumedKeeps ==
    ASSUME SavingInv, NEW q, Remembered(q, server), q.marker = page.marker,
           Saving!Resumed(q, calls), server' = server
    PROVE  SavingInv'
<1>1. /\ DOMAIN calls = {"action", "check"}
      /\ calls.action # None => Acting(calls.action, page, server)
  BY DEF SavingInv, SavingGood
<1>2. CASE page' = q /\ calls' = Saving!Checked(q, calls)
  BY <1>1, <1>2, PageKeeps
<1> DEFINE taken == [q EXCEPT !.pending = None]
           c == IF q.pending.print = q.design THEN Saving!Run(q.pending.kind, q, calls)
                ELSE calls
<1>3. CASE page' = taken /\ calls' = Saving!Checked(taken, c)
  <2>1. /\ DOMAIN c = {"action", "check"} /\ c.check = calls.check
        /\ c.action # None => Acting(c.action, q, server)
    BY <1>1, RunKeeps, ActingStays
  <2>2. /\ DOMAIN taken = DOMAIN q /\ taken.design = q.design /\ taken.marker = q.marker
        /\ taken.project = q.project /\ taken.linked = q.linked
    BY DEF Remembered
  <2> HIDE DEF taken, c
  <2>3. Remembered(taken, server)
    BY <2>2 DEF Remembered
  <2>4. c.action # None => Acting(c.action, page, server)
    BY <2>1, ActingStays
  <2> QED
    BY <1>3, <2>1, <2>2, <2>3, <2>4, PageKeeps
<1> QED
  BY <1>2, <1>3 DEF Saving!Resumed

\* Clicks, edits, sign-ins and sign-outs.
LEMMA VisitorKeeps ==
    ASSUME SavingInv,
           \/ \E kind \in Saving!Kinds : Saving!Start(kind)
           \/ Saving!ContinueAsGuest \/ Saving!LeaveReview \/ Saving!EnterReview
           \/ Saving!Edit \/ Saving!SessionChecked \/ Saving!SignIn
           \/ Saving!SessionEnds \/ Saving!SignOut \/ Saving!StartNew
    PROVE  SavingInv'
<1>1. /\ server' = server /\ Remembered(page, server) /\ DOMAIN calls = {"action", "check"}
      /\ calls.action # None => Acting(calls.action, page, server)
  BY DEF Saving!Start, Saving!ContinueAsGuest, Saving!LeaveReview, Saving!EnterReview,
         Saving!Edit, Saving!SessionChecked, Saving!SignIn, Saving!SessionEnds,
         Saving!SignOut, Saving!StartNew, SavingInv, SavingGood
\* A page that keeps its links.
<1>2. ASSUME NEW q, DOMAIN q = DOMAIN page, q.design \in Prints, q.project = page.project,
             q.marker = page.marker, q.linked = page.linked
      PROVE  Remembered(q, server)
  BY <1>1, <1>2 DEF Remembered
<1>3. ASSUME NEW here, NEW auth, NEW pending, NEW q,
             q = [page EXCEPT !.here = here, !.auth = auth, !.pending = pending]
      PROVE  Remembered(q, server) /\ q.marker = page.marker
  <2>1. /\ DOMAIN q = DOMAIN page /\ q.design \in Prints /\ q.project = page.project
        /\ q.marker = page.marker /\ q.linked = page.linked
    BY <1>1, <1>3 DEF Remembered
  <2> QED
    BY <1>2, <2>1
<1>4. ASSUME NEW q, Remembered(q, server), q.marker = page.marker, page' = q,
             UNCHANGED calls
      PROVE  SavingInv'
  BY <1>1, <1>4, ActingStays DEF SavingInv, SavingGood
<1>5. ASSUME NEW kind, Saving!Start(kind) PROVE SavingInv'
  <2>1. CASE page' = page /\ calls' = Saving!Run(kind, page, calls)
    <3>1. /\ DOMAIN calls' = {"action", "check"} /\ calls'.check = calls.check
          /\ calls'.action # None => Acting(calls'.action, page, server)
      BY <1>1, <2>1, RunKeeps
    <3> QED
      BY <1>1, <2>1, <3>1 DEF SavingInv, SavingGood
  <2>2. ASSUME NEW pending, page' = [page EXCEPT !.pending = pending], UNCHANGED calls
        PROVE  SavingInv'
    <3>1. /\ DOMAIN page' = DOMAIN page /\ page'.design \in Prints
          /\ page'.project = page.project
          /\ page'.marker = page.marker /\ page'.linked = page.linked
      BY <1>1, <2>2 DEF Remembered
    <3> QED
      BY <1>2, <1>4, <2>2, <3>1
  <2> QED
    BY <1>5, <2>1, <2>2 DEF Saving!Start
<1>6. CASE Saving!ContinueAsGuest \/ Saving!Edit
  <2>1. /\ DOMAIN page' = DOMAIN page /\ page'.design \in Prints
        /\ page'.project = page.project
        /\ page'.marker = page.marker /\ page'.linked = page.linked
    BY <1>1, <1>6 DEF Saving!ContinueAsGuest, Saving!Edit, Remembered
  <2>2. UNCHANGED calls
    BY <1>6 DEF Saving!ContinueAsGuest, Saving!Edit
  <2> QED
    BY <1>2, <1>4, <2>1, <2>2
<1>7. CASE Saving!LeaveReview
  BY <1>1, <1>7, AwayKeeps DEF Saving!LeaveReview
<1>8. CASE Saving!EnterReview \/ Saving!SessionChecked \/ Saving!SignIn
  <2>1. PICK q : /\ Saving!Resumed(q, calls)
                 /\ \/ q = [page EXCEPT !.here = TRUE]
                    \/ \E auth : q = [page EXCEPT !.auth = auth]
    BY <1>8 DEF Saving!EnterReview, Saving!SessionChecked, Saving!SignIn
  <2>2. /\ DOMAIN q = DOMAIN page /\ q.design \in Prints /\ q.project = page.project
        /\ q.marker = page.marker /\ q.linked = page.linked
    BY <1>1, <2>1 DEF Remembered
  <2> QED
    BY <1>1, <1>2, <2>1, <2>2, ResumedKeeps
<1>9. CASE Saving!SessionEnds
  <2> DEFINE q == [page EXCEPT !.auth = "guest"]
  <2>1. /\ DOMAIN q = DOMAIN page /\ q.design \in Prints /\ q.project = page.project
        /\ q.marker = page.marker /\ q.linked = page.linked
    BY <1>1 DEF Remembered
  <2>2. page' = q /\ calls' = Saving!Checked(q, calls)
    BY <1>9 DEF Saving!SessionEnds
  <2> HIDE DEF q
  <2> QED
    BY <1>1, <1>2, <2>1, <2>2, PageKeeps
\* A page that is not linked any more.
<1>10. ASSUME NEW q, DOMAIN q = DOMAIN page, q.design = page.design, q.project = None,
              q.marker = None, q.linked = page.linked
       PROVE  Remembered(q, server)
  BY <1>1, <1>10 DEF Remembered
<1>11. CASE Saving!SignOut \/ Saving!StartNew
  <2>1. PICK q : /\ \/ q = Saving!Unlinked(page)
                    \/ q = [Saving!Unlinked(page) EXCEPT !.auth = "out"]
                 /\ \/ page' = q /\ calls' = Saving!Checked(q, calls)
                    \/ page' = Saving!Away(q) /\ calls' = Saving!AwayCalls
    BY <1>11 DEF Saving!SignOut, Saving!StartNew
  <2>2. /\ DOMAIN q = DOMAIN page /\ q.design = page.design /\ q.project = None
        /\ q.marker = None /\ q.linked = page.linked
    BY <1>1, <2>1 DEF Saving!Unlinked, Remembered
  <2>3. Remembered(q, server)
    BY <1>10, <2>2
  <2>4. CASE page' = q /\ calls' = Saving!Checked(q, calls)
    BY <1>1, <2>2, <2>3, <2>4, PageKeeps
  <2>5. CASE page' = Saving!Away(q) /\ calls' = Saving!AwayCalls
    BY <1>1, <2>2, <2>3, <2>5, AwayKeeps
  <2> QED
    BY <2>1, <2>4, <2>5
<1> QED
  BY <1>5, <1>6, <1>7, <1>8, <1>9, <1>11

\* The check of the link is answered, an action fails, the page is loaded again.
LEMMA AnswersKeep ==
    ASSUME SavingInv,
           Saving!LinkChecked \/ Saving!CheckFails \/ Saving!ActionFails \/ Saving!Reload
    PROVE  SavingInv'
<1>1. /\ server' = server /\ Account(server) /\ Remembered(page, server)
      /\ DOMAIN calls = {"action", "check"}
      /\ calls.action # None => Acting(calls.action, page, server)
      /\ calls.check # None => calls.check \in DOMAIN server.projects
  BY DEF Saving!LinkChecked, Saving!CheckFails, Saving!ActionFails, Saving!Reload,
         SavingInv, SavingGood
<1>2. CASE Saving!LinkChecked
  <2> DEFINE id == calls.check
             linked == [id |-> id, print |-> Saving!Current(id)]
             p == IF id \in server.gone THEN [page EXCEPT !.project = None, !.marker = None]
                  ELSE [page EXCEPT !.linked = linked]
             c == [calls EXCEPT !.check = None]
  <2>1. /\ page' = p /\ calls' = Saving!Checked(p, c) /\ id # None
    BY <1>2 DEF Saving!LinkChecked
  <2>2. DOMAIN c = DOMAIN calls /\ c.check = None /\ c.action = calls.action
    BY <1>1
  <2>3. Known(linked, server)
    <3>1. /\ id \in DOMAIN server.projects /\ server.projects[id] \in Seq(Prints)
          /\ Len(server.projects[id]) >= 1
      BY <1>1, <2>1 DEF Account, Differ
    <3>2. Len(server.projects[id]) \in DOMAIN server.projects[id]
      BY <3>1
    <3>3. linked.id = id /\ linked.print = server.projects[id][Len(server.projects[id])]
      BY DEF Saving!Current
    <3> QED
      BY <3>1, <3>2, <3>3 DEF Known
  <2> HIDE DEF linked
  <2>4. /\ DOMAIN p = DOMAIN page /\ p.design = page.design
        /\ \/ p.project = None /\ p.marker = None /\ p.linked = page.linked
           \/ p.project = page.project /\ p.marker = page.marker /\ p.linked = linked
    BY <1>1 DEF Remembered
  <2> HIDE DEF p, c
  <2>5. Remembered(p, server) /\ p.marker \in {None, page.marker}
    BY <1>1, <2>3, <2>4 DEF Remembered
  <2> QED
    BY <1>1, <2>1, <2>2, <2>5, PageKeeps
<1>3. CASE Saving!CheckFails
  BY <1>1, <1>3 DEF Saving!CheckFails, SavingInv, SavingGood
<1>4. CASE Saving!ActionFails
  BY <1>1, <1>4, GoesKeeps DEF Saving!ActionFails, Saving!Ends, SavingInv
<1>5. CASE Saving!Reload
  <2> DEFINE p == [Saving!Away(page) EXCEPT !.auth = "initializing"]
  <2>1. page' = p /\ calls' = Saving!NoCalls
    BY <1>5 DEF Saving!Reload
  <2>2. /\ DOMAIN p = DOMAIN page /\ p.design = page.design /\ p.project = page.project
        /\ p.marker = page.marker /\ p.linked = None
    BY <1>1 DEF Saving!Away, Remembered
  <2> HIDE DEF p
  <2>3. Remembered(p, server)
    BY <1>1, <2>2 DEF Remembered
  <2> QED
    BY <1>1, <2>1, <2>3 DEF Saving!NoCalls, SavingInv, SavingGood
<1> QED
  BY <1>2, <1>3, <1>4, <1>5

\* What happens elsewhere takes from the account and adds nothing.
LEMMA ElsewhereKeeps == ASSUME SavingInv, Saving!Elsewhere PROVE SavingInv'
<1>1. /\ UNCHANGED <<page, calls>> /\ Account(server) /\ Remembered(page, server)
      /\ DOMAIN calls = {"action", "check"}
      /\ calls.action # None => Acting(calls.action, page, server)
      /\ calls.check # None => calls.check \in DOMAIN server.projects
  BY DEF Saving!Elsewhere, SavingInv, SavingGood
<1>2. /\ DOMAIN server' = DOMAIN server /\ server'.projects = server.projects
      /\ server'.cart \subseteq server.cart
      /\ \/ server'.quotes = server.quotes
         \/ \E q \in DOMAIN server.quotes :
              server'.quotes = [server.quotes EXCEPT ![q].good = FALSE]
  BY <1>1 DEF Saving!Elsewhere, Account
<1> DEFINE old == server.quotes  new == server'.quotes
           Rows == [version : Nat \X Nat, good : BOOLEAN]
<1>3. old \in Seq(Rows)
  BY <1>1 DEF Account
<1>4. /\ new \in Seq(Rows) /\ DOMAIN new = DOMAIN old
      /\ \A q \in DOMAIN old : new[q].version = old[q].version
  <2>1. CASE new = old
    BY <1>3, <2>1
  <2>2. ASSUME NEW q \in DOMAIN old, new = [old EXCEPT ![q].good = FALSE]
        PROVE  /\ new \in Seq(Rows) /\ DOMAIN new = DOMAIN old
               /\ \A i \in DOMAIN old : new[i].version = old[i].version
    <3> DEFINE row == [old[q] EXCEPT !.good = FALSE]
    <3>1. new = [old EXCEPT ![q] = row]
      BY <2>2
    <3> HIDE DEF Rows, old, new
    <3>2. old[q] \in Rows
      BY <1>3
    <3>3. row \in Rows /\ row.version = old[q].version
      BY <3>2 DEF Rows
    <3> HIDE DEF row
    <3> QED
      BY <1>3, <3>1, <3>3
  <2> QED
    BY <1>2, <2>1, <2>2
<1>5. Account(server')
  BY <1>1, <1>2, <1>4 DEF Account
<1>6. Remembered(page, server')
  BY <1>1, <1>2, <1>4 DEF Remembered, Stored, Known
<1>7. calls.action # None => Acting(calls.action, page, server')
  BY <1>1, <1>2, <1>4 DEF Acting, Account
<1> QED
  BY <1>1, <1>2, <1>5, <1>6, <1>7 DEF SavingInv, SavingGood

LEMMA SavingInitKeeps == ASSUME Saving!Init PROVE SavingInv
<1>1. PICK d \in Prints : page =
        [design |-> d, here |-> FALSE, auth |-> "initializing", project |-> None,
         marker |-> None, pending |-> None, linked |-> None]
  BY DEF Saving!Init
<1>2. Remembered(page, server)
  BY <1>1 DEF Remembered
<1>3. /\ DOMAIN server = {"projects", "gone", "quotes", "cart"}
      /\ server.projects = <<>> /\ server.quotes = <<>> /\ server.cart = {}
  BY DEF Saving!Init
<1>4. Account(server)
  BY <1>3 DEF Account
<1> QED
  BY <1>2, <1>4 DEF Saving!Init, Saving!NoCalls, SavingInv, SavingGood

LEMMA SavingInvariant ==
    ASSUME SavingInv, Saving!Next \/ UNCHANGED Saving!vars
    PROVE  SavingInv'
<1>1. CASE UNCHANGED Saving!vars
  BY <1>1 DEF Saving!vars, SavingInv
<1> QED
  BY <1>1, LookKeeps, VersionKeeps, ProjectKeeps, CartStepsKeep, QuoteKeeps, AddKeeps,
     VisitorKeeps, AnswersKeep, ElsewhereKeeps DEF Saving!Next

LEMMA SavingShows == ASSUME SavingInv PROVE Saving!SavedIsStored /\ Saving!NothingTwice
<1>1. Account(server) /\ Remembered(page, server)
  BY DEF SavingInv, SavingGood
<1>2. Saving!SavedIsStored
  BY <1>1 DEF Saving!SavedIsStored, Saving!SavedAndUnchanged, Remembered, Stored, Known
<1>3. Saving!NothingTwice
  BY <1>1 DEF Saving!NothingTwice, Account, Differ
<1> QED
  BY <1>2, <1>3

\* What the draft and the panel call saved is in the account, as the version and
\* the design they name, although the visitor edits, leaves, signs out and comes
\* back while requests are out, and answers are lost
\* (private-project-panel.tsx 148-260, draft-links.ts 118-135).
THEOREM SavesAreStored == Spec => []SavedIsStored
<1> DEFINE I == part = "saving" => SavingInv
<1>1. Init => I
  BY SavingInitKeeps DEF Init
<1>2. I => SavedIsStored
  BY SavingShows DEF SavedIsStored
<1>3. I /\ [Next]_vars => I'
  <2>1. I /\ UNCHANGED vars => I'
    BY SavingInvariant DEF vars, visit, Saving!vars
  <2>2. I /\ Next => I'
    BY SavingInvariant DEF Next
  <2> QED
    BY <2>1, <2>2
<1> QED
  BY <1>1, <1>2, <1>3, PTL DEF Spec

\* However often the visitor asks again after a lost answer, no version is in the
\* cart twice, and no version follows one of the same design
\* (private-project-panel.tsx 175-262).
THEOREM NothingIsSavedTwice == Spec => []NothingTwice
<1> DEFINE I == part = "saving" => SavingInv
<1>1. Init => I
  BY SavingInitKeeps DEF Init
<1>2. I => NothingTwice
  BY SavingShows DEF NothingTwice
<1>3. I /\ [Next]_vars => I'
  <2>1. I /\ UNCHANGED vars => I'
    BY SavingInvariant DEF vars, visit, Saving!vars
  <2>2. I /\ Next => I'
    BY SavingInvariant DEF Next
  <2> QED
    BY <2>1, <2>2
<1> QED
  BY <1>1, <1>2, <1>3, PTL DEF Spec

-----------------------------------------------------------------------------
(* Object URLs. *)

\* Every URL is revoked once or still used: checked, the file that is shown, or
\* the picture that is shown.  No two of these are the same.
Booked(urls, checks, file, image) ==
    /\ urls \in Seq(Nat) /\ checks \subseteq DOMAIN urls
    /\ file \in DOMAIN urls \cup {None} /\ file \notin checks
    /\ image \in DOMAIN urls \cup {None} /\ image \notin checks
    /\ file = image => file = None
    /\ \A url \in DOMAIN urls :
         urls[url] = IF url \in checks \cup {file, image} THEN 0 ELSE 1

\* A file is checked or shown, and only on its stage.
UrlsKept(p, c) ==
    /\ DOMAIN p = {"stage", "signedIn", "known", "offers", "pattern", "urls", "form",
                   "list", "image"}
    /\ DOMAIN p.form = {"checking", "file", "uploading", "rights"}
    /\ DOMAIN p.image = {"source", "url", "failed"}
    /\ DOMAIN c = {"availability", "checks", "upload", "polls", "selects", "removes",
                   "restore", "image"}
    /\ Booked(p.urls, c.checks, p.form.file, p.image.url)
    /\ p.form.checking # None => p.form.file = None
    /\ p.stage # "pattern" => c.checks = {} /\ p.form.file = None

\* The picture, or the request for one, belongs to the source.
ImageKept(p, c, source) ==
    /\ p.image.url # None => p.image.source = source
    /\ c.image # None => c.image = source /\ p.image.url = None
PatternsInv == UrlsKept(page, calls) /\ ImageKept(page, calls, Patterns!Source(page))

\* What is used no more is revoked, and the books are right again.
Rest(urls, gone) == [url \in DOMAIN urls |-> IF url \in gone THEN urls[url] + 1 ELSE urls[url]]
LEMMA Revoking ==
    ASSUME NEW urls, NEW checks, NEW file, NEW image, Booked(urls, checks, file, image),
           NEW checks1 \in SUBSET checks, NEW file1 \in {file, None},
           NEW image1 \in {image, None}, NEW gone,
           \A url \in DOMAIN urls :
             url \in gone <=> /\ url \in checks \cup {file, image}
                              /\ url \notin checks1 \cup {file1, image1}
    PROVE  Booked(Rest(urls, gone), checks1, file1, image1)
<1> DEFINE new == Rest(urls, gone)
<1>1. /\ urls \in Seq(Nat) /\ DOMAIN urls = 1 .. Len(urls) /\ Len(urls) \in Nat
      /\ \A url \in DOMAIN urls : urls[url] \in Nat
  BY DEF Booked
<1>2. new \in Seq(Nat) /\ DOMAIN new = DOMAIN urls
  BY <1>1 DEF Rest
<1>3. ASSUME NEW url \in DOMAIN urls
      PROVE  new[url] = IF url \in checks1 \cup {file1, image1} THEN 0 ELSE 1
  <2>1. url # None
    BY <1>1, VisitAssumption
  <2>2. urls[url] = IF url \in checks \cup {file, image} THEN 0 ELSE 1
    BY DEF Booked
  <2>3. url \in checks1 \cup {file1, image1} => url \in checks \cup {file, image}
    BY <2>1
  <2>4. new[url] = IF url \in gone THEN urls[url] + 1 ELSE urls[url]
    BY DEF Rest
  <2> QED
    BY <2>2, <2>3, <2>4
<1>4. /\ file1 \in DOMAIN urls \cup {None} /\ file1 \notin checks1
      /\ image1 \in DOMAIN urls \cup {None} /\ image1 \notin checks1
      /\ file1 = image1 => file1 = None
      /\ checks1 \subseteq DOMAIN urls
  BY <1>1, VisitAssumption DEF Booked
<1>5. Booked(new, checks1, file1, image1)
  <2> HIDE DEF new
  <2> QED
    BY <1>2, <1>3, <1>4 DEF Booked
<1> QED
  BY <1>5

\* A file that was checked is shown.
LEMMA Showing ==
    ASSUME NEW urls, NEW checks, NEW image, Booked(urls, checks, None, image),
           NEW url \in checks
    PROVE  Booked(urls, checks \ {url}, url, image)
<1>1. url \in DOMAIN urls /\ \A u \in DOMAIN urls : u # None
  BY VisitAssumption DEF Booked
<1>2. ASSUME NEW u \in DOMAIN urls
      PROVE  u \in (checks \ {url}) \cup {url, image} <=> u \in checks \cup {None, image}
  BY <1>1
<1> QED
  BY <1>1, <1>2 DEF Booked

\* A new URL is checked, or shown as the picture.
LEMMA Creating ==
    ASSUME NEW urls, NEW checks, NEW file, NEW image, Booked(urls, checks, file, image)
    PROVE  LET new == Append(urls, 0)
               url == Len(urls) + 1
           IN  /\ Booked(new, checks \cup {url}, file, image)
               /\ image = None => Booked(new, checks, file, url)
<1> DEFINE new == Append(urls, 0)  url == Len(urls) + 1
<1>1. /\ urls \in Seq(Nat) /\ new \in Seq(Nat) /\ DOMAIN urls = 1 .. Len(urls)
      /\ DOMAIN new = 1 .. url /\ new[url] = 0 /\ Len(urls) \in Nat
      /\ \A u \in DOMAIN urls : new[u] = urls[u]
  BY Appended DEF Booked
<1> HIDE DEF new
<1>2. /\ url \notin DOMAIN urls /\ url # None /\ DOMAIN new = DOMAIN urls \cup {url}
      /\ None \notin DOMAIN urls
  BY <1>1, VisitAssumption
<1> HIDE DEF url
<1>3. url # file /\ url # image /\ url \notin checks
  BY <1>2 DEF Booked
<1>4. Booked(new, checks \cup {url}, file, image)
  BY <1>1, <1>2, <1>3 DEF Booked
<1>5. image = None => Booked(new, checks, file, url)
  BY <1>1, <1>2, <1>3 DEF Booked
<1> QED
  BY <1>4, <1>5 DEF new, url

\* Two pages that show the same URLs.
Alike(p, q) ==
    /\ DOMAIN q = DOMAIN p /\ q.urls = p.urls /\ q.stage = p.stage
    /\ DOMAIN q.form = DOMAIN p.form /\ q.form.checking = p.form.checking
    /\ q.form.file = p.form.file
    /\ DOMAIN q.image = DOMAIN p.image /\ q.image.url = p.image.url
    /\ q.image.source = p.image.source
LEMMA AlikeKeeps ==
    ASSUME NEW p, NEW c, NEW q, NEW d, UrlsKept(p, c), Alike(p, q),
           DOMAIN d = DOMAIN c, d.checks = c.checks
    PROVE  UrlsKept(q, d)
BY DEF UrlsKept, Alike

\* A step that leaves the URLs, the pattern and the picture alone.
LEMMA QuietKeeps ==
    ASSUME PatternsInv, Alike(page, page'), page'.pattern = page.pattern,
           DOMAIN calls' = DOMAIN calls, calls'.checks = calls.checks,
           calls'.image = calls.image
    PROVE  PatternsInv'
<1>1. UrlsKept(page', calls')
  BY AlikeKeeps DEF PatternsInv
<1>2. Patterns!Source(page') = Patterns!Source(page)
  BY DEF Patterns!Source, Alike
<1> QED
  BY <1>1, <1>2 DEF PatternsInv, ImageKept, Alike

\* Taking URLs back from a page.
LEMMA RevokedPage ==
    ASSUME NEW p, NEW gone,
           DOMAIN p = {"stage", "signedIn", "known", "offers", "pattern", "urls", "form",
                       "list", "image"}
    PROVE  LET q == Patterns!Revoked(p, gone)
           IN  /\ DOMAIN q = DOMAIN p /\ q.urls = Rest(p.urls, gone)
               /\ q.stage = p.stage /\ q.form = p.form /\ q.image = p.image
               /\ q.pattern = p.pattern
BY DEF Patterns!Revoked, Rest

\* A new source, by a change of the stage or of the pattern, takes the picture
\* back.
LEMMA EffectsKeep ==
    ASSUME NEW p, NEW c, UrlsKept(p, c), ImageKept(p, c, Patterns!Source(page)),
           Patterns!Effects(p, c)
    PROVE  PatternsInv'
<1> DEFINE source == Patterns!Source(p)
           r == Patterns!Revoked(p, Patterns!Held(p.image.url))
           next == [r EXCEPT !.image = Patterns!NoImage]
<1>1. CASE source = Patterns!Source(page)
  <2>1. page' = p
    BY <1>1 DEF Patterns!Effects
  <2>2. DOMAIN calls' = DOMAIN c /\ calls'.checks = c.checks /\ calls'.image = c.image
    BY <1>1 DEF Patterns!Effects, UrlsKept
  <2>3. UrlsKept(page', calls')
    BY <2>1, <2>2 DEF UrlsKept
  <2> QED
    BY <1>1, <2>1, <2>2, <2>3 DEF PatternsInv, ImageKept
<1>2. CASE source # Patterns!Source(page)
  <2>1. page' = next
    BY <1>2 DEF Patterns!Effects
  <2>2. DOMAIN calls' = DOMAIN c /\ calls'.checks = c.checks /\ calls'.image = source
    BY <1>2 DEF Patterns!Effects, UrlsKept
  <2>3. /\ DOMAIN r = DOMAIN p /\ r.urls = Rest(p.urls, Patterns!Held(p.image.url))
        /\ r.stage = p.stage /\ r.form = p.form /\ r.pattern = p.pattern
    BY RevokedPage DEF UrlsKept
  <2> HIDE DEF r
  <2>4. /\ DOMAIN next = DOMAIN p /\ next.urls = r.urls /\ next.stage = p.stage
        /\ next.form = p.form /\ next.pattern = p.pattern
        /\ next.image = Patterns!NoImage
    BY <2>3 DEF UrlsKept
  <2> HIDE DEF next
  <2>5. Booked(next.urls, c.checks, p.form.file, None)
    <3>1. Booked(p.urls, c.checks, p.form.file, p.image.url)
      BY DEF UrlsKept
    <3>2. \A url \in DOMAIN p.urls :
            url \in Patterns!Held(p.image.url) <=>
              /\ url \in c.checks \cup {p.form.file, p.image.url}
              /\ url \notin c.checks \cup {p.form.file, None}
      <4>1. \A url \in DOMAIN p.urls : url # None
        BY <3>1, VisitAssumption DEF Booked
      <4> QED
        BY <3>1, <4>1 DEF Booked, Patterns!Held
    <3> QED
      BY <2>3, <2>4, <3>1, <3>2, Revoking
  <2>6. DOMAIN Patterns!NoImage = {"source", "url", "failed"} /\ Patterns!NoImage.url = None
    BY DEF Patterns!NoImage
  <2>7. UrlsKept(page', calls')
    BY <2>1, <2>2, <2>4, <2>5, <2>6 DEF UrlsKept
  <2>8. Patterns!Source(page') = source
    BY <2>1, <2>4 DEF Patterns!Source
  <2> QED
    BY <2>1, <2>2, <2>4, <2>6, <2>7, <2>8 DEF PatternsInv, ImageKept
<1> QED
  BY <1>1, <1>2

\* What only touches the list of the uploads.
LEMMA ListKeeps ==
    ASSUME NEW p, DOMAIN p = {"stage", "signedIn", "known", "offers", "pattern", "urls",
                              "form", "list", "image"}
    PROVE  /\ Alike(p, Patterns!Listing(p)) /\ Patterns!Listing(p).pattern = p.pattern
           /\ \A id, state : LET q == Patterns!Listed(p, id, state)
                             IN  Alike(p, q) /\ q.pattern = p.pattern
BY DEF Patterns!Listing, Patterns!Listed, Alike

\* Leaving a stage takes back what its form shows and checks.
LEMMA GoKeeps ==
    ASSUME PatternsInv, NEW stage \in Patterns!Stages, Patterns!GoTo(stage)
    PROVE  PatternsInv'
<1> DEFINE gone == Patterns!Held(page.form.file)
                     \cup IF page.stage = "pattern" THEN calls.checks ELSE {}
           bare == [page EXCEPT !.form = Patterns!NoForm, !.list = Patterns!EmptyResource]
           left == Patterns!Revoked(bare, gone)
           p == [left EXCEPT !.stage = stage, !.offers = Patterns!Offers(page.known)]
           c == [calls EXCEPT !.checks = {}, !.polls = {},
                    !.upload = IF @ = None THEN None ELSE [@ EXCEPT !.here = FALSE],
                    !.removes = {[r EXCEPT !.here = FALSE] : r \in @},
                    !.availability = @ \/ (stage = "pattern" /\ page.known = None)]
<1>1. Patterns!Effects(Patterns!Listing(p), c)
  BY DEF Patterns!GoTo, Patterns!Left
<1>2. UrlsKept(page, calls) /\ ImageKept(page, calls, Patterns!Source(page))
  BY DEF PatternsInv
<1>3. /\ DOMAIN bare = DOMAIN page /\ bare.form = Patterns!NoForm
      /\ bare.urls = page.urls /\ bare.image = page.image /\ bare.pattern = page.pattern
  BY <1>2 DEF UrlsKept
<1> HIDE DEF bare
<1>4. /\ DOMAIN left = DOMAIN page /\ left.form = Patterns!NoForm
      /\ left.urls = Rest(page.urls, gone)
      /\ left.image = page.image /\ left.pattern = page.pattern
  BY <1>2, <1>3, RevokedPage DEF UrlsKept
<1> HIDE DEF left
<1>5. /\ DOMAIN p = DOMAIN page /\ p.form = Patterns!NoForm
      /\ p.urls = Rest(page.urls, gone)
      /\ p.image = page.image /\ p.pattern = page.pattern
  BY <1>2, <1>4 DEF UrlsKept
<1>6. DOMAIN c = DOMAIN calls /\ c.checks = {} /\ c.image = calls.image
  BY <1>2 DEF UrlsKept
<1> HIDE DEF p, c
<1>7. Booked(p.urls, {}, None, page.image.url)
  <2>1. Booked(page.urls, calls.checks, page.form.file, page.image.url)
    BY <1>2 DEF UrlsKept
  <2>2. \A url \in DOMAIN page.urls : url # None
    BY <2>1, VisitAssumption DEF Booked
  <2>3. page.stage # "pattern" => calls.checks = {}
    BY <1>2 DEF UrlsKept
  <2> DEFINE none == {}
  <2>4. none \in SUBSET calls.checks /\ none = {}
    OBVIOUS
  <2>5. \A url \in DOMAIN page.urls :
          url \in gone <=> /\ url \in calls.checks \cup {page.form.file, page.image.url}
                           /\ url \notin none \cup {None, page.image.url}
    BY <2>1, <2>2, <2>3 DEF Booked, Patterns!Held
  <2> HIDE DEF gone, none
  <2>6. Booked(Rest(page.urls, gone), none, None, page.image.url)
    BY <2>1, <2>4, <2>5, Revoking
  <2> QED
    BY <1>5, <2>4, <2>6
<1>8. /\ DOMAIN Patterns!NoForm = {"checking", "file", "uploading", "rights"}
      /\ Patterns!NoForm.checking = None /\ Patterns!NoForm.file = None
  BY DEF Patterns!NoForm
<1>9. UrlsKept(p, c)
  BY <1>2, <1>5, <1>6, <1>7, <1>8 DEF UrlsKept
<1>10. Alike(p, Patterns!Listing(p))
  BY <1>2, <1>5, ListKeeps DEF UrlsKept
<1>11. UrlsKept(Patterns!Listing(p), c)
  BY <1>9, <1>10, AlikeKeeps
<1>12. ImageKept(Patterns!Listing(p), c, Patterns!Source(page))
  BY <1>2, <1>5, <1>6, <1>10 DEF ImageKept, Alike
<1> QED
  BY <1>1, <1>11, <1>12, EffectsKeep

\* Choosing a file, and the end of its check.
LEMMA FilesKeep ==
    ASSUME PatternsInv,
           Patterns!ChooseFile \/ \E url \in calls.checks : Patterns!FileChecked(url)
    PROVE  PatternsInv'
<1> DEFINE source == Patterns!Source(page)
           file == page.form.file  image == page.image.url  checks == calls.checks
<1>1. UrlsKept(page, calls) /\ ImageKept(page, calls, source)
  BY DEF PatternsInv
<1>2. /\ Booked(page.urls, checks, file, image)
      /\ \A url \in DOMAIN page.urls : url # None
      /\ \A url \in checks : url \in DOMAIN page.urls /\ url \notin {None, file, image}
  BY <1>1, VisitAssumption DEF UrlsKept, Booked
\* The new page and its calls, from what they are made of.
<1>3. ASSUME DOMAIN page' = DOMAIN page, page'.stage = page.stage,
             page'.pattern = page.pattern, page'.image = page.image,
             DOMAIN page'.form = DOMAIN page.form,
             DOMAIN calls' = DOMAIN calls, calls'.image = calls.image,
             page.stage # "pattern" => calls'.checks = {} /\ page'.form.file = None,
             page'.form.checking # None => page'.form.file = None,
             Booked(page'.urls, calls'.checks, page'.form.file, image)
      PROVE  PatternsInv'
  <2>1. UrlsKept(page', calls')
    BY <1>1, <1>3 DEF UrlsKept
  <2>2. Patterns!Source(page') = source
    BY <1>3 DEF Patterns!Source
  <2> QED
    BY <1>1, <1>3, <2>1, <2>2 DEF PatternsInv, ImageKept
<1>4. CASE Patterns!ChooseFile
  <2> DEFINE bare == [page EXCEPT !.form.checking = None, !.form.file = None]
             cleared == Patterns!Revoked(bare, Patterns!Held(file))
             url == Len(page.urls) + 1
             made == Patterns!Created(cleared)
             p == [made EXCEPT !.form.checking = url]
  <2>1. /\ page.stage = "pattern"
        /\ \/ page' = cleared /\ calls' = calls
           \/ page' = p /\ calls' = [calls EXCEPT !.checks = @ \cup {url}]
    BY <1>4 DEF Patterns!ChooseFile, Patterns!Ready
  <2>2. /\ DOMAIN bare = DOMAIN page /\ bare.stage = page.stage /\ bare.urls = page.urls
        /\ bare.pattern = page.pattern /\ bare.image = page.image
        /\ DOMAIN bare.form = DOMAIN page.form
        /\ bare.form.checking = None /\ bare.form.file = None
    BY <1>1 DEF UrlsKept
  <2> HIDE DEF bare
  <2>3. /\ DOMAIN cleared = DOMAIN page /\ cleared.stage = page.stage
        /\ cleared.urls = Rest(page.urls, Patterns!Held(file))
        /\ cleared.pattern = page.pattern /\ cleared.image = page.image
        /\ cleared.form = bare.form
    BY <1>1, <2>2, RevokedPage DEF UrlsKept
  <2> HIDE DEF cleared
  <2>4. Booked(cleared.urls, checks, None, image)
    <3>1. \A u \in DOMAIN page.urls :
            u \in Patterns!Held(file) <=> /\ u \in checks \cup {file, image}
                                          /\ u \notin checks \cup {None, image}
      BY <1>2 DEF Booked, Patterns!Held
    <3> HIDE DEF file, image, checks
    <3> QED
      BY <1>2, <2>3, <3>1, Revoking
  <2>5. CASE page' = cleared /\ calls' = calls
    BY <1>3, <2>1, <2>2, <2>3, <2>4, <2>5
  <2>6. CASE page' = p /\ calls' = [calls EXCEPT !.checks = @ \cup {url}]
    <3>1. /\ DOMAIN made = DOMAIN page /\ made.stage = page.stage
          /\ made.urls = Append(cleared.urls, 0) /\ made.form = bare.form
          /\ made.pattern = page.pattern /\ made.image = page.image
      BY <1>1, <2>3 DEF Patterns!Created, UrlsKept
    <3> HIDE DEF made
    <3>2. /\ DOMAIN p = DOMAIN page /\ p.stage = page.stage /\ p.urls = made.urls
          /\ p.pattern = page.pattern /\ p.image = page.image
          /\ DOMAIN p.form = DOMAIN page.form /\ p.form.file = None
      BY <1>1, <2>2, <3>1 DEF UrlsKept
    <3>3. Len(cleared.urls) = Len(page.urls)
      BY <1>2, <2>3, <2>4 DEF Booked, Rest
    <3>4. Booked(p.urls, checks \cup {url}, None, image)
      <4>1. url = Len(cleared.urls) + 1 /\ p.urls = Append(cleared.urls, 0)
        BY <3>1, <3>2, <3>3
      <4> HIDE DEF url, p, checks, image
      <4>2. Booked(Append(cleared.urls, 0), checks \cup {Len(cleared.urls) + 1}, None, image)
        BY <2>4, Creating
      <4> QED
        BY <4>1, <4>2
    <3>5. /\ DOMAIN calls' = DOMAIN calls /\ calls'.checks = checks \cup {url}
          /\ calls'.image = calls.image
      BY <1>1, <2>6 DEF UrlsKept
    <3> HIDE DEF p, url
    <3> QED
      BY <1>3, <2>1, <2>6, <3>2, <3>4, <3>5
  <2> QED
    BY <2>1, <2>5, <2>6
<1>5. ASSUME NEW url \in calls.checks, Patterns!FileChecked(url)
      PROVE  PatternsInv'
  <2> DEFINE r == Patterns!Revoked(page, {url})
  <2>1. /\ calls' = [calls EXCEPT !.checks = @ \ {url}]
        /\ \/ page.form.checking # url /\ page' = r
           \/ /\ page.form.checking = url
              /\ \/ page' = [page EXCEPT !.form.checking = None, !.form.file = url]
                 \/ page' = [r EXCEPT !.form.checking = None]
    BY <1>5 DEF Patterns!FileChecked
  <2>2. /\ DOMAIN calls' = DOMAIN calls /\ calls'.checks = checks \ {url}
        /\ calls'.image = calls.image
    BY <1>1, <2>1 DEF UrlsKept
  <2>3. page.stage = "pattern"
    BY <1>1 DEF UrlsKept
  <2>4. /\ DOMAIN r = DOMAIN page /\ r.urls = Rest(page.urls, {url})
        /\ r.stage = page.stage /\ r.form = page.form /\ r.image = page.image
        /\ r.pattern = page.pattern
    BY <1>1, RevokedPage DEF UrlsKept
  <2> HIDE DEF r
  <2>5. Booked(r.urls, checks \ {url}, file, image)
    <3>1. \A u \in DOMAIN page.urls :
            u \in {url} <=> /\ u \in checks \cup {file, image}
                            /\ u \notin (checks \ {url}) \cup {file, image}
      BY <1>2
    <3> HIDE DEF file, image, checks
    <3> QED
      BY <1>2, <2>4, <3>1, Revoking
  <2>6. CASE page' = r
    BY <1>1, <1>3, <2>2, <2>3, <2>4, <2>5, <2>6 DEF UrlsKept
  <2>7. CASE page' = [r EXCEPT !.form.checking = None]
    <3>1. /\ DOMAIN page' = DOMAIN page /\ page'.urls = r.urls
          /\ page'.stage = page.stage /\ page'.image = page.image
          /\ page'.pattern = page.pattern /\ DOMAIN page'.form = DOMAIN page.form
          /\ page'.form.checking = None /\ page'.form.file = file
      BY <1>1, <2>4, <2>7 DEF UrlsKept
    <3> QED
      BY <1>3, <2>2, <2>3, <2>5, <3>1
  <2>8. CASE /\ page.form.checking = url
             /\ page' = [page EXCEPT !.form.checking = None, !.form.file = url]
    <3>1. /\ DOMAIN page' = DOMAIN page /\ page'.urls = page.urls
          /\ page'.stage = page.stage /\ page'.image = page.image
          /\ page'.pattern = page.pattern /\ DOMAIN page'.form = DOMAIN page.form
          /\ page'.form.checking = None /\ page'.form.file = url
      BY <1>1, <2>8 DEF UrlsKept
    <3>2. file = None
      BY <1>1, <1>2, <2>8 DEF UrlsKept
    <3>3. Booked(page.urls, checks \ {url}, url, image)
      BY <1>2, <3>2, Showing
    <3> QED
      BY <1>3, <2>2, <2>3, <3>1, <3>3
  <2> QED
    BY <2>1, <2>6, <2>7, <2>8
<1> QED
  BY <1>4, <1>5

\* Another pattern, and the list with it; the calls lose what was answered.
LEMMA ChangesKeep ==
    ASSUME PatternsInv, NEW x, NEW l, NEW y,
           \/ Patterns!Effects([page EXCEPT !.pattern = x], calls)
           \/ Patterns!Effects([page EXCEPT !.pattern = x], [calls EXCEPT !.restore = None])
           \/ Patterns!Effects([page EXCEPT !.pattern = x], [calls EXCEPT !.selects = y])
           \/ Patterns!Effects([page EXCEPT !.list = l, !.pattern = x],
                               [calls EXCEPT !.removes = y])
    PROVE  PatternsInv'
<1>1. UrlsKept(page, calls) /\ ImageKept(page, calls, Patterns!Source(page))
  BY DEF PatternsInv
<1>2. PICK p \in {[page EXCEPT !.pattern = x], [page EXCEPT !.list = l, !.pattern = x]},
           c \in {calls, [calls EXCEPT !.restore = None], [calls EXCEPT !.selects = y],
                  [calls EXCEPT !.removes = y]} :
        Patterns!Effects(p, c)
  OBVIOUS
<1>3. /\ Alike(page, p) /\ DOMAIN c = DOMAIN calls /\ c.checks = calls.checks
      /\ c.image = calls.image
  BY <1>1 DEF UrlsKept, Alike
<1>4. UrlsKept(p, c) /\ ImageKept(p, c, Patterns!Source(page))
  BY <1>1, <1>3, AlikeKeeps DEF ImageKept, Alike
<1> QED
  BY <1>2, <1>4, EffectsKeep

\* A page that is loaded has no URLs.
LEMMA FreshKeeps ==
    ASSUME NEW kept, NEW s, page' = Patterns!Fresh(kept, s),
           calls' = [Patterns!NoCalls EXCEPT !.restore = kept]
    PROVE  PatternsInv'
BY DEF Patterns!Fresh, Patterns!NoCalls, Patterns!NoForm, Patterns!NoImage,
       PatternsInv, UrlsKept, ImageKept, Booked

\* The picture is fetched, and an answer about a restored pattern changes it.
LEMMA PictureKeeps ==
    ASSUME PatternsInv, Patterns!ImageAnswers \/ Patterns!RestoreAnswers
    PROVE  PatternsInv'
<1> DEFINE source == Patterns!Source(page)
<1>1. UrlsKept(page, calls) /\ ImageKept(page, calls, source)
  BY DEF PatternsInv
<1>2. CASE Patterns!ImageAnswers
  <2> DEFINE url == Len(page.urls) + 1
             picture == [source |-> calls.image, url |-> url, failed |-> FALSE]
             made == Patterns!Created(page)
  <2>1. /\ calls.image = source /\ page.image.url = None
        /\ calls' = [calls EXCEPT !.image = None]
        /\ \/ page' = [made EXCEPT !.image = picture]
           \/ page' = [page EXCEPT !.image.failed = TRUE]
    BY <1>1, <1>2 DEF Patterns!ImageAnswers, ImageKept
  <2>2. DOMAIN calls' = DOMAIN calls /\ calls'.checks = calls.checks /\ calls'.image = None
    BY <1>1, <2>1 DEF UrlsKept
  <2>3. CASE page' = [page EXCEPT !.image.failed = TRUE]
    <3>1. Alike(page, page') /\ page'.pattern = page.pattern
      BY <1>1, <2>3 DEF Alike, UrlsKept
    <3>2. UrlsKept(page', calls')
      BY <1>1, <2>2, <3>1, AlikeKeeps
    <3> QED
      BY <1>1, <2>1, <2>2, <3>1, <3>2 DEF PatternsInv, ImageKept, Alike
  <2>4. CASE page' = [made EXCEPT !.image = picture]
    <3>1. /\ DOMAIN made = DOMAIN page /\ made.urls = Append(page.urls, 0)
          /\ made.stage = page.stage /\ made.form = page.form
          /\ made.pattern = page.pattern
      BY <1>1 DEF Patterns!Created, UrlsKept
    <3>2. /\ picture.url = url /\ picture.source = calls.image
          /\ DOMAIN picture = {"source", "url", "failed"}
      OBVIOUS
    <3> HIDE DEF made, picture
    <3>3. /\ DOMAIN page' = DOMAIN page /\ page'.urls = Append(page.urls, 0)
          /\ page'.stage = page.stage /\ page'.form = page.form
          /\ page'.pattern = page.pattern /\ page'.image = picture
      BY <1>1, <2>4, <3>1 DEF UrlsKept
    <3>4. Booked(page'.urls, calls.checks, page.form.file, url)
      <4>1. Booked(page.urls, calls.checks, page.form.file, page.image.url)
        BY <1>1 DEF UrlsKept
      <4> QED
        BY <2>1, <3>3, <4>1, Creating
    <3> HIDE DEF url
    <3>5. UrlsKept(page', calls')
      BY <1>1, <2>2, <3>2, <3>3, <3>4 DEF UrlsKept
    <3>6. Patterns!Source(page') = source
      BY <3>3 DEF Patterns!Source
    <3> QED
      BY <2>1, <2>2, <3>2, <3>3, <3>5, <3>6 DEF PatternsInv, ImageKept
  <2> QED
    BY <2>1, <2>3, <2>4
<1>3. CASE Patterns!RestoreAnswers
  <2>1. PICK x : Patterns!Effects([page EXCEPT !.pattern = x],
                                  [calls EXCEPT !.restore = None])
    BY <1>3 DEF Patterns!RestoreAnswers
  <2> QED
    BY <1>1, <2>1, ChangesKeep
<1> QED
  BY <1>2, <1>3

\* What a request, a look at an upload or a click changes besides.
LEMMA RequestsKeep ==
    ASSUME PatternsInv,
           \/ Patterns!AvailabilityAnswers \/ Patterns!Acknowledge \/ Patterns!ListAnswers
           \/ Patterns!Upload \/ Patterns!Acknowledged \/ Patterns!Intended
           \/ Patterns!UploadFails \/ \E poll \in calls.polls : Patterns!Polled(poll)
           \/ \E id \in Patterns!Uploads :
                Patterns!Retry(id) \/ Patterns!Select(id) \/ Patterns!Remove(id)
                  \/ Patterns!Processed(id)
    PROVE  PatternsInv'
<1>1. UrlsKept(page, calls)
  BY DEF PatternsInv
<1>2. /\ DOMAIN calls' = DOMAIN calls /\ calls'.checks = calls.checks
      /\ calls'.image = calls.image
  BY <1>1 DEF UrlsKept, Patterns!AvailabilityAnswers, Patterns!Acknowledge,
              Patterns!ListAnswers, Patterns!Upload, Patterns!Acknowledged,
              Patterns!Intended, Patterns!UploadFails, Patterns!Polled, Patterns!Retry,
              Patterns!Select, Patterns!Remove, Patterns!Processed
<1>3. Alike(page, page') /\ page'.pattern = page.pattern
  <2>1. CASE page' = page
    BY <2>1 DEF Alike
  <2>2. CASE Patterns!AvailabilityAnswers
    <3>1. PICK known, offers : page' = Patterns!Listing(
              [page EXCEPT !.known = known, !.offers = offers])
      BY <2>2 DEF Patterns!AvailabilityAnswers
    <3> DEFINE p == [page EXCEPT !.known = known, !.offers = offers]
    <3>2. Alike(page, p) /\ p.pattern = page.pattern
      BY <1>1 DEF UrlsKept, Alike
    <3>3. Alike(p, page') /\ page'.pattern = p.pattern
      BY <1>1, <3>1, <3>2, ListKeeps DEF UrlsKept, Alike
    <3> QED
      BY <3>2, <3>3 DEF Alike
  <2>3. ASSUME NEW poll \in calls.polls, Patterns!Polled(poll)
        PROVE  Alike(page, page') /\ page'.pattern = page.pattern
    BY <1>1, <2>1, <2>3, ListKeeps DEF Patterns!Polled, UrlsKept
  <2>4. CASE Patterns!ListAnswers
    BY <1>1, <2>4 DEF UrlsKept, Alike, Patterns!ListAnswers
  <2>5. CASE Patterns!Acknowledge
    BY <1>1, <2>5 DEF UrlsKept, Alike, Patterns!Acknowledge
  <2>6. CASE Patterns!Upload \/ Patterns!UploadFails
    BY <1>1, <2>1, <2>6 DEF UrlsKept, Alike, Patterns!Upload, Patterns!UploadFails
  <2> QED
    BY <2>1, <2>2, <2>3, <2>4, <2>5, <2>6 DEF Patterns!Acknowledged, Patterns!Intended,
         Patterns!Retry, Patterns!Select, Patterns!Remove, Patterns!Processed
<1> QED
  BY <1>2, <1>3, QuietKeeps

\* An upload that is confirmed empties the form.
LEMMA ConfirmedKeeps == ASSUME PatternsInv, Patterns!Confirmed PROVE PatternsInv'
<1> DEFINE file == page.form.file  image == page.image.url  checks == calls.checks
           listed == Patterns!Listed(page, calls.upload.id, "processing")
           r == Patterns!Revoked(listed, Patterns!Held(file))
           p == [r EXCEPT !.form.file = None, !.form.rights = FALSE,
                          !.form.uploading = FALSE]
<1>1. UrlsKept(page, calls) /\ ImageKept(page, calls, Patterns!Source(page))
  BY DEF PatternsInv
<1>2. page' = IF calls.upload.here THEN p ELSE page
  BY DEF Patterns!Confirmed
<1>3. /\ DOMAIN calls' = DOMAIN calls /\ calls'.checks = checks
      /\ calls'.image = calls.image
  BY <1>1 DEF UrlsKept, Patterns!Confirmed
<1>4. CASE page' = page
  BY <1>3, <1>4, QuietKeeps DEF Alike
<1>5. CASE page' = p
  <2>1. Alike(page, listed) /\ listed.pattern = page.pattern
    BY <1>1, ListKeeps DEF UrlsKept
  <2> HIDE DEF listed
  <2>2. /\ DOMAIN r = DOMAIN page /\ r.urls = Rest(page.urls, Patterns!Held(file))
        /\ r.stage = page.stage /\ r.form = listed.form /\ r.image = listed.image
        /\ r.pattern = page.pattern
    BY <1>1, <2>1, RevokedPage DEF UrlsKept, Alike
  <2> HIDE DEF r
  <2>3. /\ DOMAIN p = DOMAIN page /\ p.urls = r.urls
        /\ p.stage = page.stage /\ p.image = listed.image /\ p.pattern = page.pattern
        /\ DOMAIN p.form = DOMAIN page.form /\ p.form.file = None
        /\ p.form.checking = page.form.checking
    BY <1>1, <2>1, <2>2 DEF UrlsKept, Alike
  <2> HIDE DEF p
  <2>4. Booked(p.urls, checks, None, image)
    <3>1. Booked(page.urls, checks, file, image)
      BY <1>1 DEF UrlsKept
    <3>2. \A u \in DOMAIN page.urls : u # None
      BY <3>1, VisitAssumption DEF Booked
    <3>3. \A u \in DOMAIN page.urls :
            u \in Patterns!Held(file) <=> /\ u \in checks \cup {file, image}
                                          /\ u \notin checks \cup {None, image}
      BY <3>1, <3>2 DEF Booked, Patterns!Held
    <3> HIDE DEF file, image, checks
    <3> QED
      BY <2>2, <2>3, <3>1, <3>3, Revoking
  <2>5. UrlsKept(page', calls')
    BY <1>1, <1>3, <1>5, <2>1, <2>3, <2>4 DEF UrlsKept, Alike
  <2>6. Patterns!Source(page') = Patterns!Source(page)
    BY <1>5, <2>3 DEF Patterns!Source
  <2> QED
    BY <1>1, <1>3, <1>5, <2>1, <2>3, <2>5, <2>6 DEF PatternsInv, ImageKept, Alike
<1> QED
  BY <1>2, <1>4, <1>5

\* The design gets another pattern, a session starts or ends, the page is loaded
\* again.
LEMMA DesignKeeps ==
    ASSUME PatternsInv,
           \/ \E id \in calls.selects : Patterns!Selected(id)
           \/ \E r \in calls.removes : Patterns!Removed(r)
           \/ Patterns!ChooseOurs \/ Patterns!SignIn \/ Patterns!SessionEnds
           \/ Patterns!Reload
    PROVE  PatternsInv'
<1>1. UrlsKept(page, calls) /\ ImageKept(page, calls, Patterns!Source(page))
  BY DEF PatternsInv
<1>2. ASSUME NEW id \in calls.selects, Patterns!Selected(id) PROVE PatternsInv'
  <2>1. CASE /\ page' = page
             /\ calls' = [calls EXCEPT !.selects = @ \ {id}]
    <3>1. /\ Alike(page, page') /\ page'.pattern = page.pattern
          /\ DOMAIN calls' = DOMAIN calls /\ calls'.checks = calls.checks
          /\ calls'.image = calls.image
      BY <1>1, <2>1 DEF UrlsKept, Alike
    <3> QED
      BY <3>1, QuietKeeps
  <2>2. ASSUME NEW x, Patterns!Effects([page EXCEPT !.pattern = x],
                                       [calls EXCEPT !.selects = @ \ {id}])
        PROVE  PatternsInv'
    BY <1>1, <2>2, ChangesKeep
  <2> QED
    BY <1>2, <2>1, <2>2 DEF Patterns!Selected
<1>3. ASSUME NEW r \in calls.removes, Patterns!Removed(r) PROVE PatternsInv'
  <2>1. CASE /\ page' = page
             /\ calls' = [calls EXCEPT !.removes = @ \ {r}]
    <3>1. /\ Alike(page, page') /\ page'.pattern = page.pattern
          /\ DOMAIN calls' = DOMAIN calls /\ calls'.checks = calls.checks
          /\ calls'.image = calls.image
      BY <1>1, <2>1 DEF UrlsKept, Alike
    <3> QED
      BY <3>1, QuietKeeps
  <2>2. ASSUME NEW l, NEW x,
               Patterns!Effects([page EXCEPT !.list = l, !.pattern = x],
                                [calls EXCEPT !.removes = @ \ {r}])
        PROVE  PatternsInv'
    BY <1>1, <2>2, ChangesKeep
  <2> QED
    BY <1>3, <2>1, <2>2 DEF Patterns!Removed
<1>4. CASE Patterns!ChooseOurs
  BY <1>1, <1>4, ChangesKeep DEF Patterns!ChooseOurs
<1>5. ASSUME NEW s, Patterns!Effects(Patterns!Listing([page EXCEPT !.signedIn = s]), calls)
      PROVE  PatternsInv'
  <2> DEFINE p == [page EXCEPT !.signedIn = s]
  <2>1. Alike(page, p)
    BY <1>1 DEF UrlsKept, Alike
  <2>2. DOMAIN p = DOMAIN page
    BY <2>1 DEF Alike
  <2> HIDE DEF p
  <2>3. Alike(p, Patterns!Listing(p))
    BY <1>1, <2>2, ListKeeps DEF UrlsKept
  <2>4. Alike(page, Patterns!Listing(p))
    BY <2>1, <2>3 DEF Alike
  <2>5. /\ UrlsKept(Patterns!Listing(p), calls)
        /\ ImageKept(Patterns!Listing(p), calls, Patterns!Source(page))
    BY <1>1, <2>4, AlikeKeeps DEF ImageKept, Alike
  <2> QED
    BY <1>5, <2>5, EffectsKeep DEF p
<1>6. CASE Patterns!SignIn \/ Patterns!SessionEnds
  BY <1>5, <1>6 DEF Patterns!SignIn, Patterns!SessionEnds
<1>7. CASE Patterns!Reload
  <2>1. PICK kept, s :
          /\ page' = Patterns!Fresh(kept, s)
          /\ calls' = [Patterns!NoCalls EXCEPT !.restore = kept]
    BY <1>7 DEF Patterns!Reload
  <2> QED
    BY <2>1, FreshKeeps
<1> QED
  BY <1>2, <1>3, <1>4, <1>6, <1>7

LEMMA PatternsInitKeeps == ASSUME Patterns!Init PROVE PatternsInv
<1>1. PICK s \in BOOLEAN : page = Patterns!Fresh(None, s) /\ calls = Patterns!NoCalls
  BY DEF Patterns!Init
<1> QED
  BY <1>1 DEF Patterns!Fresh, Patterns!NoCalls, Patterns!NoForm, Patterns!NoImage,
              PatternsInv, UrlsKept, ImageKept, Booked

LEMMA PatternsInvariant ==
    ASSUME PatternsInv, [Patterns!Next]_Patterns!vars PROVE PatternsInv'
<1>1. CASE UNCHANGED Patterns!vars
  BY <1>1 DEF Patterns!vars, PatternsInv, UrlsKept, ImageKept, Patterns!Source
<1>2. CASE Patterns!Next
  BY <1>2, GoKeeps, FilesKeep, PictureKeeps, RequestsKeep, ConfirmedKeeps, DesignKeeps
     DEF Patterns!Next
<1> QED
  BY <1>1, <1>2

\* Every object URL the stages make is revoked exactly once, when nothing shows it
\* or checks it any more, however files, answers, stages and reloads follow each
\* other (your-patterns.tsx 152-208, preview-step.tsx 93-127).
THEOREM UrlsAreRevokedOnce == Spec => []UrlsEndOnce
<1> DEFINE I == part = "patterns" => PatternsInv
<1>1. Init => I
  BY PatternsInitKeeps DEF Init
<1>2. I => UrlsEndOnce
  <2>1. ASSUME PatternsInv PROVE Patterns!UrlsEndOnce
    <3>1. Booked(page.urls, calls.checks, page.form.file, page.image.url)
      BY <2>1 DEF PatternsInv, UrlsKept
    <3>2. Patterns!Shown(page) = page.image.url
      BY <2>1 DEF PatternsInv, ImageKept, Patterns!Shown
    <3> QED
      BY <3>1, <3>2 DEF Booked, Patterns!UrlsEndOnce
  <2> QED
    BY <2>1 DEF UrlsEndOnce
<1>3. I /\ [Next]_vars => I'
  <2>1. I /\ UNCHANGED vars => I'
    BY PatternsInvariant DEF vars, visit, Patterns!vars
  <2>2. I /\ Next => I'
    BY PatternsInvariant DEF Next
  <2> QED
    BY <2>1, <2>2
<1> QED
  BY <1>1, <1>2, <1>3, PTL DEF Spec

-----------------------------------------------------------------------------
(* The stages. *)

Parts == {"shape", "width", "height", "backWidth", "thickness", "unit", "fabric", "detail"}
Whole(d) == d = [f \in Parts |-> d[f]]

\* The design has its fields, and the stages are among those there are.
ConfiguringInv ==
    /\ DOMAIN page = {"design", "asking", "requested", "highest", "catalogue", "granted"}
    /\ Whole(page.design)
    /\ page.requested \in 0 .. Configuring!Last /\ page.highest \in 0 .. Configuring!Last

LEMMA ConfiguringInitKeeps == ASSUME Configuring!Init PROVE ConfiguringInv
BY DEF Configuring!Init, Configuring!Fresh, Configuring!Initial, Configuring!Last,
       ConfiguringInv, Parts, Whole

\* How far the data goes is one of four stages.
LEMMA AllowedStages ==
    /\ Configuring!Allowed(page) \in {0, 1, 3, 4, 5}
    /\ Configuring!Allowed(page) > 0 => page.design.shape # None
    /\ Configuring!Allowed(page) > 1 => Configuring!MeasurementsValid(page.design)
    /\ Configuring!Allowed(page) > 3 => ~Configuring!PatternIssue(page)
    /\ Configuring!Allowed(page) = 5 <=>
         Configuring!MeasurementsValid(page.design) /\ ~Configuring!PatternIssue(page)
BY DEF Configuring!Allowed, Configuring!ReviewReady, Configuring!MeasurementsValid

\* The stage that is shown is reached and allowed.
LEMMA ActiveStage ==
    ASSUME ConfiguringInv
    PROVE  /\ Configuring!Active(page) \in 0 .. 5
           /\ Configuring!Active(page) <= Configuring!Accessible(page)
           /\ Configuring!Accessible(page) \in 0 .. 5
           /\ Configuring!Accessible(page) <= Configuring!Allowed(page)
           /\ \A i \in 0 .. 5 : i <= page.highest /\ i <= Configuring!Allowed(page) =>
                i <= Configuring!Accessible(page)
<1>1. Configuring!Allowed(page) \in 0 .. 5
  BY AllowedStages
<1> QED
  BY <1>1 DEF ConfiguringInv, Configuring!Active, Configuring!Accessible,
              Configuring!Least2, Configuring!Last

\* A design keeps its fields.
LEMMA WholeOnes ==
    ASSUME NEW d, Whole(d), NEW x, NEW y, NEW f, NEW g
    PROVE  Whole([d EXCEPT ![f] = x]) /\ Whole([d EXCEPT ![f] = x, ![g] = y])
<1> DEFINE e == [d EXCEPT ![f] = x]  h == [d EXCEPT ![f] = x, ![g] = y]
<1>1. DOMAIN d = Parts
  BY DEF Whole
<1>2. /\ e = [i \in Parts |-> IF i = f THEN x ELSE d[i]]
      /\ h = [i \in Parts |-> IF i = g THEN y ELSE IF i = f THEN x ELSE d[i]]
  BY <1>1
<1> HIDE DEF e, h
<1>3. Whole(e) /\ Whole(h)
  BY <1>2 DEF Whole
<1> QED
  BY <1>3 DEF e, h

LEMMA ConfiguringInvariant ==
    ASSUME ConfiguringInv, Configuring!Next \/ UNCHANGED page
    PROVE  ConfiguringInv'
<1> USE DEF ConfiguringInv
<1>1. CASE UNCHANGED page
  BY <1>1
\* Steps that change the design, or what is there, and stay at the stage.
<1>2. ASSUME NEW d, Whole(d), NEW asking, NEW granted,
             page' = [page EXCEPT !.design = d, !.asking = asking, !.granted = granted]
      PROVE  ConfiguringInv'
  BY <1>2
<1>3. ASSUME NEW d, Whole(d), Configuring!Designs(d) PROVE ConfiguringInv'
  BY <1>3 DEF Configuring!Designs
<1>4. ASSUME NEW shape PROVE Whole(Configuring!SetShape(page.design, shape))
  BY WholeOnes DEF Configuring!SetShape
<1>5. ASSUME NEW shape, Configuring!ChooseShape(shape) PROVE ConfiguringInv'
  BY <1>3, <1>4, <1>5 DEF Configuring!ChooseShape
<1>6. CASE Configuring!AnswerShape
  <2>1. PICK d : Whole(d) /\ page' = [page EXCEPT !.asking = None, !.design = d]
    BY <1>4, <1>6 DEF Configuring!AnswerShape
  <2> QED
    BY <2>1
<1>7. ASSUME NEW f, NEW h, Configuring!Type(f, h) PROVE ConfiguringInv'
  <2>1. Whole(Configuring!SetMeasure(page.design, f, h))
    BY WholeOnes DEF Configuring!SetMeasure
  <2> QED
    BY <1>3, <1>7, <2>1 DEF Configuring!Type
<1>8. ASSUME NEW unit, Configuring!ChangeUnit(unit) PROVE ConfiguringInv'
  <2>1. Whole(Configuring!SetUnit(page.design, unit))
    BY DEF Configuring!SetUnit, Whole
  <2> QED
    BY <1>3, <1>8, <2>1 DEF Configuring!ChangeUnit
<1>9. ASSUME NEW detail, Configuring!ChooseDetail(detail) PROVE ConfiguringInv'
  <2>1. Whole([page.design EXCEPT !.detail = detail])
    BY WholeOnes
  <2> QED
    BY <1>3, <1>9, <2>1 DEF Configuring!ChooseDetail
<1>10. ASSUME NEW fabric, Configuring!ChooseFabric(fabric) PROVE ConfiguringInv'
  <2> DEFINE d == [page.design EXCEPT !.fabric = fabric]
  <2>1. Whole(d)
    BY WholeOnes
  <2>2. page' = [page EXCEPT !.design = d, !.granted = fabric = "custom"]
    BY <1>10 DEF Configuring!ChooseFabric
  <2> HIDE DEF d
  <2> QED
    BY <2>1, <2>2
<1>11. CASE Configuring!PreviewAnswers \/ Configuring!CatalogueChanges
  BY <1>11 DEF Configuring!PreviewAnswers, Configuring!CatalogueChanges
<1>12. CASE Configuring!Continue
  BY <1>12, ActiveStage DEF Configuring!Continue, Configuring!Last
<1>13. ASSUME NEW i \in Configuring!Offered, Configuring!GoTo(i) PROVE ConfiguringInv'
  <2>1. i \in Nat
    BY AllowedStages DEF Configuring!Offered, Configuring!Revisitable
  <2> QED
    BY <1>13, <2>1, ActiveStage DEF Configuring!GoTo, Configuring!Last
<1>14. CASE Configuring!StartNew
  BY <1>14 DEF Configuring!StartNew, Configuring!Fresh, Configuring!Initial,
               Configuring!Last, Parts, Whole
<1>15. CASE Configuring!Reload
  <2>1. Whole(Configuring!Sanitized(page.design))
    BY WholeOnes DEF Configuring!Sanitized
  <2> QED
    BY <1>15, <2>1, ActiveStage DEF Configuring!Reload, Configuring!Fresh, Configuring!Last
<1> QED
  BY <1>1, <1>5, <1>6, <1>7, <1>8, <1>9, <1>10, <1>11, <1>12, <1>13, <1>14, <1>15
     DEF Configuring!Next

LEMMA OfferedOpens == ASSUME ConfiguringInv PROVE Configuring!OfferedStageOpens
<1> DEFINE active == Configuring!Active(page)  allowed == Configuring!Allowed(page)
           open == Configuring!Accessible(page)
<1>1. /\ active \in 0 .. 5 /\ active <= open /\ open \in 0 .. 5 /\ open <= allowed
      /\ \A i \in 0 .. 5 : i <= page.highest /\ i <= allowed => i <= open
  BY ActiveStage
<1>2. Configuring!Revisitable \subseteq 0 .. open
  <2> SUFFICES ASSUME NEW i \in Configuring!Revisitable PROVE i \in 0 .. open
    OBVIOUS
  <2>1. /\ i \in 0 .. allowed /\ page.highest \in 0 .. 5
        /\ i < page.highest \/ (page.highest = 5 /\ i = 5)
    BY DEF Configuring!Revisitable, ConfiguringInv, Configuring!Last
  <2> QED
    BY <1>1, <2>1, AllowedStages
<1>3. Configuring!At("preview") => active = 4
  BY <1>1 DEF Configuring!At, Configuring!Steps
<1>4. Configuring!Offered \subseteq 0 .. open
  <2> SUFFICES ASSUME NEW i \in Configuring!Offered PROVE i \in 0 .. open
    OBVIOUS
  <2>1. \/ i = active - 1 /\ i \in Nat
        \/ i \in Configuring!Revisitable
        \/ Configuring!At("preview") /\ i \in 1 .. 3
    BY DEF Configuring!Offered
  <2>2. CASE i \in Configuring!Revisitable
    BY <1>2, <2>2
  <2>3. active \in 0 .. 5 /\ open \in 0 .. 5 /\ active <= open
    BY <1>1
  <2>4. Configuring!At("preview") => open \in 4 .. 5
    BY <1>3, <2>3
  <2> HIDE DEF active, open, allowed
  <2> QED
    BY <2>1, <2>2, <2>3, <2>4
<1>5. ASSUME active < 5, Configuring!CanContinue PROVE active + 1 <= allowed
  <2>1. active <= allowed /\ allowed \in {0, 1, 3, 4, 5}
    BY <1>1, AllowedStages
  <2>2. CASE active = 0
    <3>1. page.design.shape # None
      BY <1>5, <2>2 DEF Configuring!CanContinue, Configuring!Steps
    <3> QED
      BY <2>2, <3>1 DEF Configuring!Allowed
  <2>3. CASE active = 1
    <3>1. Configuring!MeasurementsValid(page.design)
      BY <1>5, <2>3 DEF Configuring!CanContinue, Configuring!Steps
    <3> QED
      BY <2>3, <3>1 DEF Configuring!Allowed, Configuring!MeasurementsValid
  <2>4. CASE active = 3
    <3>1. ~Configuring!PatternIssue(page)
      BY <1>5, <2>4 DEF Configuring!CanContinue, Configuring!Steps
    <3> QED
      BY <2>1, <2>4, <3>1 DEF Configuring!Allowed
  <2>5. CASE active = 4
    <3>1. Configuring!ReviewReady(page)
      BY <1>5, <2>5 DEF Configuring!CanContinue, Configuring!Steps
    <3> QED
      BY <2>1, <2>5, <3>1 DEF Configuring!Allowed
  <2> QED
    BY <1>1, <1>5, <2>1, <2>2, <2>3, <2>4, <2>5
<1> QED
  BY <1>4, <1>5 DEF Configuring!OfferedStageOpens, Configuring!Last

LEMMA ReviewedIsSaved == ASSUME ConfiguringInv PROVE Configuring!ReviewIsSaved
<1> DEFINE d == page.design
<1> SUFFICES ASSUME Configuring!ReviewReady(page)
             PROVE  /\ Configuring!AcceptsProject(d)
                    /\ d.fabric # "custom" => Configuring!AcceptsPublic(d)
                    /\ Configuring!Sanitized(d) = d
  BY DEF Configuring!ReviewIsSaved
<1>1. Configuring!MeasurementsValid(d) /\ ~Configuring!PatternIssue(page)
  BY DEF Configuring!ReviewReady
<1>2. d.fabric # None
  BY <1>1, VisitAssumption DEF Configuring!PatternIssue, Configuring!Fabrics
<1>3. d.shape = "square" => d.width = d.height
  BY <1>1 DEF Configuring!MeasurementsValid
<1>4. d = [f \in Parts |-> d[f]]
  BY DEF ConfiguringInv, Whole
<1>5. Configuring!Sanitized(d) = d
  BY <1>3, <1>4 DEF Configuring!Sanitized, Parts
<1> QED
  BY <1>1, <1>2, <1>5 DEF Configuring!AcceptsProject, Configuring!AcceptsPublic

\* Every stage that is offered opens: Continue, the indicator, Back and the
\* preview's buttons never offer one that the data keeps closed, after any
\* sequence of choices, answers and reloads (configurator.tsx 184-235, 418-476).
THEOREM OfferedStagesOpen == Spec => []OfferedStageOpens
<1> DEFINE I == part = "configuring" => ConfiguringInv
<1>1. Init => I
  BY ConfiguringInitKeeps DEF Init
<1>2. I => OfferedStageOpens
  BY OfferedOpens DEF OfferedStageOpens
<1>3. I /\ [Next]_vars => I'
  <2>1. I /\ UNCHANGED vars => I'
    BY ConfiguringInvariant DEF vars, visit
  <2>2. I /\ Next => I'
    BY ConfiguringInvariant DEF Next
  <2> QED
    BY <2>1, <2>2
<1> QED
  BY <1>1, <1>2, <1>3, PTL DEF Spec

\* A design the review shows as ready is accepted by both ways to save it, and a
\* reload of the page brings the same design back (review-summary.ts 249-410,
\* design-save.ts 95-206, draft-configuration.ts).
THEOREM ReviewsAreSaved == Spec => []ReviewIsSaved
<1> DEFINE I == part = "configuring" => ConfiguringInv
<1>1. Init => I
  BY ConfiguringInitKeeps DEF Init
<1>2. I => ReviewIsSaved
  BY ReviewedIsSaved DEF ReviewIsSaved
<1>3. I /\ [Next]_vars => I'
  <2>1. I /\ UNCHANGED vars => I'
    BY ConfiguringInvariant DEF vars, visit
  <2>2. I /\ Next => I'
    BY ConfiguringInvariant DEF Next
  <2> QED
    BY <2>1, <2>2
<1> QED
  BY <1>1, <1>2, <1>3, PTL DEF Spec

-----------------------------------------------------------------------------
(* The types of the stages. *)

\* The stages: a design is made of lengths and choices.
Lengths == Nat \cup {None}
Configurations ==
    [shape : Configuring!Shapes \cup {None}, width : Lengths, height : Lengths,
     backWidth : Lengths, thickness : Lengths, unit : Configuring!Units,
     fabric : Configuring!Fabrics \cup {None}, detail : Details]
ConfiguringTyped ==
    /\ page.design \in Configurations
    /\ page.asking \in {None, "square"}
    /\ page.catalogue \in BOOLEAN /\ page.granted \in BOOLEAN

LEMMA InitialTyped == Configuring!Initial \in Configurations
BY VisitBounds DEF Configuring!Initial, Configurations, Lengths, Configuring!Units

LEMMA LengthTyped ==
    ASSUME NEW h \in Typed \cup {None} PROVE h \in Lengths
BY VisitBounds DEF Lengths

LEMMA ConvertedTyped ==
    ASSUME NEW h \in Lengths, NEW unit PROVE Configuring!Converted(h, unit) \in Lengths
<1>1. CASE h = None
  BY <1>1 DEF Configuring!Converted, Lengths
<1>2. CASE h # None
  <2>1. h \in Nat
    BY <1>2 DEF Lengths
  <2>2. (h * 254 + 50) \div 100 \in Nat /\ (h * 100 + 127) \div 254 \in Nat
    BY <2>1
  <2> QED
    BY <1>2, <2>2 DEF Configuring!Converted, Lengths
<1> QED
  BY <1>1, <1>2

LEMMA MadeTyped ==
    ASSUME NEW d \in Configurations
    PROVE  /\ \A shape \in Configuring!Shapes : Configuring!SetShape(d, shape) \in Configurations
           /\ \A f \in Configuring!Fields, h \in Lengths :
                Configuring!SetMeasure(d, f, h) \in Configurations
           /\ \A unit \in Configuring!Units : Configuring!SetUnit(d, unit) \in Configurations
           /\ Configuring!Sanitized(d) \in Configurations
<1>1. \A shape \in Configuring!Shapes : Configuring!SetShape(d, shape) \in Configurations
  BY DEF Configuring!SetShape, Configurations
<1>2. ASSUME NEW f \in Configuring!Fields, NEW h \in Lengths
      PROVE  Configuring!SetMeasure(d, f, h) \in Configurations
  <2>1. [d EXCEPT ![f] = h] \in Configurations
    BY <1>2 DEF Configurations, Configuring!Fields
  <2>2. [d EXCEPT !.width = h, !.height = h] \in Configurations
    BY <1>2 DEF Configurations
  <2> QED
    BY <2>1, <2>2 DEF Configuring!SetMeasure
<1>3. ASSUME NEW unit \in Configuring!Units
      PROVE  Configuring!SetUnit(d, unit) \in Configurations
  <2> DEFINE e == Configuring!SetUnit(d, unit)
  <2>1. e = [f \in Parts |-> IF f \in Configuring!Fields
                             THEN Configuring!Converted(d[f], d.unit)
                             ELSE IF f = "unit" THEN unit ELSE d[f]]
    BY DEF Configuring!SetUnit, Configurations, Parts
  <2>2. \A f \in Configuring!Fields : d[f] \in Lengths
    BY DEF Configurations, Configuring!Fields
  <2>3. \A f \in Configuring!Fields : Configuring!Converted(d[f], d.unit) \in Lengths
    BY <2>2, ConvertedTyped
  <2> QED
    BY <2>1, <2>3 DEF Configurations, Parts, Configuring!Fields
<1>4. Configuring!Sanitized(d) \in Configurations
  BY DEF Configuring!Sanitized, Configurations
<1> QED
  BY <1>1, <1>2, <1>3, <1>4

LEMMA ConfiguringInitTyped == ASSUME Configuring!Init PROVE ConfiguringTyped
BY InitialTyped DEF Configuring!Init, Configuring!Fresh, ConfiguringTyped

LEMMA ConfiguringStepTyped ==
    ASSUME ConfiguringInv, ConfiguringTyped, Configuring!Next \/ UNCHANGED page
    PROVE  ConfiguringTyped'
<1> USE DEF ConfiguringTyped
<1>0. DOMAIN page = {"design", "asking", "requested", "highest", "catalogue", "granted"}
  BY DEF ConfiguringInv
<1>1. CASE UNCHANGED page
  BY <1>1
<1>2. ASSUME NEW d \in Configurations, Configuring!Designs(d) PROVE ConfiguringTyped'
  BY <1>0, <1>2 DEF Configuring!Designs
<1>3. ASSUME NEW shape \in Configuring!Shapes, Configuring!ChooseShape(shape)
      PROVE  ConfiguringTyped'
  BY <1>0, <1>2, <1>3, MadeTyped DEF Configuring!ChooseShape
<1>4. CASE Configuring!AnswerShape
  <2>1. PICK d \in {page.design, Configuring!SetShape(page.design, page.asking)} :
          page' = [page EXCEPT !.asking = None, !.design = d]
    BY <1>4 DEF Configuring!AnswerShape
  <2>2. page.asking \in Configuring!Shapes
    BY <1>4 DEF Configuring!AnswerShape, Configuring!Shapes
  <2>3. d \in Configurations
    BY <2>2, MadeTyped
  <2> QED
    BY <1>0, <2>1, <2>3
<1>5. ASSUME NEW f \in Configuring!Fields, NEW h \in Typed \cup {None}, Configuring!Type(f, h)
      PROVE  ConfiguringTyped'
  BY <1>2, <1>5, LengthTyped, MadeTyped DEF Configuring!Type
<1>6. ASSUME NEW unit \in Configuring!Units, Configuring!ChangeUnit(unit)
      PROVE  ConfiguringTyped'
  BY <1>2, <1>6, MadeTyped DEF Configuring!ChangeUnit
<1>7. ASSUME NEW detail \in Details, Configuring!ChooseDetail(detail)
      PROVE  ConfiguringTyped'
  <2>1. [page.design EXCEPT !.detail = detail] \in Configurations
    BY <1>7 DEF Configurations
  <2> QED
    BY <1>2, <1>7, <2>1 DEF Configuring!ChooseDetail
<1>8. ASSUME NEW fabric \in Configuring!Fabrics, Configuring!ChooseFabric(fabric)
      PROVE  ConfiguringTyped'
  <2> DEFINE d == [page.design EXCEPT !.fabric = fabric]
  <2>1. d \in Configurations
    BY <1>8 DEF Configurations
  <2>2. page' = [page EXCEPT !.design = d, !.granted = fabric = "custom"]
    BY <1>8 DEF Configuring!ChooseFabric
  <2> HIDE DEF d
  <2> QED
    BY <1>0, <2>1, <2>2
<1>9. CASE Configuring!PreviewAnswers \/ Configuring!CatalogueChanges
  BY <1>0, <1>9 DEF Configuring!PreviewAnswers, Configuring!CatalogueChanges
<1>10. CASE Configuring!Continue
  BY <1>0, <1>10 DEF Configuring!Continue
<1>11. ASSUME NEW i \in Configuring!Offered, Configuring!GoTo(i) PROVE ConfiguringTyped'
  BY <1>0, <1>11 DEF Configuring!GoTo
<1>12. CASE Configuring!StartNew
  BY <1>12, InitialTyped DEF Configuring!StartNew, Configuring!Fresh
<1>13. CASE Configuring!Reload
  BY <1>13, MadeTyped DEF Configuring!Reload, Configuring!Fresh
<1> QED
  BY <1>1, <1>3, <1>4, <1>5, <1>6, <1>7, <1>8, <1>9, <1>10, <1>11, <1>12, <1>13
     DEF Configuring!Next

LEMMA ConfiguringTypes == ASSUME ConfiguringInv, ConfiguringTyped PROVE Configuring!TypeOK
<1>1. \A f \in Configuring!Fields : page.design[f] \in Lengths
  BY DEF ConfiguringTyped, Configurations, Configuring!Fields
<1> QED
  BY <1>1 DEF ConfiguringTyped, Configurations, ConfiguringInv, Lengths, Configuring!TypeOK

-----------------------------------------------------------------------------
(* The types of the published designs. *)

\* The public link: what the panel keeps is of the records that are stored.
Panels(records) ==
    [design : Prints, here : BOOLEAN, phase : {"idle", "saving", "error", "success"},
     link : records \cup {None}, sent : Prints \cup {None},
     copy : {"idle", "copying", "success", "error"},
     mark : {None} \cup [record : records, print : Prints]]
PublishingTyped ==
    page \in Panels(DOMAIN server) /\ server \in Seq(Prints) /\ calls \in Seq(Prints)

LEMMA PanelsGrow ==
    ASSUME NEW R, NEW S, R \subseteq S, NEW p \in Panels(R) PROVE p \in Panels(S)
BY DEF Panels

LEMMA PanelTyped ==
    ASSUME NEW R, NEW p \in Panels(R), NEW d \in Prints, NEW here \in BOOLEAN
    PROVE  /\ Publishing!Panel(d, here, p.mark) \in Panels(R)
           /\ Publishing!Panel(d, here, None) \in Panels(R)
BY DEF Publishing!Panel, Panels

LEMMA MarkedTyped ==
    ASSUME NEW R, NEW p \in Panels(R), p.phase = "success" => p.link \in R
    PROVE  Publishing!Marked(p) \in Panels(R)
<1> DEFINE mark == [record |-> p.link, print |-> p.design]
<1>1. p.phase = "success" => mark \in [record : R, print : Prints]
  BY DEF Panels
<1> HIDE DEF mark
<1>2. p.phase = "success" => [p EXCEPT !.mark = mark] \in Panels(R)
  BY <1>1 DEF Panels
<1> QED
  BY <1>2 DEF Publishing!Marked, mark

LEMMA Lengthened ==
    ASSUME NEW S, NEW s \in Seq(S), NEW t \in Seq(S)
    PROVE  s \o t \in Seq(S) /\ DOMAIN s \subseteq DOMAIN (s \o t)
OBVIOUS

LEMMA PublishingInitTyped == ASSUME Publishing!Init PROVE PublishingTyped
BY DEF Publishing!Init, Publishing!Panel, PublishingTyped, Panels

LEMMA PublishingStepTyped ==
    ASSUME PublishingInv, PublishingTyped, Publishing!Next \/ UNCHANGED Publishing!vars
    PROVE  PublishingTyped'
<1>0. /\ page \in Panels(DOMAIN server) /\ server \in Seq(Prints) /\ calls \in Seq(Prints)
      /\ calls # <<>> => Head(calls) \in Prints /\ Tail(calls) \in Seq(Prints)
      /\ <<>> \in Seq(Prints) /\ page.design \in Prints
      /\ page.phase = "success" => page.link \in DOMAIN server
  BY DEF PublishingTyped, PublishingInv
<1>1. CASE UNCHANGED Publishing!vars
  BY <1>1 DEF Publishing!vars, PublishingTyped
<1>2. \A R : page \in Panels(R) =>
        /\ [page EXCEPT !.phase = "saving", !.sent = page.design] \in Panels(R)
        /\ [page EXCEPT !.phase = "error"] \in Panels(R)
        /\ \A c \in {"copying", "success", "error"} : [page EXCEPT !.copy = c] \in Panels(R)
        /\ \A d \in Prints : [page EXCEPT !.design = d, !.mark = None] \in Panels(R)
        /\ \A r \in R : [page EXCEPT !.phase = "success", !.link = r] \in Panels(R)
  BY DEF Panels
<1>3. ASSUME NEW record \in DOMAIN server', Publishing!Answered(record),
             DOMAIN server \subseteq DOMAIN server'
      PROVE  page' \in Panels(DOMAIN server')
  <2> DEFINE p == [page EXCEPT !.phase = "success", !.link = record]
  <2>1. p \in Panels(DOMAIN server') /\ [page EXCEPT !.phase = "error"] \in Panels(DOMAIN server')
    BY <1>0, <1>2, <1>3, PanelsGrow
  <2>2. p.link = record
    BY <1>0 DEF Panels
  <2> HIDE DEF p
  <2>3. Publishing!Marked(p) \in Panels(DOMAIN server')
    BY <2>1, <2>2, MarkedTyped
  <2> QED
    BY <1>3, <2>1, <2>3 DEF Publishing!Answered, p
<1>4. CASE Publishing!Submit
  <2>1. page.design \in Prints /\ <<page.design>> \in Seq(Prints)
    BY <1>0
  <2> QED
    BY <1>0, <1>2, <1>4, <2>1 DEF Publishing!Submit, PublishingTyped
<1>5. CASE Publishing!Stores
  <2>1. /\ server' = Append(server, Head(calls)) /\ calls' = Tail(calls)
        /\ server' \in Seq(Prints) /\ calls' \in Seq(Prints)
        /\ DOMAIN server \subseteq DOMAIN server' /\ Len(server') \in DOMAIN server'
    BY <1>0, <1>5 DEF Publishing!Stores
  <2>2. page' \in Panels(DOMAIN server')
    BY <1>0, <1>2, <1>3, <1>5, <2>1, PanelsGrow DEF Publishing!Stores
  <2> QED
    BY <2>1, <2>2 DEF PublishingTyped
<1>6. CASE Publishing!Fails
  BY <1>0, <1>2, <1>3, <1>6 DEF Publishing!Fails, PublishingTyped
<1>7. CASE Publishing!Copy \/ Publishing!Copied
  BY <1>0, <1>2, <1>7 DEF Publishing!Copy, Publishing!Copied, PublishingTyped
<1>8. CASE Publishing!Leave
  <2>1. /\ calls' = <<>> /\ page' = Publishing!Panel(page.design, FALSE, page.mark)
        /\ server' = server \/ server' = server \o calls
    BY <1>8 DEF Publishing!Leave
  <2>2. server' \in Seq(Prints) /\ DOMAIN server \subseteq DOMAIN server'
    BY <1>0, <2>1, Lengthened
  <2>3. page' \in Panels(DOMAIN server')
    BY <1>0, <2>1, <2>2, PanelTyped, PanelsGrow
  <2> QED
    BY <1>0, <2>1, <2>2, <2>3 DEF PublishingTyped
<1>9. CASE Publishing!Enter
  BY <1>0, <1>9, PanelTyped DEF Publishing!Enter, PublishingTyped
<1>10. CASE Publishing!Replaced
  <2>1. PICK d \in Prints : /\ page' = Publishing!Marked([page EXCEPT !.design = d,
                                                                   !.mark = None])
                            /\ UNCHANGED <<calls, server>>
    BY <1>10 DEF Publishing!Replaced
  <2> DEFINE p == [page EXCEPT !.design = d, !.mark = None]
  <2>2. p \in Panels(DOMAIN server)
    BY <1>0, <1>2
  <2>3. p.phase = page.phase /\ p.link = page.link
    BY <1>0 DEF Panels
  <2> HIDE DEF p
  <2>4. Publishing!Marked(p) \in Panels(DOMAIN server)
    BY <1>0, <2>2, <2>3, MarkedTyped
  <2> QED
    BY <1>0, <2>1, <2>4 DEF p, PublishingTyped
<1> QED
  BY <1>1, <1>4, <1>5, <1>6, <1>7, <1>8, <1>9, <1>10 DEF Publishing!Next

LEMMA PublishingTypes == ASSUME PublishingTyped PROVE Publishing!TypeOK
BY DEF PublishingTyped, Panels, Publishing!TypeOK

-----------------------------------------------------------------------------
(* The types of what is saved. *)

\* What the page says, besides what it remembers of the account.
Says(p) ==
    /\ p.here \in BOOLEAN /\ p.auth \in {"initializing", "guest", "in", "out"}
    /\ p.pending # None => p.pending.kind \in Saving!Kinds
    /\ p.project # None =>
         p.project = Saving!Link(p.project.id, p.project.version, p.project.print)
SavingTyped == Says(page) /\ server.gone \subseteq DOMAIN server.projects

LEMMA SaysStill ==
    ASSUME NEW p, DOMAIN p = {"design", "here", "auth", "project", "marker", "pending",
                              "linked"}, Says(p)
    PROVE  /\ Says(Saving!Away(p)) /\ Says(Saving!Unlinked(p))
           /\ DOMAIN Saving!Unlinked(p) = DOMAIN p
           /\ \A auth \in {"initializing", "guest", "in", "out"} :
                Says([p EXCEPT !.auth = auth])
           /\ Says([p EXCEPT !.here = TRUE]) /\ Says([p EXCEPT !.pending = None])
BY DEF Says, Saving!Away, Saving!Unlinked

\* A page that forgets, or remembers the same.
LEMMA SaysSame ==
    ASSUME NEW p, NEW q, Says(p), q.here \in BOOLEAN,
           q.auth \in {"initializing", "guest", "in", "out"},
           q.pending \in {None, p.pending}, q.project \in {None, p.project}
    PROVE  Says(q)
BY DEF Says

\* The draft and the panel remember a link.
LEMMA SaysSaved ==
    ASSUME SavingInv, Says(page), NEW id, NEW version, NEW print, NEW newProject,
           LET saved == Saving!Link(id, version, print)
           IN  Saving!AfterSave(Saving!Remembers(saved, newProject), saved)
    PROVE  Says(page')
<1> DEFINE saved == Saving!Link(id, version, print)
<1>1. page' = Saving!Remembers(saved, newProject)
  BY DEF Saving!AfterSave, Saving!Goes, Saving!Ends
<1>2. saved = Saving!Link(saved.id, saved.version, saved.print)
  BY DEF Saving!Link
<1> HIDE DEF saved
<1>3. /\ page'.here = page.here /\ page'.auth = page.auth
      /\ page'.pending = page.pending /\ page'.project = saved
  BY <1>1 DEF Saving!Remembers, SavingInv, SavingGood, Remembered
<1> QED
  BY <1>2, <1>3 DEF Says

\* What an action's answers do to the page.
LEMMA SavingAnswersTyped ==
    ASSUME SavingInv, Says(page),
           \/ Saving!Look \/ Saving!CreateVersion \/ Saving!CreateProject
           \/ Saving!LookAtCart \/ Saving!ReuseQuote \/ Saving!CreateQuote \/ Saving!AddQuote
           \/ Saving!ActionFails \/ Saving!LinkChecked \/ Saving!CheckFails
    PROVE  Says(page')
<1>1. DOMAIN page = {"design", "here", "auth", "project", "marker", "pending", "linked"}
  BY DEF SavingInv, SavingGood, Remembered
<1>2. ASSUME \/ UNCHANGED page
             \/ page' = [page EXCEPT !.project = None, !.marker = None]
             \/ \E marker : page' = [page EXCEPT !.marker = marker]
             \/ \E linked : page' = [page EXCEPT !.linked = linked]
      PROVE  Says(page')
  <2>1. /\ page'.here = page.here /\ page'.auth = page.auth
        /\ page'.pending = page.pending /\ page'.project \in {None, page.project}
    BY <1>1, <1>2
  <2>2. page.here \in BOOLEAN /\ page.auth \in {"initializing", "guest", "in", "out"}
    BY DEF Says
  <2> QED
    BY <2>1, <2>2, SaysSame
<1>3. CASE Saving!Look
  <2> DEFINE id == calls.action.id  saved == Saving!Link(id, Len(server.projects[id]), calls.action.print)
  <2>1. \/ page' = page
        \/ page' = [page EXCEPT !.project = None, !.marker = None]
        \/ Saving!AfterSave(Saving!Remembers(saved, FALSE), saved)
    BY <1>3 DEF Saving!Look, Saving!Goes, Saving!Now
  <2> QED
    BY <1>2, <2>1, SaysSaved
<1>4. CASE Saving!CreateVersion \/ Saving!CreateProject
  BY <1>2, <1>4, SaysSaved DEF Saving!CreateVersion, Saving!CreateProject, Saving!Goes,
     Saving!Ends
<1>5. CASE \/ Saving!LookAtCart \/ Saving!ReuseQuote \/ Saving!CreateQuote
           \/ Saving!AddQuote \/ Saving!ActionFails
  BY <1>2, <1>5 DEF Saving!LookAtCart, Saving!ReuseQuote, Saving!CreateQuote,
     Saving!AddQuote, Saving!ActionFails, Saving!Goes, Saving!Ends
<1>6. CASE Saving!LinkChecked \/ Saving!CheckFails
  BY <1>2, <1>6 DEF Saving!LinkChecked, Saving!CheckFails
<1> QED
  BY <1>3, <1>4, <1>5, <1>6

\* What the visitor and the world do to it.
LEMMA SavingVisitorTyped ==
    ASSUME SavingInv, Says(page),
           \/ \E kind \in Saving!Kinds : Saving!Start(kind)
           \/ Saving!ContinueAsGuest \/ Saving!LeaveReview \/ Saving!EnterReview
           \/ Saving!Edit \/ Saving!SessionChecked \/ Saving!SignIn
           \/ Saving!SessionEnds \/ Saving!SignOut \/ Saving!StartNew \/ Saving!Reload
           \/ Saving!Elsewhere
    PROVE  Says(page')
<1>1. DOMAIN page = {"design", "here", "auth", "project", "marker", "pending", "linked"}
  BY DEF SavingInv, SavingGood, Remembered
<1>2. CASE UNCHANGED page
  BY <1>2
<1>3. CASE \E kind \in Saving!Kinds : Saving!Start(kind)
  <2>1. \/ page' = page
        \/ \E kind \in Saving!Kinds : \E d :
             page' = [page EXCEPT !.pending = [kind |-> kind, print |-> d]]
    BY <1>3 DEF Saving!Start
  <2>2. ASSUME NEW kind \in Saving!Kinds, NEW d,
               page' = [page EXCEPT !.pending = [kind |-> kind, print |-> d]]
        PROVE  Says(page')
    BY <1>1, <2>2 DEF Says
  <2> QED
    BY <1>2, <2>1, <2>2
<1>4. CASE Saving!ContinueAsGuest \/ Saving!LeaveReview \/ Saving!Edit \/ Saving!SessionEnds
  <2>1. \/ page' = [page EXCEPT !.pending = None]
        \/ page' = Saving!Away(page)
        \/ \E d : page' = [page EXCEPT !.design = d]
        \/ page' = [page EXCEPT !.auth = "guest"]
    BY <1>4 DEF Saving!ContinueAsGuest, Saving!LeaveReview, Saving!Edit, Saving!SessionEnds
  <2>2. /\ page'.here \in BOOLEAN /\ page'.auth \in {"initializing", "guest", "in", "out"}
        /\ page'.pending \in {None, page.pending} /\ page'.project = page.project
    BY <1>1, <2>1 DEF Says, Saving!Away
  <2> QED
    BY <2>2, SaysSame
<1>5. ASSUME NEW q, DOMAIN q = DOMAIN page, Says(q), Saving!Resumed(q, calls)
      PROVE  Says(page')
  <2>1. page' = q \/ page' = [q EXCEPT !.pending = None]
    BY <1>5 DEF Saving!Resumed
  <2> QED
    BY <1>1, <1>5, <2>1, SaysStill
<1>6. CASE Saving!EnterReview
  BY <1>1, <1>5, <1>6, SaysStill DEF Saving!EnterReview
<1>7. CASE Saving!SessionChecked \/ Saving!SignIn
  <2>1. \E auth \in {"initializing", "guest", "in", "out"} :
          Saving!Resumed([page EXCEPT !.auth = auth], calls)
    BY <1>7 DEF Saving!SessionChecked, Saving!SignIn
  <2> QED
    BY <1>1, <1>5, <2>1, SaysStill
<1>8. CASE Saving!SignOut \/ Saving!StartNew
  <2> DEFINE q == Saving!Unlinked(page)  r == [q EXCEPT !.auth = "out"]
  <2>1. Says(q) /\ DOMAIN q = DOMAIN page
    BY <1>1, SaysStill
  <2>2. page' \in {r, Saving!Away(q), Saving!Away(r)}
    BY <1>8 DEF Saving!SignOut, Saving!StartNew
  <2> HIDE DEF q
  <2>3. Says(r) /\ DOMAIN r = DOMAIN page
    BY <1>1, <2>1, SaysStill
  <2> HIDE DEF r
  <2> QED
    BY <1>1, <2>1, <2>2, <2>3, SaysStill
<1>9. CASE Saving!Reload
  <2> DEFINE q == Saving!Away(page)
  <2>1. Says(q) /\ DOMAIN q = DOMAIN page
    BY <1>1, SaysStill DEF Saving!Away
  <2>2. page' = [q EXCEPT !.auth = "initializing"]
    BY <1>9 DEF Saving!Reload
  <2> HIDE DEF q
  <2> QED
    BY <1>1, <2>1, <2>2, SaysStill
<1>10. CASE Saving!Elsewhere
  BY <1>2, <1>10 DEF Saving!Elsewhere
<1> QED
  BY <1>3, <1>4, <1>6, <1>7, <1>8, <1>9, <1>10

\* What is deleted was created.
LEMMA GoneTyped ==
    ASSUME SavingInv, SavingTyped, Saving!Next \/ UNCHANGED Saving!vars
    PROVE  (server.gone \subseteq DOMAIN server.projects)'
<1>1. /\ server.gone \subseteq DOMAIN server.projects
      /\ DOMAIN server = {"projects", "gone", "quotes", "cart"}
      /\ server.projects \in Seq(Seq(Prints))
  BY DEF SavingTyped, SavingInv, SavingGood, Account
<1>2. CASE UNCHANGED server
  BY <1>1, <1>2
<1>3. CASE Saving!CreateVersion
  <2>1. \E r : server' = [server EXCEPT !.projects = [@ EXCEPT ![calls.action.id] = r]]
    BY <1>3 DEF Saving!CreateVersion, Saving!Now
  <2> QED
    BY <1>1, <2>1
<1>4. CASE Saving!CreateProject
  <2>1. server' = [server EXCEPT !.projects = Append(@, <<calls.action.print>>)]
    BY <1>4 DEF Saving!CreateProject, Saving!Now
  <2>2. calls.action.print \in Prints
    BY <1>4 DEF Saving!CreateProject, Saving!At, SavingInv, SavingGood, Acting
  <2>3. DOMAIN server.projects \subseteq DOMAIN Append(server.projects, <<calls.action.print>>)
    <3>1. <<calls.action.print>> \in Seq(Prints)
      BY <2>2
    <3> QED
      BY <1>1, <3>1, Appended
  <2> QED
    BY <1>1, <2>1, <2>3
<1>5. CASE Saving!CreateQuote \/ Saving!AddQuote
  BY <1>1, <1>5 DEF Saving!CreateQuote, Saving!AddQuote
<1>6. CASE Saving!Elsewhere
  BY <1>1, <1>6 DEF Saving!Elsewhere
<1>7. UNCHANGED server \/ Saving!CreateVersion \/ Saving!CreateProject
      \/ Saving!CreateQuote \/ Saving!AddQuote \/ Saving!Elsewhere
  BY DEF Saving!Next, Saving!vars, Saving!Start, Saving!ContinueAsGuest, Saving!Look,
     Saving!LookAtCart, Saving!ReuseQuote, Saving!ActionFails, Saving!LinkChecked,
     Saving!CheckFails, Saving!LeaveReview, Saving!EnterReview, Saving!Edit,
     Saving!SessionChecked, Saving!SignIn, Saving!SessionEnds, Saving!SignOut,
     Saving!StartNew, Saving!Reload
<1> QED
  BY <1>2, <1>3, <1>4, <1>5, <1>6, <1>7

LEMMA SavingInitTyped == ASSUME Saving!Init PROVE SavingTyped
BY DEF Saving!Init, SavingTyped, Says

LEMMA SavingStepTyped ==
    ASSUME SavingInv, SavingTyped, Saving!Next \/ UNCHANGED Saving!vars
    PROVE  SavingTyped'
<1>1. Says(page)
  BY DEF SavingTyped
<1>2. CASE UNCHANGED Saving!vars
  BY <1>2 DEF Saving!vars, SavingTyped
<1>3. CASE Saving!Next
  <2>1. Says(page')
    BY <1>1, <1>3, SavingAnswersTyped, SavingVisitorTyped DEF Saving!Next
  <2>2. Says(page)'
    BY <2>1 DEF Says
  <2> QED
    BY <1>3, <2>2, GoneTyped DEF SavingTyped
<1> QED
  BY <1>2, <1>3

LEMMA SavingTypes == ASSUME SavingInv, SavingTyped PROVE Saving!TypeOK
<1>1. /\ Account(server) /\ Remembered(page, server) /\ Says(page)
      /\ server.projects \in Seq(Seq(Prints)) /\ server.cart \subseteq DOMAIN server.quotes
      /\ calls.check # None => calls.check \in DOMAIN server.projects
  BY DEF SavingInv, SavingGood, SavingTyped, Account
<1>2. ASSUME page.project # None PROVE page.project \in Saving!Links
  <2> DEFINE link == page.project
  <2>1. /\ link.id \in DOMAIN server.projects
        /\ link.version \in DOMAIN server.projects[link.id]
        /\ server.projects[link.id][link.version] = link.print
    BY <1>1, <1>2 DEF Remembered, Stored
  <2>2. server.projects[link.id] \in Seq(Prints)
    BY <1>1, <2>1
  <2>3. link.version \in Nat \ {0} /\ link.print \in Prints
    BY <2>1, <2>2
  <2>4. link = Saving!Link(link.id, link.version, link.print)
    BY <1>1, <1>2 DEF Says
  <2> HIDE DEF link
  <2>5. link \in Saving!Links
    BY <2>1, <2>3, <2>4 DEF Saving!Links, Saving!Link
  <2> QED
    BY <2>5 DEF link
<1>3. ASSUME page.linked # None PROVE page.linked.print \in Prints
  <2>1. PICK v \in DOMAIN server.projects[page.linked.id] :
          server.projects[page.linked.id][v] = page.linked.print
    BY <1>1, <1>3 DEF Remembered, Known
  <2>2. server.projects[page.linked.id] \in Seq(Prints)
    BY <1>1, <1>3 DEF Remembered, Known
  <2> QED
    BY <2>1, <2>2
<1>4. page.marker # None => page.marker.quote \in 1 .. Len(server.quotes)
  BY <1>1 DEF Remembered, Account
<1>5. page.design \in Prints
  BY <1>1 DEF Remembered
<1> QED
  BY <1>1, <1>2, <1>3, <1>4, <1>5 DEF Saving!TypeOK, Says, SavingTyped

-----------------------------------------------------------------------------
(* The types of the own patterns. *)

\* What a page chose, and what its requests are about.
Chosen(pattern) == DOMAIN pattern = {"id", "preview", "gone"} /\ pattern.id \in Patterns!Uploads
PageTyped(p) ==
    /\ DOMAIN p = {"stage", "signedIn", "known", "offers", "pattern", "urls", "form",
                   "list", "image"}
    /\ p.stage \in Patterns!Stages /\ p.signedIn \in BOOLEAN
    /\ p.known \in {None, "enabled", "disabled"}
    /\ p.offers \in {"checking", "enabled", "disabled", "unknown"}
    /\ p.pattern # None => Chosen(p.pattern)
Uploading(upload) ==
    /\ DOMAIN upload = {"step", "id", "here"}
    /\ upload.step = "confirm" => upload.id \in Patterns!Uploads
Removing(r) == DOMAIN r = {"id", "here", "uses"} /\ r.id \in Patterns!Uploads
CallsTyped(c) ==
    /\ DOMAIN c = {"availability", "checks", "upload", "polls", "selects", "removes",
                   "restore", "image"}
    /\ c.polls \subseteq Patterns!Uploads \X (0 .. MaxPolls)
    /\ c.selects \subseteq Patterns!Uploads
    /\ \A r \in c.removes : Removing(r)
    /\ c.upload # None => Uploading(c.upload)
    /\ c.restore # None => Chosen(c.restore)
PatternsTyped ==
    /\ PageTyped(page) /\ CallsTyped(calls)
    /\ server \in [Patterns!Uploads -> Patterns!States]

\* Another page with the same choices, and other requests about the same uploads.
Choices(p) == <<p.stage, p.signedIn, p.known, p.offers, p.pattern>>
Asks(c) == <<c.polls, c.selects, c.removes, c.upload, c.restore>>
LEMMA SameTyped ==
    /\ \A p, q : PageTyped(p) /\ DOMAIN q = DOMAIN p /\ Choices(q) = Choices(p) => PageTyped(q)
    /\ \A c, d : CallsTyped(c) /\ DOMAIN d = DOMAIN c /\ Asks(d) = Asks(c) => CallsTyped(d)
BY DEF PageTyped, CallsTyped, Choices, Asks

LEMMA SamePages ==
    ASSUME NEW p, PageTyped(p)
    PROVE  /\ \A urls : PageTyped(Patterns!Revoked(p, urls))
           /\ PageTyped(Patterns!Created(p)) /\ PageTyped(Patterns!Listing(p))
           /\ \A id, state : PageTyped(Patterns!Listed(p, id, state))
           /\ \A form : PageTyped([p EXCEPT !.form = form])
           /\ \A list1 : PageTyped([p EXCEPT !.list = list1])
           /\ \A image : PageTyped([p EXCEPT !.image = image])
<1>1. ASSUME NEW urls PROVE PageTyped(Patterns!Revoked(p, urls))
  BY DEF PageTyped, Patterns!Revoked
<1>2. PageTyped(Patterns!Created(p))
  BY DEF PageTyped, Patterns!Created
<1>3. PageTyped(Patterns!Listing(p))
  BY DEF PageTyped, Patterns!Listing
<1>4. ASSUME NEW id, NEW state PROVE PageTyped(Patterns!Listed(p, id, state))
  BY DEF PageTyped, Patterns!Listed
<1>5. ASSUME NEW x
      PROVE  /\ PageTyped([p EXCEPT !.form = x]) /\ PageTyped([p EXCEPT !.list = x])
             /\ PageTyped([p EXCEPT !.image = x])
  BY DEF PageTyped
<1> QED
  BY <1>1, <1>2, <1>3, <1>4, <1>5

LEMMA EffectsTyped ==
    ASSUME NEW p, NEW c, PageTyped(p), CallsTyped(c), Patterns!Effects(p, c)
    PROVE  PageTyped(page)' /\ CallsTyped(calls)'
<1>1. PageTyped(page')
  <2> DEFINE r == Patterns!Revoked(p, Patterns!Held(p.image.url))
  <2>1. PageTyped(r)
    BY SamePages
  <2>2. page' = p \/ page' = [r EXCEPT !.image = Patterns!NoImage]
    BY DEF Patterns!Effects
  <2> HIDE DEF r
  <2> QED
    BY <2>1, <2>2, SamePages
<1>2. PICK image, restore :
        /\ calls' = [c EXCEPT !.image = image, !.restore = restore]
        /\ restore \in {c.restore, Patterns!Restoring(p)}
  BY DEF Patterns!Effects
<1>3. restore # None => Chosen(restore)
  BY <1>2 DEF Patterns!Restoring, PageTyped, CallsTyped
<1>4. CallsTyped(calls')
  BY <1>2, <1>3 DEF CallsTyped
<1> QED
  BY <1>1, <1>4 DEF PageTyped, CallsTyped

\* Pictures, grants and the availability are answered.
LEMMA PicturesTyped ==
    ASSUME PatternsTyped,
           Patterns!ImageAnswers \/ Patterns!RestoreAnswers \/ Patterns!AvailabilityAnswers
    PROVE  PageTyped(page)' /\ CallsTyped(calls)'
<1>1. PageTyped(page) /\ CallsTyped(calls)
  BY DEF PatternsTyped
<1>2. CASE Patterns!ImageAnswers
  <2>1. CallsTyped(calls')
    BY <1>1, <1>2 DEF Patterns!ImageAnswers, CallsTyped
  <2>2. PageTyped(page')
    BY <1>1, <1>2 DEF Patterns!ImageAnswers, Patterns!Created, PageTyped
  <2> QED
    BY <2>1, <2>2 DEF PageTyped, CallsTyped
<1>3. CASE Patterns!RestoreAnswers
  <2> DEFINE id == calls.restore.id  c == [calls EXCEPT !.restore = None]
  <2>1. PICK pattern : /\ Patterns!Effects([page EXCEPT !.pattern = pattern], c)
                       /\ \/ pattern = [id |-> id, preview |-> TRUE, gone |-> None]
                          \/ \E gone : pattern = [id |-> id, preview |-> FALSE, gone |-> gone]
    <3> DEFINE Pattern(answered) ==
            IF answered /\ server[id] = "approved"
            THEN [id |-> id, preview |-> TRUE, gone |-> None]
            ELSE [id |-> id, preview |-> FALSE, gone |->
                  IF answered /\ server[id] = "deleted" THEN "deleted" ELSE "unavailable"]
    <3>1. \E answered \in {page.signedIn, FALSE} :
            Patterns!Effects([page EXCEPT !.pattern = Pattern(answered)], c)
      BY <1>3 DEF Patterns!RestoreAnswers
    <3>2. \A answered :
            \/ Pattern(answered) = [id |-> id, preview |-> TRUE, gone |-> None]
            \/ \E gone : Pattern(answered) = [id |-> id, preview |-> FALSE, gone |-> gone]
      OBVIOUS
    <3> HIDE DEF Pattern
    <3> QED
      BY <3>1, <3>2
  <2>2. id \in Patterns!Uploads
    BY <1>1, <1>3 DEF Patterns!RestoreAnswers, CallsTyped, Chosen
  <2>3. Chosen(pattern)
    BY <2>1, <2>2 DEF Chosen
  <2>4. PageTyped([page EXCEPT !.pattern = pattern])
    BY <1>1, <2>3 DEF PageTyped
  <2>5. CallsTyped(c)
    BY <1>1 DEF CallsTyped
  <2> QED
    BY <2>1, <2>4, <2>5, EffectsTyped
<1>4. CASE Patterns!AvailabilityAnswers
  <2>1. PICK known \in {None, "enabled", "disabled"},
             offers \in {"checking", "enabled", "disabled", "unknown"} :
          page' = Patterns!Listing([page EXCEPT !.known = known, !.offers = offers])
    BY <1>1, <1>4 DEF Patterns!AvailabilityAnswers, PageTyped
  <2>2. PageTyped([page EXCEPT !.known = known, !.offers = offers])
    BY <1>1 DEF PageTyped
  <2>3. PageTyped(page')
    BY <2>1, <2>2, SamePages
  <2>4. CallsTyped(calls')
    BY <1>1, <1>4 DEF Patterns!AvailabilityAnswers, CallsTyped
  <2> QED
    BY <2>3, <2>4 DEF PageTyped, CallsTyped
<1> QED
  BY <1>2, <1>3, <1>4

\* The stage changes.
LEMMA GoTyped ==
    ASSUME PatternsTyped, NEW stage \in Patterns!Stages, Patterns!GoTo(stage)
    PROVE  PageTyped(page)' /\ CallsTyped(calls)'
<1>1. PageTyped(page) /\ CallsTyped(calls)
  BY DEF PatternsTyped
<1> DEFINE left == Patterns!Left(page)
           p == [left EXCEPT !.stage = stage, !.offers = Patterns!Offers(page.known)]
           c == [calls EXCEPT !.checks = {}, !.polls = {},
                    !.upload = IF @ = None THEN None ELSE [@ EXCEPT !.here = FALSE],
                    !.removes = {[r EXCEPT !.here = FALSE] : r \in @},
                    !.availability = @ \/ (stage = "pattern" /\ page.known = None)]
<1>2. Patterns!Effects(Patterns!Listing(p), c)
  BY DEF Patterns!GoTo
<1>3. PageTyped(left)
  <2>1. PageTyped([page EXCEPT !.form = Patterns!NoForm, !.list = Patterns!EmptyResource])
    BY <1>1 DEF PageTyped
  <2> QED
    BY <2>1, SamePages DEF Patterns!Left
<1>4. Patterns!Offers(page.known) \in {"checking", "enabled", "disabled", "unknown"}
  BY <1>1 DEF Patterns!Offers, PageTyped
<1> HIDE DEF left
<1>5. PageTyped(Patterns!Listing(p))
  <2>1. PageTyped(p)
    BY <1>3, <1>4 DEF PageTyped
  <2> HIDE DEF p
  <2> QED
    BY <2>1, SamePages
<1>6. CallsTyped(c)
  <2>1. /\ DOMAIN c = DOMAIN calls /\ c.polls = {} /\ c.selects = calls.selects
        /\ c.restore = calls.restore
        /\ c.upload = IF calls.upload = None THEN None ELSE [calls.upload EXCEPT !.here = FALSE]
        /\ c.removes = {[r EXCEPT !.here = FALSE] : r \in calls.removes}
    BY <1>1 DEF CallsTyped
  <2> HIDE DEF c
  <2>2. c.upload # None => Uploading(c.upload)
    <3>1. CASE calls.upload = None
      BY <2>1, <3>1
    <3>2. CASE calls.upload # None
      <4>1. Uploading(calls.upload)
        BY <1>1, <3>2 DEF CallsTyped
      <4> QED
        BY <2>1, <3>2, <4>1 DEF Uploading
    <3> QED
      BY <3>1, <3>2
  <2>3. \A r \in c.removes : Removing(r)
    <3>1. \A r \in calls.removes : Removing(r)
      BY <1>1 DEF CallsTyped
    <3>2. ASSUME NEW r, Removing(r) PROVE Removing([r EXCEPT !.here = FALSE])
      BY <3>2 DEF Removing
    <3> QED
      BY <2>1, <3>1, <3>2
  <2> QED
    BY <1>1, <2>1, <2>2, <2>3 DEF CallsTyped
<1> HIDE DEF p, c
<1> QED
  BY <1>2, <1>5, <1>6, EffectsTyped

\* Files, and the list of the uploads.
LEMMA FilesTyped ==
    ASSUME PatternsInv, PatternsTyped,
           \/ Patterns!ChooseFile \/ Patterns!Acknowledge \/ Patterns!ListAnswers
           \/ \E url \in calls.checks : Patterns!FileChecked(url)
    PROVE  PageTyped(page)' /\ CallsTyped(calls)'
<1>1. PageTyped(page) /\ CallsTyped(calls)
  BY DEF PatternsTyped
<1>2. CallsTyped(calls')
  <2>1. UNCHANGED calls \/ \E checks : calls' = [calls EXCEPT !.checks = checks]
    BY DEF Patterns!ChooseFile, Patterns!Acknowledge, Patterns!ListAnswers,
       Patterns!FileChecked
  <2> QED
    BY <1>1, <2>1 DEF CallsTyped
<1>3. CASE Patterns!ChooseFile
  <2> DEFINE cleared == Patterns!Revoked([page EXCEPT !.form.checking = None, !.form.file = None],
                              Patterns!Held(page.form.file))
  <2>1. PageTyped([page EXCEPT !.form.checking = None, !.form.file = None])
    BY <1>1 DEF PageTyped
  <2>2. PageTyped(cleared)
    BY <2>1, SamePages
  <2>3. \/ page' = cleared
        \/ \E url : page' = [Patterns!Created(cleared) EXCEPT !.form.checking = url]
    BY <1>3 DEF Patterns!ChooseFile
  <2> HIDE DEF cleared
  <2>4. PageTyped(Patterns!Created(cleared))
    BY <2>2, SamePages
  <2>5. PageTyped(page')
    BY <2>2, <2>3, <2>4 DEF PageTyped
  <2> QED
    BY <1>2, <2>5 DEF PageTyped, CallsTyped
<1>4. CASE Patterns!Acknowledge \/ Patterns!ListAnswers
  <2>1. (\E form : page' = [page EXCEPT !.form = form])
        \/ (\E list1 : page' = [page EXCEPT !.list = list1])
    BY <1>4 DEF Patterns!Acknowledge, Patterns!ListAnswers
  <2>2. PageTyped(page')
    BY <1>1, <2>1, SamePages
  <2> QED
    BY <1>2, <2>2 DEF PageTyped, CallsTyped
<1>5. ASSUME NEW url \in calls.checks, Patterns!FileChecked(url)
      PROVE  PageTyped(page)' /\ CallsTyped(calls)'
  <2> DEFINE q == Patterns!Revoked(page, {url})
  <2>1. PageTyped(q)
    BY <1>1, SamePages
  <2>2. \/ page' \in {q, [q EXCEPT !.form.checking = None]}
        \/ page' = [page EXCEPT !.form.checking = None, !.form.file = url]
    BY <1>5 DEF Patterns!FileChecked
  <2> HIDE DEF q
  <2>3. PageTyped(page')
    BY <1>1, <2>1, <2>2 DEF PageTyped
  <2> QED
    BY <1>2, <2>3 DEF PageTyped, CallsTyped
<1> QED
  BY <1>3, <1>4, <1>5

\* An upload, and what is asked about uploads.
LEMMA UploadsTyped ==
    ASSUME PatternsTyped,
           \/ Patterns!Upload \/ Patterns!Acknowledged \/ Patterns!Intended
           \/ Patterns!Confirmed \/ Patterns!UploadFails
           \/ \E poll \in calls.polls : Patterns!Polled(poll)
           \/ \E id \in Patterns!Uploads :
                Patterns!Retry(id) \/ Patterns!Select(id) \/ Patterns!Remove(id)
    PROVE  PageTyped(page)' /\ CallsTyped(calls)'
<1>1. PageTyped(page) /\ CallsTyped(calls)
  BY DEF PatternsTyped
<1>2. MaxPolls \in Nat \ {0}
  BY VisitBounds
<1>3. ASSUME NEW upload, upload # None => Uploading(upload),
             calls' = [calls EXCEPT !.upload = upload]
      PROVE  CallsTyped(calls')
  BY <1>1, <1>3 DEF CallsTyped
<1>4. calls.upload # None => Uploading(calls.upload)
  BY <1>1 DEF CallsTyped
<1>5. PageTyped(page')
  <2>1. CASE \E form : page' = [page EXCEPT !.form = form]
    BY <1>1, <2>1, SamePages
  <2>2. CASE page' = page
    BY <1>1, <2>2
  <2>3. CASE Patterns!Confirmed
    <3> DEFINE id == calls.upload.id
               r == Patterns!Listed(page, id, "processing")
               p == Patterns!Revoked(r, Patterns!Held(page.form.file))
    <3>1. PageTyped(r)
      BY <1>1, SamePages
    <3> HIDE DEF r
    <3>2. PageTyped(p)
      BY <3>1, SamePages
    <3>3. page' = page \/ \E form : page' = [p EXCEPT !.form = form]
      BY <2>3 DEF Patterns!Confirmed, r
    <3> HIDE DEF p
    <3> QED
      BY <1>1, <3>2, <3>3, SamePages
  <2>4. CASE \E poll \in calls.polls : Patterns!Polled(poll)
    <3>1. page' = page \/ \E id, state : page' = Patterns!Listed(page, id, state)
      BY <2>4 DEF Patterns!Polled
    <3> QED
      BY <1>1, <3>1, SamePages
  <2> QED
    BY <2>1, <2>2, <2>3, <2>4 DEF Patterns!Upload, Patterns!Acknowledged, Patterns!Intended,
       Patterns!UploadFails, Patterns!Retry, Patterns!Select, Patterns!Remove
<1>6. CallsTyped(calls')
  <2>1. CASE Patterns!Upload
    <3>1. Uploading([step |-> "acknowledge", id |-> None, here |-> TRUE])
      BY DEF Uploading
    <3> QED
      BY <1>3, <2>1, <3>1 DEF Patterns!Upload
  <2>2. CASE Patterns!Acknowledged
    <3> DEFINE upload == [calls.upload EXCEPT !.step = "intent"]
    <3>1. Uploading(upload) /\ calls' = [calls EXCEPT !.upload = upload]
      BY <1>4, <2>2 DEF Patterns!Acknowledged, Uploading
    <3> QED
      BY <1>3, <3>1
  <2>3. CASE Patterns!Intended
    <3>1. PICK id \in Patterns!Uploads :
            /\ calls.upload # None
            /\ calls' = [calls EXCEPT !.upload.step = "confirm", !.upload.id = id]
      BY <2>3 DEF Patterns!Intended
    <3> DEFINE upload == [calls.upload EXCEPT !.step = "confirm", !.id = id]
    <3>2. Uploading(upload)
      BY <1>4, <3>1 DEF Uploading
    <3>3. calls' = [calls EXCEPT !.upload = upload]
      BY <1>1, <3>1 DEF CallsTyped
    <3> QED
      BY <1>3, <3>2, <3>3
  <2>4. CASE Patterns!Confirmed
    <3> DEFINE id == calls.upload.id
               polls == IF calls.upload.here THEN calls.polls \cup {<<id, 0>>}
                        ELSE calls.polls
    <3>1. calls' = [calls EXCEPT !.upload = None, !.polls = polls]
      BY <2>4 DEF Patterns!Confirmed
    <3>2. id \in Patterns!Uploads
      BY <1>4, <2>4 DEF Patterns!Confirmed, Uploading
    <3>3. polls \subseteq Patterns!Uploads \X (0 .. MaxPolls)
      BY <1>1, <1>2, <3>2 DEF CallsTyped
    <3> HIDE DEF polls
    <3> QED
      BY <1>1, <3>1, <3>3 DEF CallsTyped
  <2>5. CASE Patterns!UploadFails
    BY <1>3, <2>5 DEF Patterns!UploadFails
  <2>6. ASSUME NEW polls, polls \subseteq Patterns!Uploads \X (0 .. MaxPolls),
               calls' = [calls EXCEPT !.polls = polls]
        PROVE  CallsTyped(calls')
    BY <1>1, <2>6 DEF CallsTyped
  <2>7. ASSUME NEW poll \in calls.polls, Patterns!Polled(poll) PROVE CallsTyped(calls')
    <3>1. poll \in Patterns!Uploads \X (0 .. MaxPolls)
      BY <1>1 DEF CallsTyped
    <3>2. PICK rest : /\ calls' = [calls EXCEPT !.polls = (calls.polls \ {poll}) \cup rest]
                      /\ \/ rest = {}
                         \/ rest = {<<poll[1], poll[2] + 1>>} /\ poll[2] < MaxPolls
      BY <2>7 DEF Patterns!Polled
    <3>3. rest \subseteq Patterns!Uploads \X (0 .. MaxPolls)
      BY <1>2, <3>1, <3>2
    <3>4. (calls.polls \ {poll}) \cup rest \subseteq Patterns!Uploads \X (0 .. MaxPolls)
      BY <1>1, <3>3 DEF CallsTyped
    <3> QED
      BY <2>6, <3>2, <3>4
  <2>8. ASSUME NEW id \in Patterns!Uploads, Patterns!Retry(id) PROVE CallsTyped(calls')
    <3>1. calls' = calls \/ calls' = [calls EXCEPT !.polls = calls.polls \cup {<<id, 0>>}]
      BY <2>8 DEF Patterns!Retry
    <3>2. calls.polls \cup {<<id, 0>>} \subseteq Patterns!Uploads \X (0 .. MaxPolls)
      BY <1>1, <1>2 DEF CallsTyped
    <3> QED
      BY <1>1, <2>6, <3>1, <3>2
  <2>9. ASSUME NEW id \in Patterns!Uploads, Patterns!Select(id) PROVE CallsTyped(calls')
    BY <1>1, <2>9 DEF Patterns!Select, CallsTyped
  <2>10. ASSUME NEW id \in Patterns!Uploads, Patterns!Remove(id) PROVE CallsTyped(calls')
    <3> DEFINE r == [id |-> id, here |-> TRUE,
                     uses |-> page.pattern # None /\ page.pattern.id = id]
    <3>1. calls' = [calls EXCEPT !.removes = calls.removes \cup {r}]
      BY <2>10 DEF Patterns!Remove
    <3>2. Removing(r)
      BY DEF Removing
    <3> HIDE DEF r
    <3> QED
      BY <1>1, <3>1, <3>2 DEF CallsTyped
  <2> QED
    BY <2>1, <2>2, <2>3, <2>4, <2>5, <2>7, <2>8, <2>9, <2>10
<1> QED
  BY <1>5, <1>6 DEF PageTyped, CallsTyped

\* The design's pattern, and the session.
LEMMA DesignTyped ==
    ASSUME PatternsTyped,
           \/ \E id \in calls.selects : Patterns!Selected(id)
           \/ \E r \in calls.removes : Patterns!Removed(r)
           \/ Patterns!ChooseOurs \/ Patterns!SignIn \/ Patterns!SessionEnds
           \/ Patterns!Reload
    PROVE  PageTyped(page)' /\ CallsTyped(calls)'
<1>1. PageTyped(page) /\ CallsTyped(calls)
  BY DEF PatternsTyped
<1>2. ASSUME NEW pattern, pattern # None => Chosen(pattern)
      PROVE  PageTyped([page EXCEPT !.pattern = pattern])
  BY <1>1, <1>2 DEF PageTyped
<1>3. ASSUME NEW id \in calls.selects, Patterns!Selected(id)
      PROVE  PageTyped(page)' /\ CallsTyped(calls)'
  <2> DEFINE pattern == [id |-> id, preview |-> TRUE, gone |-> None]
             c == [calls EXCEPT !.selects = calls.selects \ {id}]
  <2>1. Chosen(pattern)
    BY <1>1 DEF Chosen, CallsTyped
  <2>2. CallsTyped(c)
    BY <1>1 DEF CallsTyped
  <2>3. \/ Patterns!Effects([page EXCEPT !.pattern = pattern], c)
        \/ page' = page /\ calls' = c
    BY <1>3 DEF Patterns!Selected
  <2> HIDE DEF pattern, c
  <2>4. CASE Patterns!Effects([page EXCEPT !.pattern = pattern], c)
    BY <1>2, <2>1, <2>2, <2>4, EffectsTyped
  <2>5. CASE page' = page /\ calls' = c
    <3>1. PageTyped(page') /\ CallsTyped(calls')
      BY <1>1, <2>2, <2>5
    <3> QED
      BY <3>1 DEF PageTyped, CallsTyped
  <2> QED
    BY <2>3, <2>4, <2>5
<1>4. ASSUME NEW r \in calls.removes, Patterns!Removed(r)
      PROVE  PageTyped(page)' /\ CallsTyped(calls)'
  <2> DEFINE c == [calls EXCEPT !.removes = calls.removes \ {r}]
             gone == [id |-> r.id, preview |-> FALSE, gone |-> "deleted"]
             pattern == IF r.uses THEN gone ELSE page.pattern
  <2>1. CallsTyped(c)
    BY <1>1 DEF CallsTyped
  <2>2. \/ \E list1 : Patterns!Effects([page EXCEPT !.list = list1, !.pattern = pattern], c)
        \/ page' = page /\ calls' = c
    BY <1>4 DEF Patterns!Removed
  <2>3. pattern # None => Chosen(pattern)
    <3>1. Chosen(gone)
      BY <1>1 DEF Chosen, CallsTyped, Removing
    <3> QED
      BY <1>1, <3>1 DEF PageTyped
  <2> HIDE DEF pattern, c
  <2>4. ASSUME NEW list1,
               Patterns!Effects([page EXCEPT !.list = list1, !.pattern = pattern], c)
        PROVE  PageTyped(page)' /\ CallsTyped(calls)'
    <3>1. PageTyped([page EXCEPT !.list = list1, !.pattern = pattern])
      BY <1>1, <2>3 DEF PageTyped
    <3> QED
      BY <2>1, <2>4, <3>1, EffectsTyped
  <2>5. CASE page' = page /\ calls' = c
    <3>1. PageTyped(page') /\ CallsTyped(calls')
      BY <1>1, <2>1, <2>5
    <3> QED
      BY <3>1 DEF PageTyped, CallsTyped
  <2> QED
    BY <2>2, <2>4, <2>5
<1>5. CASE Patterns!ChooseOurs
  BY <1>1, <1>2, <1>5, EffectsTyped DEF Patterns!ChooseOurs
<1>6. CASE Patterns!SignIn \/ Patterns!SessionEnds
  <2>1. PICK on \in BOOLEAN :
          Patterns!Effects(Patterns!Listing([page EXCEPT !.signedIn = on]), calls)
    BY <1>6 DEF Patterns!SignIn, Patterns!SessionEnds
  <2>2. PageTyped([page EXCEPT !.signedIn = on])
    BY <1>1 DEF PageTyped
  <2>3. PageTyped(Patterns!Listing([page EXCEPT !.signedIn = on]))
    BY <2>2, SamePages
  <2> QED
    BY <1>1, <2>1, <2>3, EffectsTyped
<1>7. CASE Patterns!Reload
  <2> DEFINE kept == IF page.pattern = None THEN None
                     ELSE [page.pattern EXCEPT !.preview = FALSE, !.gone = None]
  <2>1. kept # None => Chosen(kept)
    <3>1. page.pattern # None => Chosen(page.pattern)
      BY <1>1 DEF PageTyped
    <3> QED
      BY <3>1 DEF Chosen
  <2>2. page' = Patterns!Fresh(kept, page.signedIn)
        /\ calls' = [Patterns!NoCalls EXCEPT !.restore = kept]
    BY <1>7 DEF Patterns!Reload
  <2> HIDE DEF kept
  <2>3. PageTyped(page')
    BY <1>1, <2>1, <2>2 DEF Patterns!Fresh, PageTyped, Patterns!Stages
  <2>4. CallsTyped(calls')
    BY <2>1, <2>2 DEF Patterns!NoCalls, CallsTyped
  <2> QED
    BY <2>3, <2>4 DEF PageTyped, CallsTyped
<1> QED
  BY <1>3, <1>4, <1>5, <1>6, <1>7

\* The states of the account's uploads.
LEMMA StatesTyped ==
    ASSUME PatternsTyped, Patterns!Next
    PROVE  (server \in [Patterns!Uploads -> Patterns!States])'
<1>1. \/ UNCHANGED server
      \/ \E id \in Patterns!Uploads \cup {calls.upload.id} \cup {r.id : r \in calls.removes},
            s \in Patterns!States : server' = [server EXCEPT ![id] = s]
  BY DEF Patterns!Next, Patterns!ImageAnswers, Patterns!RestoreAnswers,
     Patterns!AvailabilityAnswers, Patterns!GoTo, Patterns!ChooseFile, Patterns!Acknowledge,
     Patterns!FileChecked, Patterns!ListAnswers, Patterns!Upload, Patterns!Acknowledged,
     Patterns!Intended, Patterns!Confirmed, Patterns!UploadFails, Patterns!Polled,
     Patterns!Retry, Patterns!Select, Patterns!Remove, Patterns!Processed,
     Patterns!Selected, Patterns!Removed, Patterns!ChooseOurs, Patterns!SignIn,
     Patterns!SessionEnds, Patterns!Reload, Patterns!States
<1> QED
  BY <1>1 DEF PatternsTyped

LEMMA PatternsInitTyped == ASSUME Patterns!Init PROVE PatternsTyped
<1>1. PageTyped(page)
  BY DEF Patterns!Init, Patterns!Fresh, PageTyped, Patterns!Stages
<1>2. CallsTyped(calls)
  BY DEF Patterns!Init, Patterns!NoCalls, CallsTyped
<1> QED
  BY <1>1, <1>2 DEF Patterns!Init, Patterns!States, PatternsTyped

LEMMA PatternsStepTyped ==
    ASSUME PatternsInv, PatternsTyped, [Patterns!Next]_Patterns!vars
    PROVE  PatternsTyped'
<1>1. CASE UNCHANGED Patterns!vars
  BY <1>1 DEF Patterns!vars, PatternsTyped, PageTyped, CallsTyped
<1>2. CASE Patterns!Next
  <2>1. ASSUME NEW id \in Patterns!Uploads, Patterns!Processed(id)
        PROVE  PageTyped(page)' /\ CallsTyped(calls)'
    BY <2>1 DEF Patterns!Processed, PatternsTyped, PageTyped, CallsTyped
  <2>2. PageTyped(page)' /\ CallsTyped(calls)'
    BY <1>2, <2>1, PicturesTyped, GoTyped, FilesTyped, UploadsTyped, DesignTyped
       DEF Patterns!Next
  <2> QED
    BY <1>2, <2>2, StatesTyped DEF PatternsTyped
<1> QED
  BY <1>1, <1>2

LEMMA PatternsTypes == ASSUME PatternsInv, PatternsTyped PROVE Patterns!TypeOK
<1>1. Booked(page.urls, calls.checks, page.form.file, page.image.url)
  BY DEF PatternsInv, UrlsKept
<1>2. \A url \in DOMAIN page.urls : page.urls[url] \in 0 .. 2
  BY <1>1 DEF Booked
<1> QED
  BY <1>1, <1>2 DEF PatternsTyped, PageTyped, CallsTyped, Chosen, Booked, Patterns!TypeOK
=============================================================================
