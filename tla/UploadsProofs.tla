--------------------------- MODULE UploadsProofs ---------------------------
(* What TLAPS proves of the uploads, for any number of uploads and workers *)
(* and any bound on their mishaps, if the owner's requests do not overlap. *)
EXTENDS Uploads, FiniteSetTheorems, TLAPS

\* The owner's page sends one request at a time.  (Two confirmations that overlap
\* may confirm one file and then another.)
OneAtATime == \A q, r \in Requests : q = r

\* A row that a session is about to write: the table has not checked it yet.
Draft == [state : States, checksum : Content,
          lease : {"none", "running", "lapsed"}, next : {"none", "later", "due"},
          starts : 0..(MAX_ATTEMPTS + 1), looks : 0..(MAX_ATTEMPTS + 1),
          processed : BOOLEAN, moderation : Moderation, gone : BOOLEAN]

\* Only a confirmation gives a row its checksum; the derivatives show that file,
\* and the moderation passed them if the row is approved.
RowAgrees(u) ==
    /\ rows[u].state \in {"absent", "awaiting_upload"} => rows[u].checksum = None
    /\ rows[u].checksum = None =>
         rows[u].state \in {"absent", "awaiting_upload", "expired", "deleted"}
    /\ tile[u] # None => tile[u] = rows[u].checksum
    /\ u \in stored => tile[u] # None
    /\ rows[u].state = "approved" => tile[u] # None /\ tile[u] \in passed[u]

\* What a request knows is still true when it commits.
RequestKnows(r) ==
    /\ req[r].at # "idle" => req[r].up \in Uploads
    /\ req[r].at = "confirm" =>
         /\ rows[req[r].up].checksum = None /\ req[r].content # None
         /\ req[r].seen = NoRow
    /\ req[r].at = "retry" => rows[req[r].up].checksum # None
    /\ req[r].at = "delete" => ~req[r].seen.gone

\* However old the row a worker holds, its checksum is the one in the table, and
\* what it stores or has judged is that file.
WorkerKnows(w) ==
    busy[w].at \in Claimed =>
        /\ busy[w].up \in Uploads
        /\ busy[w].seen.checksum = rows[busy[w].up].checksum
        /\ busy[w].seen.checksum # None
        /\ busy[w].at \in {"store", "judge"} =>
             busy[w].content = busy[w].seen.checksum
        /\ busy[w].at = "judge" => tile[busy[w].up] # None

IInv ==
    /\ TypeOK
    /\ \A u \in Uploads : RowAgrees(u)
    /\ \A r \in Requests : RequestKnows(r)
    /\ \A w \in Workers : WorkerKnows(w)

-----------------------------------------------------------------------------
(* What a session writes.                                                  *)

LEMMA RowTypes ==
    /\ NoRow \in Row /\ Row \subseteq Draft
    /\ Free \in Worker /\ Idle \in Request
<1> USE UploadsAssumption
<1>1. NoRow \in Row
  BY DEF NoRow, Row, States, Content, Moderation
<1>2. Row \subseteq Draft
  <2>1. 0..MAX_ATTEMPTS \subseteq 0..(MAX_ATTEMPTS + 1)
    OBVIOUS
  <2> QED
    BY <2>1 DEF Row, Draft
<1>3. Free \in Worker
  BY <1>1 DEF Free, Worker, Content
<1>4. Idle \in Request
  BY <1>1 DEF Idle, Request, Content
<1> QED
  BY <1>1, <1>2, <1>3, <1>4

\* A flush gives a draft, each column of which is the table's or the session's.
LEMMA FlushIsDraft ==
    ASSUME NEW u \in Uploads, rows \in [Uploads -> Row],
           NEW seen \in Row, NEW new \in Draft
    PROVE  /\ After(u, seen, new) \in Draft
           /\ After(u, seen, new).state
                = Written(rows[u].state, seen.state, new.state)
           /\ After(u, seen, new).checksum
                = Written(rows[u].checksum, seen.checksum, new.checksum)
           /\ seen.starts # new.starts => After(u, seen, new).starts = new.starts
           /\ seen.looks # new.looks => After(u, seen, new).looks = new.looks
<1>1. rows[u] \in Draft
  BY RowTypes
<1>2. \A c, s, n : Written(c, s, n) \in {c, n}
  BY DEF Written
<1>3. After(u, seen, new) \in Draft
  BY <1>1, <1>2 DEF After, Draft
<1> QED
  BY <1>3 DEF After, Written

\* What the table accepts is a row.
LEMMA AllowedIsRow ==
    ASSUME NEW row \in Draft, Allowed(row) PROVE row \in Row
BY UploadsAssumption DEF Allowed, Draft, Row

\* A worker that goes on.
LEMMA WorkerGoesOn ==
    ASSUME NEW b \in Worker, NEW point \in Claimed, NEW new \in Row
    PROVE  /\ GoneOn(b, point, new) \in Worker
           /\ GoneOn(b, point, new).at = point
           /\ GoneOn(b, point, new).seen = new
           /\ GoneOn(b, point, new).up = b.up
BY DEF Worker, GoneOn

LEMMA FlushIsRow ==
    ASSUME NEW u \in Uploads, rows \in [Uploads -> Row],
           NEW seen \in Row, NEW new \in Row
    PROVE  After(u, seen, new) \in Row
<1>1. rows[u] \in Row
  OBVIOUS
<1>2. \A c, s, n : Written(c, s, n) \in {c, n}
  BY DEF Written
<1> QED
  BY <1>1, <1>2 DEF After, Row

-----------------------------------------------------------------------------
(* A worker commits.                                                       *)

\* A worker that writes its row, whatever else its transaction changes in the
\* derivatives, leaves the invariant in force.
LEMMA SavesKeeps ==
    ASSUME IInv, NEW w \in Workers, busy[w].at \in Claimed,
           NEW new \in Draft, NEW point \in {"idle", "read", "resume", "look"},
           new.checksum = busy[w].seen.checksum,
           new.state # busy[w].seen.state
             => new.state \notin {"absent", "awaiting_upload"},
           point # "idle" => /\ new.starts \in {busy[w].seen.starts,
                                                busy[w].seen.starts + 1}
                             /\ new.looks = busy[w].seen.looks,
           Saves(w, new, point),
           tile' \in [Uploads -> Content], stored' \subseteq Uploads,
           \A v \in Uploads : \/ tile'[v] = tile[v]
                              \/ v = busy[w].up /\ tile'[v] = busy[w].seen.checksum,
           \A v \in stored' : tile'[v] # None,
           passed' \in [Uploads -> SUBSET Contents],
           \A v \in Uploads : passed[v] \subseteq passed'[v],
           new.state # busy[w].seen.state /\ new.state = "approved"
             => tile'[busy[w].up] # None /\ tile'[busy[w].up] \in passed'[busy[w].up],
           \A v \in Uploads : rows[v].state = "approved" => tile'[v] \in passed'[v],
           UNCHANGED <<original, open, kept, overran, req, crashes>>
    PROVE  IInv'
<1> DEFINE u    == busy[w].up
           seen == busy[w].seen
           row  == After(u, seen, new)
<1>1. /\ u \in Uploads /\ seen.checksum = rows[u].checksum
      /\ seen.checksum # None
  BY DEF IInv, WorkerKnows
<1>2. /\ rows \in [Uploads -> Row] /\ busy \in [Workers -> Worker]
      /\ seen \in Row
  BY DEF IInv, TypeOK, Worker
<1>3. /\ row \in Draft
      /\ row.state = Written(rows[u].state, seen.state, new.state)
      /\ row.checksum = Written(rows[u].checksum, seen.checksum, new.checksum)
      /\ seen.starts # new.starts => row.starts = new.starts
  BY <1>1, <1>2, FlushIsDraft
<1>4. row.checksum = rows[u].checksum
  BY <1>3 DEF Written
<1>5. Allowed(row) => row \in Row
  BY <1>3, AllowedIsRow
<1>6. Allowed(row) /\ point # "idle" => new \in Row
  <2> SUFFICES ASSUME Allowed(row), point # "idle" PROVE new \in Row
    OBVIOUS
  <2>1. new.starts \in 0..MAX_ATTEMPTS
    <3>1. CASE new.starts = seen.starts
      BY <1>2, <3>1 DEF Row
    <3>2. CASE new.starts # seen.starts
      BY <1>3, <1>5, <3>2 DEF Row
    <3> QED
      BY <3>1, <3>2
  <2>2. new.looks \in 0..MAX_ATTEMPTS
    BY <1>2 DEF Row
  <2> QED
    BY <2>1, <2>2 DEF Draft, Row
<1>7. rows' \in [Uploads -> Row]
  BY <1>1, <1>2, <1>5 DEF Saves
<1>8. \A v \in Uploads :
        /\ rows'[v].checksum = rows[v].checksum
        /\ \/ rows'[v].state = rows[v].state
           \/ v = u /\ rows'[v].state = new.state /\ new.state # seen.state
  BY <1>1, <1>2, <1>3, <1>4 DEF Saves, Written
<1>9. /\ \A x \in Workers : x # w => busy'[x] = busy[x]
      /\ \/ busy'[w] = Free
         \/ /\ new \in Row /\ point \in Claimed
            /\ busy'[w] = GoneOn(busy[w], point, new)
      /\ busy' \in [Workers -> Worker]
  <2>1. CASE busy' = [busy EXCEPT ![w] = Free]
    BY <1>2, <2>1, RowTypes
  <2>2. CASE /\ Allowed(row) /\ point # "idle"
             /\ busy' = [busy EXCEPT ![w] = GoneOn(@, point, new)]
    <3>1. busy[w] \in Worker
      BY <1>2
    <3>2. new \in Row
      BY <1>6, <2>2
    <3>3. point \in Claimed
      BY <2>2 DEF Claimed
    <3>4. GoneOn(busy[w], point, new) \in Worker
      BY <3>1, <3>2, <3>3, WorkerGoesOn
    <3> HIDE DEF row
    <3> QED
      BY <1>2, <2>2, <3>2, <3>3, <3>4
  <2> QED
    BY <2>1, <2>2 DEF Saves, Stops
<1>10. TypeOK'
  BY <1>7, <1>9 DEF IInv, TypeOK
<1>11. ASSUME NEW v \in Uploads PROVE RowAgrees(v)'
  <2>1. RowAgrees(v)
    BY DEF IInv
  <2>2. tile'[v] = tile[v] \/ tile'[v] = rows[v].checksum
    BY <1>1
  <2>3. rows'[v].state \in {"absent", "awaiting_upload"}
          => rows'[v].state = rows[v].state
    BY <1>8
  <2>4. rows'[v].checksum = None => rows'[v].state = rows[v].state
    BY <1>1, <1>8
  <2>5. rows'[v].state = "approved" => tile'[v] # None /\ tile'[v] \in passed'[v]
    <3> SUFFICES ASSUME rows'[v].state = "approved"
                 PROVE  tile'[v] # None /\ tile'[v] \in passed'[v]
      OBVIOUS
    <3>1. CASE rows[v].state = "approved"
      <4>1. rows[v].checksum # None /\ tile[v] # None
        BY <2>1, <3>1 DEF RowAgrees
      <4> QED
        BY <2>2, <3>1, <4>1
    <3>2. CASE rows[v].state # "approved"
      BY <1>8, <3>2
    <3> QED
      BY <3>1, <3>2
  <2> QED
    BY <1>8, <2>1, <2>2, <2>3, <2>4, <2>5 DEF RowAgrees
<1>12. ASSUME NEW r \in Requests PROVE RequestKnows(r)'
  BY <1>8 DEF IInv, RequestKnows
<1>13. ASSUME NEW x \in Workers PROVE WorkerKnows(x)'
  <2>1. CASE x # w
    <3>1. WorkerKnows(x)
      BY DEF IInv
    <3>2. \A v \in Uploads : tile[v] # None => tile'[v] # None
      BY <1>1
    <3> QED
      BY <1>8, <1>9, <2>1, <3>1, <3>2 DEF WorkerKnows
  <2>2. CASE x = w /\ busy'[w] = Free
    BY <2>2 DEF WorkerKnows, Free, Claimed
  <2>3. CASE /\ x = w /\ new \in Row /\ point \in Claimed
             /\ busy'[w] = GoneOn(busy[w], point, new)
    <3>1. /\ busy'[w].at = point /\ busy'[w].seen = new
          /\ busy'[w].up = u
      BY <1>2, <2>3, WorkerGoesOn
    <3> QED
      BY <1>1, <1>8, <2>3, <3>1 DEF WorkerKnows
  <2> QED
    BY <1>9, <2>1, <2>2, <2>3
<1> QED
  BY <1>10, <1>11, <1>12, <1>13 DEF IInv

\* What a worker writes is a draft with the checksum it holds.
LEMMA DraftsOfAWorker ==
    ASSUME NEW seen \in Row
    PROVE  /\ Started(seen) \in Draft /\ Started(seen).checksum = seen.checksum
           /\ Started(seen).starts = seen.starts + 1
           /\ Started(seen).looks = seen.looks
           /\ Started(seen).state = seen.state
           /\ Resumed(seen) \in Draft /\ Resumed(seen).checksum = seen.checksum
           /\ Resumed(seen).starts = seen.starts
           /\ Resumed(seen).looks = seen.looks
           /\ Resumed(seen).state = "processing"
           /\ Processed(seen) \in Draft /\ Processed(seen).checksum = seen.checksum
           /\ Processed(seen).starts = seen.starts
           /\ Processed(seen).looks = seen.looks
           /\ Processed(seen).state = "awaiting_moderation"
           /\ \A recoverable \in BOOLEAN :
                /\ Failed(seen, recoverable) \in Draft
                /\ Failed(seen, recoverable).state = "failed"
                /\ Failed(seen, recoverable).checksum = seen.checksum
<1>1. seen \in Draft
  BY RowTypes
<1>2. seen.starts + 1 \in 0..(MAX_ATTEMPTS + 1)
  BY UploadsAssumption DEF Row
<1>3. /\ Started(seen) \in Draft /\ Started(seen).checksum = seen.checksum
      /\ Started(seen).starts = seen.starts + 1
      /\ Started(seen).looks = seen.looks /\ Started(seen).state = seen.state
  BY <1>1, <1>2 DEF Draft, Started
<1>4. /\ Resumed(seen) \in Draft /\ Resumed(seen).checksum = seen.checksum
      /\ Resumed(seen).starts = seen.starts
      /\ Resumed(seen).looks = seen.looks /\ Resumed(seen).state = "processing"
  BY <1>1 DEF Draft, Resumed, States
<1>5. /\ Processed(seen) \in Draft /\ Processed(seen).checksum = seen.checksum
      /\ Processed(seen).starts = seen.starts
      /\ Processed(seen).looks = seen.looks
      /\ Processed(seen).state = "awaiting_moderation"
  BY <1>1 DEF Draft, Processed, States, Moderation
<1>6. ASSUME NEW recoverable \in BOOLEAN
      PROVE  /\ Failed(seen, recoverable) \in Draft
             /\ Failed(seen, recoverable).state = "failed"
             /\ Failed(seen, recoverable).checksum = seen.checksum
  <2>1. MAX_ATTEMPTS \in 0..(MAX_ATTEMPTS + 1)
    BY UploadsAssumption
  <2> QED
    BY <1>1, <2>1 DEF Draft, Failed, States
<1> QED
  BY <1>3, <1>4, <1>5, <1>6

Settled(row, state, moderation, next) ==
    [row EXCEPT !.state = state, !.moderation = moderation, !.next = next]

LEMMA SettledIsDraft ==
    ASSUME NEW row \in Draft, NEW state \in States, NEW moderation \in Moderation,
           NEW next \in {"none", "later", "due"}
    PROVE  /\ Settled(row, state, moderation, next) \in Draft
           /\ Settled(row, state, moderation, next).checksum = row.checksum
           /\ Settled(row, state, moderation, next).state = state
BY DEF Settled, Draft

\* The row after a verdict.
LEMMA JudgedIsDraft ==
    ASSUME NEW seen \in Row, NEW verdict \in Verdicts
    PROVE  /\ Judged(seen, verdict) \in Draft
           /\ Judged(seen, verdict).checksum = seen.checksum
           /\ Judged(seen, verdict).state \in
                {"approved", "rejected", "awaiting_moderation", "failed"}
           /\ Judged(seen, verdict).state = "approved" => verdict = "approved"
<1> DEFINE looks == seen.looks + 1
           row   == [seen EXCEPT !.looks = looks, !.lease = "none"]
<1>1. looks \in 0..(MAX_ATTEMPTS + 1)
  BY UploadsAssumption DEF Row
<1> HIDE DEF looks
<1>2. row \in Draft /\ row.checksum = seen.checksum
  BY <1>1, RowTypes DEF Draft
<1> HIDE DEF row
<1>3. ASSUME NEW state \in {"approved", "rejected"}
      PROVE  LET new == [row EXCEPT !.state = state, !.moderation = state]
             IN  new \in Draft /\ new.checksum = seen.checksum /\ new.state = state
  BY <1>2 DEF Draft, States, Moderation
<1>4. CASE verdict \in {"approved", "rejected"}
  <2>1. Judged(seen, verdict) = [row EXCEPT !.state = verdict,
                                            !.moderation = verdict]
    BY <1>4 DEF Judged, row, looks
  <2> QED
    BY <1>3, <1>4, <2>1
<1>5. CASE verdict \notin {"approved", "rejected"}
  <2> DEFINE again == verdict = "unconfigured" \/ looks < MAX_ATTEMPTS
             state == IF again THEN "awaiting_moderation" ELSE "failed"
             moderation == IF verdict = "failed" THEN "failed" ELSE "unavailable"
             next == IF verdict = "failed" /\ again THEN "later" ELSE "none"
  <2>1. Judged(seen, verdict) = Settled(row, state, moderation, next)
    BY <1>5 DEF Judged, row, looks, Settled
  <2>2. /\ state \in {"awaiting_moderation", "failed"} /\ state \in States
        /\ moderation \in Moderation /\ next \in {"none", "later", "due"}
    BY DEF Moderation, States
  <2> HIDE DEF again, state, moderation, next
  <2> QED
    BY <1>2, <2>1, <2>2, SettledIsDraft
<1> QED
  BY <1>4, <1>5

\* Where a worker stands, and what it holds.
LEMMA AtWork ==
    ASSUME IInv, NEW w \in Workers, busy[w].at \in Claimed
    PROVE  /\ busy[w] \in Worker /\ busy[w].seen \in Row
           /\ busy[w].up \in Uploads
           /\ busy[w].seen.checksum = rows[busy[w].up].checksum
           /\ busy[w].seen.checksum # None
BY DEF IInv, TypeOK, Worker, WorkerKnows

\* The derivatives and verdicts that a step leaves alone are in order.
LEMMA ObjectsStay ==
    ASSUME IInv, UNCHANGED <<tile, stored, passed>>
    PROVE  /\ tile' \in [Uploads -> Content] /\ stored' \subseteq Uploads
           /\ passed' \in [Uploads -> SUBSET Contents]
           /\ \A v \in stored' : tile'[v] # None
           /\ \A v \in Uploads : /\ tile'[v] = tile[v] /\ passed[v] \subseteq passed'[v]
                                 /\ rows[v].state = "approved"
                                      => tile'[v] \in passed'[v]
BY DEF IInv, TypeOK, RowAgrees

LEMMA StartKeeps == ASSUME IInv, NEW w \in Workers, Start(w) PROVE IInv'
<1>1. busy[w].at \in Claimed
  BY DEF Start, Claimed
<1>2. busy[w].seen \in Row
  BY <1>1, AtWork
<1> DEFINE new == Started(busy[w].seen)
<1>3. /\ new \in Draft /\ new.checksum = busy[w].seen.checksum
      /\ new.starts = busy[w].seen.starts + 1
      /\ new.looks = busy[w].seen.looks /\ new.state = busy[w].seen.state
  BY <1>2, DraftsOfAWorker
<1>4. Saves(w, new, "read") /\ UNCHANGED <<objects, open, kept, req, marks>>
  BY DEF Start
<1>5. /\ UNCHANGED <<tile, stored, passed>>
      /\ UNCHANGED <<original, open, kept, overran, req, crashes>>
  BY <1>4 DEF objects, marks
<1> HIDE DEF new
<1> QED
  BY <1>1, <1>3, <1>4, <1>5, ObjectsStay, SavesKeeps

LEMMA ResumeKeeps == ASSUME IInv, NEW w \in Workers, Resume(w) PROVE IInv'
<1>1. busy[w].at \in Claimed
  BY DEF Resume, Claimed
<1>2. busy[w].seen \in Row
  BY <1>1, AtWork
<1> DEFINE new == Resumed(busy[w].seen)
<1>3. /\ new \in Draft /\ new.checksum = busy[w].seen.checksum
      /\ new.starts = busy[w].seen.starts
      /\ new.looks = busy[w].seen.looks /\ new.state = "processing"
  BY <1>2, DraftsOfAWorker
<1>4. Saves(w, new, "look") /\ UNCHANGED <<objects, open, kept, req, marks>>
  BY DEF Resume
<1>5. /\ UNCHANGED <<tile, stored, passed>>
      /\ UNCHANGED <<original, open, kept, overran, req, crashes>>
  BY <1>4 DEF objects, marks
<1> HIDE DEF new
<1> QED
  BY <1>1, <1>3, <1>4, <1>5, ObjectsStay, SavesKeeps

LEMMA FailKeeps ==
    ASSUME IInv, NEW w \in Workers, busy[w].at \in Claimed,
           NEW recoverable \in BOOLEAN, Fail(w, recoverable)
    PROVE  IInv'
<1>1. busy[w].seen \in Row
  BY AtWork
<1> DEFINE new == Failed(busy[w].seen, recoverable)
<1>2. /\ new \in Draft /\ new.checksum = busy[w].seen.checksum
      /\ new.state = "failed"
  BY <1>1, DraftsOfAWorker
<1>3. Saves(w, new, "idle") /\ UNCHANGED <<objects, open, kept, req, marks>>
  BY DEF Fail
<1>4. /\ UNCHANGED <<tile, stored, passed>>
      /\ UNCHANGED <<original, open, kept, overran, req, crashes>>
  BY <1>3 DEF objects, marks
<1> HIDE DEF new
<1> QED
  BY <1>2, <1>3, <1>4, ObjectsStay, SavesKeeps

\* The verdict is about the file that was confirmed.
LEMMA JudgeKeeps ==
    ASSUME IInv, NEW w \in Workers, NEW verdict \in Verdicts, Judge(w, verdict)
    PROVE  IInv'
<1> DEFINE u == busy[w].up
<1>1. busy[w].at \in Claimed
  BY DEF Judge, Claimed
<1>2. busy[w].seen \in Row /\ u \in Uploads
  BY <1>1, AtWork
<1>3. /\ busy[w].content = busy[w].seen.checksum /\ tile[u] # None
      /\ busy[w].seen.checksum = rows[u].checksum
  BY <1>1 DEF IInv, WorkerKnows, Judge
<1>4. tile[u] = busy[w].content /\ busy[w].content \in Contents
  BY <1>2, <1>3 DEF IInv, RowAgrees, TypeOK, Content
<1> DEFINE new == Judged(busy[w].seen, verdict)
<1>5. /\ new \in Draft /\ new.checksum = busy[w].seen.checksum
      /\ new.state \in {"approved", "rejected", "awaiting_moderation", "failed"}
      /\ new.state = "approved" => verdict = "approved"
  BY <1>2, JudgedIsDraft
<1>6. Saves(w, new, "idle")
  BY DEF Judge
<1>7. /\ UNCHANGED <<tile, stored>>
      /\ UNCHANGED <<original, open, kept, overran, req, crashes>>
  BY DEF Judge, objects
<1>8. /\ passed' \in [Uploads -> SUBSET Contents]
      /\ \A v \in Uploads : passed[v] \subseteq passed'[v]
      /\ verdict = "approved" => tile[u] \in passed'[u]
  BY <1>2, <1>4 DEF Judge, IInv, TypeOK
<1>9. /\ tile' \in [Uploads -> Content] /\ stored' \subseteq Uploads
      /\ \A v \in stored' : tile'[v] # None
      /\ \A v \in Uploads : /\ tile'[v] = tile[v]
                            /\ rows[v].state = "approved" => tile'[v] \in passed'[v]
  BY <1>7, <1>8 DEF IInv, TypeOK, RowAgrees
<1>10. new.state = "approved" => tile'[u] # None /\ tile'[u] \in passed'[u]
  BY <1>3, <1>5, <1>7, <1>8
<1> HIDE DEF new
<1> QED
  BY <1>1, <1>5, <1>6, <1>7, <1>8, <1>9, <1>10, SavesKeeps

\* The derivatives that are stored show the file that was confirmed.
LEMMA StoreKeeps == ASSUME IInv, NEW w \in Workers, Store(w) PROVE IInv'
<1> DEFINE u == busy[w].up
<1>1. busy[w].at \in Claimed
  BY DEF Store, Claimed
<1>2. /\ busy[w].seen \in Row /\ u \in Uploads
      /\ busy[w].seen.checksum = rows[u].checksum
      /\ busy[w].seen.checksum # None
  BY <1>1, AtWork
<1>3. busy[w].content = busy[w].seen.checksum /\ busy[w].content \in Contents
  BY <1>1, <1>2 DEF IInv, WorkerKnows, Store, Row, Content
<1>4. CASE Stops(w) /\ UNCHANGED <<rows, tile, stored>>
  <2>1. UNCHANGED <<original, open, kept, req, marks>>
    BY DEF Store
  <2> QED
    BY <1>4, <2>1, RowTypes DEF Stops, IInv, TypeOK, RowAgrees, RequestKnows,
       WorkerKnows, marks, Free, Claimed
<1> DEFINE new == Processed(busy[w].seen)
<1>5. CASE /\ Saves(w, new, "resume")
           /\ tile' = [tile EXCEPT ![u] = busy[w].content]
           /\ stored' = stored \cup {u}
  <2>1. UNCHANGED <<original, open, kept, overran, req, crashes>> /\ passed' = passed
    BY DEF Store, marks
  <2>2. /\ new \in Draft /\ new.checksum = busy[w].seen.checksum
        /\ new.starts = busy[w].seen.starts
        /\ new.looks = busy[w].seen.looks /\ new.state = "awaiting_moderation"
    BY <1>2, DraftsOfAWorker
  <2>3. /\ tile \in [Uploads -> Content] /\ stored \subseteq Uploads
        /\ \A v \in stored : tile[v] # None
        /\ \A v \in Uploads : rows[v].state = "approved"
                                => tile[v] = rows[v].checksum /\ tile[v] \in passed[v]
        /\ passed \in [Uploads -> SUBSET Contents]
    BY DEF IInv, TypeOK, RowAgrees
  <2>4. \A v \in Uploads : tile'[v] = IF v = u THEN busy[w].content ELSE tile[v]
    BY <1>2, <1>5, <2>3
  <2>5. /\ tile' \in [Uploads -> Content] /\ stored' \subseteq Uploads
        /\ \A v \in stored' : tile'[v] # None
    BY <1>2, <1>3, <1>5, <2>3, <2>4 DEF Content
  <2>6. \A v \in Uploads : rows[v].state = "approved" => tile'[v] \in passed'[v]
    BY <1>2, <1>3, <2>1, <2>3, <2>4
  <2> HIDE DEF new
  <2> QED
    BY <1>1, <1>3, <1>5, <2>1, <2>2, <2>3, <2>4, <2>5, <2>6, SavesKeeps
<1> QED
  BY <1>4, <1>5 DEF Store

-----------------------------------------------------------------------------
(* The other steps.                                                        *)

\* A step that gives no row a checksum, approves nothing and changes no
\* derivative leaves everything true that it does not touch itself.
LEMMA RowsStay ==
    ASSUME IInv, UNCHANGED <<tile, passed>>, stored' \subseteq stored,
           \A v \in Uploads :
              /\ rows'[v].checksum = rows[v].checksum
              /\ \/ rows'[v].state = rows[v].state
                 \/ rows'[v].state \in {"deleted", "expired"}
                 \/ /\ rows'[v].state \in {"uploaded", "processing",
                                           "awaiting_moderation"}
                    /\ rows[v].checksum # None
                 \/ rows'[v].state = "awaiting_upload" /\ rows[v].checksum = None
    PROVE  /\ \A v \in Uploads : RowAgrees(v)'
           /\ \A r \in Requests : req'[r] = req[r] => RequestKnows(r)'
           /\ \A w \in Workers : busy'[w] = busy[w] => WorkerKnows(w)'
<1>1. ASSUME NEW v \in Uploads PROVE RowAgrees(v)'
  BY DEF IInv, RowAgrees
<1>2. ASSUME NEW r \in Requests, req'[r] = req[r] PROVE RequestKnows(r)'
  BY <1>2 DEF IInv, RequestKnows
<1>3. ASSUME NEW w \in Workers, busy'[w] = busy[w] PROVE WorkerKnows(w)'
  BY <1>3 DEF IInv, WorkerKnows
<1> QED
  BY <1>1, <1>2, <1>3

\* Transfers, references, reservations and the intent's time.
LEMMA OutsideKeeps ==
    ASSUME IInv, NEW u \in Uploads,
           \/ \E c \in Contents : Transfer(u, c)
           \/ IntentLapses(u) \/ Refer(u) \/ Reserve(u) \/ Release(u)
    PROVE  IInv'
<1>1. UNCHANGED <<rows, tile, stored, busy, req, overran, passed, crashes>>
  BY DEF Transfer, IntentLapses, Refer, Reserve, Release, objects, marks
<1>2. /\ original' \in [Uploads -> Content]
      /\ open' \subseteq Uploads
      /\ kept' \in [Uploads -> {"free", "referenced", "reserved"}]
  BY DEF Transfer, IntentLapses, Refer, Reserve, Release, objects, marks, IInv,
         TypeOK, Content
<1> QED
  BY <1>1, <1>2, RowsStay DEF IInv, TypeOK

LEMMA CreateKeeps == ASSUME IInv, NEW u \in Uploads, Create(u) PROVE IInv'
<1>1. /\ rows \in [Uploads -> Row] /\ open \subseteq Uploads
      /\ rows[u].checksum = None
  BY DEF IInv, TypeOK, Create, RowAgrees
<1>2. /\ rows' = [rows EXCEPT ![u].state = "awaiting_upload"]
      /\ open' = open \cup {u}
      /\ UNCHANGED <<tile, stored, original, kept, busy, req, overran, passed, crashes>>
  BY DEF Create, objects, marks
<1>3. /\ rows' \in [Uploads -> Row]
      /\ \A v \in Uploads : /\ rows'[v].checksum = rows[v].checksum
                            /\ rows'[v].state = IF v = u THEN "awaiting_upload"
                                                         ELSE rows[v].state
  BY <1>1, <1>2 DEF Row, States
<1> QED
  BY <1>1, <1>2, <1>3, RowsStay DEF IInv, TypeOK

\* Time changes no row but in its lease or its pause.
LEMMA TimeKeeps ==
    ASSUME IInv, NEW u \in Uploads, LeaseLapses(u) \/ BackoffPasses(u) PROVE IInv'
<1>1. rows \in [Uploads -> Row] /\ overran \subseteq Uploads
  BY DEF IInv, TypeOK
<1>2. /\ \/ rows' = [rows EXCEPT ![u].lease = "lapsed"]
         \/ rows' = [rows EXCEPT ![u].next = "due"]
      /\ overran' \subseteq overran \cup {u}
      /\ UNCHANGED <<tile, stored, original, open, kept, busy, req, passed, crashes>>
  BY DEF LeaseLapses, BackoffPasses, objects, marks
<1>3. /\ rows' \in [Uploads -> Row]
      /\ \A v \in Uploads : /\ rows'[v].checksum = rows[v].checksum
                            /\ rows'[v].state = rows[v].state
  BY <1>1, <1>2 DEF Row
<1> QED
  BY <1>1, <1>2, <1>3, RowsStay DEF IInv, TypeOK

\* A request that begins has checked the row.
LEMMA BeginKeeps ==
    ASSUME IInv, NEW r \in Requests, NEW u \in Uploads,
           BeginConfirm(r, u) \/ BeginRetry(r, u) \/ BeginDelete(r, u)
    PROVE  IInv'
<1>1. rows[u] \in Row /\ RowAgrees(u) /\ req \in [Requests -> Request]
  BY DEF IInv, TypeOK
<1>2. PICK point \in {"confirm", "retry", "delete"}, seen \in Row, content \in Content :
        /\ Begin(r, point, u, seen, content)
        /\ point = "confirm" => /\ rows[u].checksum = None /\ content # None
                               /\ seen = NoRow
        /\ point = "retry" => rows[u].checksum # None
        /\ point = "delete" => ~seen.gone
  <2>1. CASE BeginConfirm(r, u)
    <3>1. NoRow \in Row /\ NoRow.checksum = None
      BY RowTypes DEF NoRow
    <3> QED
      BY <1>1, <2>1, <3>1 DEF BeginConfirm, RowAgrees, IInv, TypeOK
  <2>2. CASE BeginRetry(r, u)
    <3> DEFINE seen == [NoRow EXCEPT !.state = rows[u].state,
                                     !.next = rows[u].next,
                                     !.processed = rows[u].processed]
    <3>1. seen \in Row
      BY <1>1, RowTypes DEF Row
    <3>2. rows[u].checksum # None
      BY <1>1, <2>2 DEF BeginRetry, Retriable, RowAgrees
    <3>3. Begin(r, "retry", u, seen, None) /\ None \in Content
      BY <2>2 DEF BeginRetry, Content
    <3> HIDE DEF seen
    <3> QED
      BY <3>1, <3>2, <3>3
  <2>3. CASE BeginDelete(r, u)
    <3> DEFINE seen == [NoRow EXCEPT !.lease = rows[u].lease]
    <3>1. seen \in Row /\ tile[u] \in Content /\ ~seen.gone
      BY <1>1, RowTypes DEF Row, NoRow, IInv, TypeOK
    <3>2. Begin(r, "delete", u, seen, tile[u])
      BY <2>3 DEF BeginDelete
    <3> HIDE DEF seen
    <3> QED
      BY <3>1, <3>2
  <2> QED
    BY <2>1, <2>2, <2>3
<1> DEFINE request == [at |-> point, up |-> u, seen |-> seen, content |-> content]
<1>3. request \in Request
  BY <1>2 DEF Request
<1>4. /\ req' = [req EXCEPT ![r] = request]
      /\ UNCHANGED <<rows, tile, stored, original, open, kept, busy, overran, passed,
                     crashes>>
  BY <1>2 DEF Begin, objects, marks
<1>5. \A q \in Requests : req'[q] = IF q = r THEN request ELSE req[q]
  BY <1>1, <1>4
<1>6. RequestKnows(r)'
  BY <1>2, <1>4, <1>5 DEF RequestKnows
<1>7. req' \in [Requests -> Request]
  BY <1>1, <1>3, <1>4
<1> HIDE DEF request
<1> QED
  BY <1>4, <1>5, <1>6, <1>7, RowsStay DEF IInv, TypeOK

\* What a request writes.
LEMMA RowsOfARequest ==
    ASSUME NEW seen \in Row, NEW content \in Content
    PROVE  /\ Confirmed(seen, content) \in Row
           /\ Confirmed(seen, content).checksum = content
           /\ Confirmed(seen, content).state = "uploaded"
           /\ Retried(seen) \in Row /\ Retried(seen).checksum = seen.checksum
           /\ Retried(seen).state \in {"uploaded", "awaiting_moderation"}
           /\ Deleted(seen) \in Row /\ Deleted(seen).checksum = seen.checksum
           /\ Deleted(seen).state = "deleted"
<1>1. Confirmed(seen, content) \in Row
  BY DEF Confirmed, Row, States
<1>2. Deleted(seen) \in Row
  BY DEF Deleted, Row, States
<1>3. Retried(seen) \in Row
  BY DEF Retried, Row, States
<1> QED
  BY <1>1, <1>2, <1>3 DEF Confirmed, Retried, Deleted, Row

\* What a commit of the owner changes.
LEMMA CommitChanges ==
    ASSUME IInv, NEW r \in Requests, req[r].at \in {"confirm", "retry", "delete"},
           NEW new \in Row, NEW point \in {"idle", "erase"}, Commit(r, new, point)
    PROVE  LET u    == req[r].up
               seen == req[r].seen
           IN  /\ u \in Uploads /\ seen \in Row /\ req[r].content \in Content
               /\ rows' \in [Uploads -> Row] /\ req' \in [Requests -> Request]
               /\ \A v \in Uploads : v # u => rows'[v] = rows[v]
               /\ rows'[u].state = Written(rows[u].state, seen.state, new.state)
               /\ rows'[u].checksum
                    = Written(rows[u].checksum, seen.checksum, new.checksum)
               /\ \A q \in Requests : q # r => req'[q] = req[q]
               /\ RequestKnows(r)'
               /\ UNCHANGED <<tile, stored, original, open, kept, busy, overran,
                              passed, crashes>>
<1> DEFINE u    == req[r].up
           seen == req[r].seen
<1>1. /\ u \in Uploads /\ req[r] \in Request
      /\ rows \in [Uploads -> Row] /\ req \in [Requests -> Request]
  BY DEF IInv, TypeOK, RequestKnows
<1>2. seen \in Row /\ req[r].content \in Content
  BY <1>1 DEF Request
<1>3. rows' = [rows EXCEPT ![u] = After(u, seen, new)]
  BY DEF Commit
<1>4. rows' \in [Uploads -> Row] /\ rows'[u] = After(u, seen, new)
      /\ \A v \in Uploads : v # u => rows'[v] = rows[v]
  BY <1>1, <1>2, <1>3, FlushIsRow
<1>5. /\ After(u, seen, new).state = Written(rows[u].state, seen.state, new.state)
      /\ After(u, seen, new).checksum
           = Written(rows[u].checksum, seen.checksum, new.checksum)
  BY DEF After
<1> DEFINE next == [req[r] EXCEPT !.at = "erase", !.seen = NoRow]
<1>6. next \in Request /\ next.at = "erase" /\ next.up = u
  <2>1. \A q \in Request : LET n == [q EXCEPT !.at = "erase", !.seen = NoRow]
                           IN  n \in Request /\ n.at = "erase" /\ n.up = q.up
    BY RowTypes DEF Request
  <2> QED
    BY <1>1, <2>1
<1> HIDE DEF next
<1>7. req' = [req EXCEPT ![r] = Idle] \/ req' = [req EXCEPT ![r] = next]
  BY DEF Commit, next
<1>8. /\ req' \in [Requests -> Request]
      /\ \A q \in Requests : q # r => req'[q] = req[q]
      /\ req'[r] = Idle \/ req'[r] = next
  BY <1>1, <1>6, <1>7, RowTypes
<1>9. RequestKnows(r)'
  BY <1>1, <1>6, <1>8 DEF RequestKnows, Idle
<1> QED
  BY <1>1, <1>2, <1>4, <1>5, <1>8, <1>9 DEF Commit, objects, marks

LEMMA RetryKeeps == ASSUME IInv, NEW r \in Requests, Retry(r) PROVE IInv'
<1> DEFINE u   == req[r].up
           new == Retried(req[r].seen)
<1>1. req[r].at = "retry" /\ Commit(r, new, "idle") /\ rows[u].checksum # None
  BY DEF Retry, IInv, RequestKnows
<1>2. req[r].seen \in Row
  BY DEF IInv, TypeOK, Request
<1>3. /\ new \in Row /\ new.checksum = req[r].seen.checksum
      /\ new.state \in {"uploaded", "awaiting_moderation"}
  BY <1>2, RowsOfARequest DEF Content
<1> HIDE DEF new
<1>4. /\ rows' \in [Uploads -> Row] /\ req' \in [Requests -> Request]
      /\ \A v \in Uploads : v # u => rows'[v] = rows[v]
      /\ rows'[u].state = rows[u].state \/ rows'[u].state = new.state
      /\ rows'[u].checksum = rows[u].checksum
      /\ \A q \in Requests : q # r => req'[q] = req[q]
      /\ RequestKnows(r)'
      /\ UNCHANGED <<tile, stored, original, open, kept, busy, overran, passed,
                     crashes>>
  BY <1>1, <1>3, CommitChanges DEF Written
<1> QED
  BY <1>1, <1>3, <1>4, RowsStay DEF IInv, TypeOK

LEMMA DeleteKeeps == ASSUME IInv, NEW r \in Requests, Delete(r) PROVE IInv'
<1> DEFINE u   == req[r].up
           new == Deleted(req[r].seen)
<1>1. req[r].at = "delete" /\ Commit(r, new, "erase")
  BY DEF Delete
<1>2. req[r].seen \in Row
  BY DEF IInv, TypeOK, Request
<1>3. new \in Row /\ new.checksum = req[r].seen.checksum /\ new.state = "deleted"
  BY <1>2, RowsOfARequest DEF Content
<1> HIDE DEF new
<1>4. /\ rows' \in [Uploads -> Row] /\ req' \in [Requests -> Request]
      /\ \A v \in Uploads : v # u => rows'[v] = rows[v]
      /\ rows'[u].state = rows[u].state \/ rows'[u].state = "deleted"
      /\ rows'[u].checksum = rows[u].checksum
      /\ \A q \in Requests : q # r => req'[q] = req[q]
      /\ RequestKnows(r)'
      /\ UNCHANGED <<tile, stored, original, open, kept, busy, overran, passed,
                     crashes>>
  BY <1>1, <1>3, CommitChanges DEF Written
<1> QED
  BY <1>1, <1>4, RowsStay DEF IInv, TypeOK

\* The confirmation: nobody holds the row, as it had no checksum, and no other
\* confirmation is in progress.
LEMMA ConfirmKeeps ==
    ASSUME IInv, OneAtATime, NEW r \in Requests, Confirm(r) PROVE IInv'
<1> DEFINE u   == req[r].up
           new == Confirmed(req[r].seen, req[r].content)
<1>1. /\ req[r].at = "confirm" /\ Commit(r, new, "idle")
      /\ rows[u].checksum = None /\ req[r].content # None
      /\ req[r].seen = NoRow
  BY DEF Confirm, IInv, RequestKnows
<1>2. req[r].seen \in Row /\ req[r].content \in Content
  BY DEF IInv, TypeOK, Request
<1>3. /\ new \in Row /\ new.checksum = req[r].content /\ new.state = "uploaded"
      /\ req[r].seen.checksum = None /\ req[r].seen.state = "absent"
  BY <1>1, <1>2, RowsOfARequest DEF NoRow
<1> HIDE DEF new
<1>4. /\ rows' \in [Uploads -> Row] /\ req' \in [Requests -> Request] /\ u \in Uploads
      /\ \A v \in Uploads : v # u => rows'[v] = rows[v]
      /\ rows'[u].state = "uploaded"
      /\ rows'[u].checksum = req[r].content
      /\ RequestKnows(r)'
      /\ UNCHANGED <<tile, stored, original, open, kept, busy, overran, passed,
                     crashes>>
  BY <1>1, <1>3, CommitChanges DEF Written
<1>5. ASSUME NEW v \in Uploads PROVE RowAgrees(v)'
  <2>1. RowAgrees(v)
    BY DEF IInv
  <2>2. CASE v = u
    <3>1. tile[u] = None /\ u \notin stored
      BY <1>1, <2>1, <2>2 DEF RowAgrees
    <3> QED
      BY <1>1, <1>4, <2>1, <2>2, <3>1 DEF RowAgrees
  <2>3. CASE v # u
    BY <1>4, <2>1, <2>3 DEF RowAgrees
  <2> QED
    BY <2>2, <2>3
<1>6. ASSUME NEW q \in Requests PROVE RequestKnows(q)'
  BY <1>4 DEF OneAtATime
<1>7. ASSUME NEW x \in Workers PROVE WorkerKnows(x)'
  BY <1>1, <1>4 DEF IInv, WorkerKnows
<1> QED
  BY <1>4, <1>5, <1>6, <1>7 DEF IInv, TypeOK

LEMMA EraseDeletedKeeps == ASSUME IInv, NEW r \in Requests, EraseDeleted(r) PROVE IInv'
<1>1. /\ original' \in [Uploads -> Content] /\ stored' \subseteq stored
      /\ req \in [Requests -> Request]
      /\ req' = [req EXCEPT ![r] = Idle]
      /\ UNCHANGED <<rows, tile, open, kept, busy, overran, passed, crashes>>
  BY DEF EraseDeleted, IInv, TypeOK, Content, marks
<1>2. /\ req' \in [Requests -> Request]
      /\ \A q \in Requests : q # r => req'[q] = req[q]
      /\ RequestKnows(r)'
  BY <1>1, RowTypes DEF RequestKnows, Idle
<1> QED
  BY <1>1, <1>2, RowsStay DEF IInv, TypeOK

\* The objects that a worker deletes.
LEMMA EraseTypes ==
    ASSUME IInv, NEW us \in SUBSET Uploads, Erase(us)
    PROVE  original' \in [Uploads -> Content] /\ stored' \subseteq stored
BY DEF Erase, IInv, TypeOK, Content

LEMMA RunOnceKeeps == ASSUME IInv, NEW w \in Workers, RunOnce(w) PROVE IInv'
<1>1. /\ Overdue \subseteq Uploads
      /\ UNCHANGED <<rows, tile, open, kept, req, overran, passed, crashes>>
      /\ busy \in [Workers -> Worker] /\ busy[w] \in Worker
  BY DEF RunOnce, Overdue, marks, IInv, TypeOK
<1>2. original' \in [Uploads -> Content] /\ stored' \subseteq stored
  <2>1. PICK us \in SUBSET Overdue : Erase(us)
    BY DEF RunOnce
  <2> QED
    BY <1>1, <2>1, EraseTypes
<1> DEFINE next == [busy[w] EXCEPT !.at = "expire", !.todo = Overdue]
<1>3. next \in Worker /\ next.at = "expire"
  BY <1>1 DEF Worker
<1>4. busy' = [busy EXCEPT ![w] = next]
  BY DEF RunOnce
<1> HIDE DEF next
<1>5. /\ busy' \in [Workers -> Worker]
      /\ \A x \in Workers : x # w => busy'[x] = busy[x]
      /\ WorkerKnows(w)'
  BY <1>1, <1>3, <1>4 DEF WorkerKnows, Claimed
<1> QED
  BY <1>1, <1>2, <1>5, RowsStay DEF IInv, TypeOK

LEMMA ExpireKeeps == ASSUME IInv, NEW w \in Workers, Expire(w) PROVE IInv'
<1>1. /\ rows \in [Uploads -> Row]
      /\ UNCHANGED <<tile, stored, original, open, kept, req, overran, passed, crashes>>
      /\ busy \in [Workers -> Worker] /\ busy[w] \in Worker
      /\ rows' = [u \in Uploads |-> IF u \in busy[w].todo
                    THEN [rows[u] EXCEPT !.state = "expired"] ELSE rows[u]]
  BY DEF Expire, objects, marks, IInv, TypeOK
<1>2. /\ rows' \in [Uploads -> Row]
      /\ \A v \in Uploads : /\ rows'[v].checksum = rows[v].checksum
                            /\ rows'[v].state \in {rows[v].state, "expired"}
  <2>1. \A row \in Row : LET new == [row EXCEPT !.state = "expired"]
                         IN  /\ new \in Row /\ new.checksum = row.checksum
                             /\ new.state = "expired"
    BY DEF Row, States
  <2> QED
    BY <1>1, <2>1
<1> DEFINE next == [busy[w] EXCEPT !.at = "claim", !.todo = {}]
<1>3. next \in Worker /\ next.at = "claim"
  BY <1>1 DEF Worker
<1>4. busy' = [busy EXCEPT ![w] = next]
  BY DEF Expire
<1> HIDE DEF next
<1>5. /\ busy' \in [Workers -> Worker]
      /\ \A x \in Workers : x # w => busy'[x] = busy[x]
      /\ WorkerKnows(w)'
  BY <1>1, <1>3, <1>4 DEF WorkerKnows, Claimed
<1> QED
  BY <1>1, <1>2, <1>5, RowsStay DEF IInv, TypeOK

\* A claim loads the row it writes.
LEMMA ClaimKeeps == ASSUME IInv, NEW w \in Workers, Claim(w) PROVE IInv'
<1>1. /\ rows \in [Uploads -> Row] /\ busy \in [Workers -> Worker]
      /\ busy[w] \in Worker
      /\ UNCHANGED <<tile, open, kept, req, overran, passed, crashes>>
  BY DEF Claim, marks, IInv, TypeOK
<1>2. original' \in [Uploads -> Content] /\ stored' \subseteq stored
  <2>1. PICK us \in SUBSET Uploads : Erase(us)
    BY DEF Claim
  <2> QED
    BY <2>1, EraseTypes
<1>3. CASE Stops(w) /\ UNCHANGED rows
  <2>1. /\ busy' \in [Workers -> Worker]
        /\ \A x \in Workers : x # w => busy'[x] = busy[x]
        /\ WorkerKnows(w)'
    BY <1>1, <1>3, RowTypes DEF Stops, WorkerKnows, Free, Claimed
  <2> QED
    BY <1>1, <1>2, <1>3, <2>1, RowsStay DEF IInv, TypeOK
<1>4. ASSUME NEW u \in Uploads, Claimable(rows[u]),
             LET row == [rows[u] EXCEPT !.state = "processing",
                                        !.lease = "running", !.next = "none"]
             IN  /\ rows' = [rows EXCEPT ![u] = row]
                 /\ busy' = [busy EXCEPT ![w].up = u, ![w].seen = row,
                       ![w].at = IF row.processed THEN "look" ELSE "start"]
      PROVE  IInv'
  <2> DEFINE row == [rows[u] EXCEPT !.state = "processing",
                                    !.lease = "running", !.next = "none"]
             next == [busy[w] EXCEPT !.up = u, !.seen = row,
                        !.at = IF row.processed THEN "look" ELSE "start"]
  <2>1. rows[u] \in Row /\ rows[u].checksum # None
    BY <1>1, <1>4 DEF Claimable, IInv, RowAgrees
  <2>2. /\ row \in Row /\ row.checksum = rows[u].checksum
        /\ row.state = "processing"
    BY <2>1 DEF Row, States
  <2>3. rows' = [rows EXCEPT ![u] = row] /\ busy' = [busy EXCEPT ![w] = next]
    BY <1>4
  <2> HIDE DEF row
  <2>4. /\ next \in Worker /\ next.at \in {"look", "start"}
        /\ next.up = u /\ next.seen = row
    BY <1>1, <2>2 DEF Worker, Claimed
  <2> HIDE DEF next
  <2>5. /\ rows' \in [Uploads -> Row] /\ busy' \in [Workers -> Worker]
        /\ \A v \in Uploads : /\ rows'[v].checksum = rows[v].checksum
                              /\ \/ rows'[v].state = rows[v].state
                                 \/ /\ rows'[v].state = "processing"
                                    /\ rows[v].checksum # None
        /\ \A x \in Workers : x # w => busy'[x] = busy[x]
        /\ busy'[w] = next
    BY <1>1, <2>1, <2>2, <2>3, <2>4
  <2>6. WorkerKnows(w)'
    BY <2>1, <2>2, <2>4, <2>5 DEF WorkerKnows
  <2> QED
    BY <1>1, <1>2, <2>5, <2>6, RowsStay DEF IInv, TypeOK
<1> QED
  BY <1>3, <1>4 DEF Claim

LEMMA ReadKeeps == ASSUME IInv, NEW w \in Workers, Read(w) PROVE IInv'
<1> DEFINE u == busy[w].up
<1>1. busy[w].at \in Claimed
  BY DEF Read, Claimed
<1>2. CASE Fail(w, FALSE)
  BY <1>1, <1>2, FailKeeps
<1>3. CASE /\ Acceptable(original[u], busy[w].seen.checksum)
           /\ busy' = [busy EXCEPT ![w].at = "store", ![w].content = original[u]]
           /\ UNCHANGED <<rows, objects, open, kept, req, marks>>
  <2>1. /\ u \in Uploads /\ busy[w] \in Worker /\ busy \in [Workers -> Worker]
        /\ original[u] \in Content /\ original[u] = busy[w].seen.checksum
        /\ UNCHANGED <<rows, tile, stored, original, open, kept, req, overran, passed,
                       crashes>>
    BY <1>1, <1>3, AtWork DEF IInv, TypeOK, Acceptable, objects, marks
  <2> DEFINE next == [busy[w] EXCEPT !.at = "store", !.content = original[u]]
  <2>2. /\ next \in Worker /\ next.at = "store" /\ next.up = u
        /\ next.seen = busy[w].seen /\ next.content = busy[w].seen.checksum
    BY <2>1 DEF Worker, Claimed
  <2>3. busy' = [busy EXCEPT ![w] = next]
    BY <1>3
  <2> HIDE DEF next
  <2>4. /\ busy' \in [Workers -> Worker] /\ busy'[w] = next
        /\ \A x \in Workers : x # w => busy'[x] = busy[x]
    BY <2>1, <2>2, <2>3
  <2>5. WorkerKnows(w)'
    BY <1>1, <2>1, <2>2, <2>4 DEF WorkerKnows, IInv
  <2> QED
    BY <2>1, <2>4, <2>5, RowsStay DEF IInv, TypeOK
<1> QED
  BY <1>2, <1>3 DEF Read

\* The tile that is judged shows the file that was confirmed.
LEMMA LookKeeps == ASSUME IInv, NEW w \in Workers, Look(w) PROVE IInv'
<1> DEFINE u == busy[w].up
<1>1. busy[w].at \in Claimed
  BY DEF Look, Claimed
<1>2. /\ u \in Uploads /\ busy[w] \in Worker /\ busy \in [Workers -> Worker]
      /\ tile[u] \in Content /\ tile[u] # None /\ tile[u] = busy[w].seen.checksum
      /\ UNCHANGED <<rows, tile, stored, original, open, kept, req, overran, passed,
                     crashes>>
  BY <1>1, AtWork DEF IInv, TypeOK, RowAgrees, Look, objects, marks
<1> DEFINE next == [busy[w] EXCEPT !.at = "judge", !.content = tile[u]]
<1>3. /\ next \in Worker /\ next.at = "judge" /\ next.up = u
      /\ next.seen = busy[w].seen /\ next.content = busy[w].seen.checksum
  BY <1>2 DEF Worker, Claimed
<1>4. busy' = [busy EXCEPT ![w] = next]
  BY DEF Look
<1> HIDE DEF next
<1>5. /\ busy' \in [Workers -> Worker] /\ busy'[w] = next
      /\ \A x \in Workers : x # w => busy'[x] = busy[x]
  BY <1>2, <1>3, <1>4
<1>6. WorkerKnows(w)'
  BY <1>1, <1>2, <1>3, <1>5 DEF WorkerKnows, IInv
<1> QED
  BY <1>2, <1>5, <1>6, RowsStay DEF IInv, TypeOK

\* The bound on the mishaps keeps their count.
LEMMA CrashKeeps == ASSUME IInv, NEW w \in Workers, Crash(w) PROVE IInv'
<1>1. Cardinality(overran) \in Nat
  <2>1. overran \subseteq Uploads /\ IsFiniteSet(Uploads)
    BY UploadsAssumption DEF IInv, TypeOK
  <2> QED
    BY <2>1, FS_Subset, FS_CardinalityType
<1>2. crashes' \in 0..MaxMishaps
  BY <1>1, UploadsAssumption DEF Crash, Mishap, IInv, TypeOK
<1>3. /\ busy' \in [Workers -> Worker]
      /\ \A x \in Workers : x # w => busy'[x] = busy[x]
      /\ WorkerKnows(w)'
  BY RowTypes DEF Crash, Stops, WorkerKnows, Free, Claimed, IInv, TypeOK
<1>4. UNCHANGED <<rows, tile, stored, original, open, kept, req, overran, passed>>
  BY DEF Crash, objects
<1> QED
  BY <1>2, <1>3, <1>4, RowsStay DEF IInv, TypeOK

-----------------------------------------------------------------------------
(* Exclusive claims.                                                       *)

\* A row in moderation was processed, and the pause before another attempt is
\* for failures of the provider only.
RowWaits(u) ==
    /\ rows[u].state = "awaiting_moderation" => rows[u].processed
    /\ rows[u].moderation = "unavailable" /\ u \notin overran
         => rows[u].next # "later"

\* Nobody can claim what a worker holds within its lease: not even in the time
\* between the two transactions of _process, in which there is no lease.
Holds(w) ==
    LET u    == busy[w].up
        seen == busy[w].seen
        row  == rows[u]
    IN  /\ busy[w].at \notin Claimed => u = None
        /\ busy[w].at \in Claimed =>
             /\ seen.state = IF busy[w].at = "resume" THEN "awaiting_moderation"
                                                    ELSE "processing"
             /\ seen.next = "none" /\ seen.lease # "lapsed"
             /\ seen.processed => row.processed
        /\ busy[w].at \in {"resume", "look", "judge"} => seen.processed
        /\ busy[w].at = "resume" => seen.moderation = "pending"
        /\ busy[w].at \in Claimed /\ u \notin overran =>
             /\ \A v \in Workers : v # w => busy[v].up # u
             /\ row.next # "later" /\ row.lease # "lapsed"
             /\ row.moderation = seen.moderation
             /\ \/ row.gone
                \/ row.next = "none" /\ row.state \in {"expired", seen.state}

Unheld(u) == \A w \in Workers : busy[w].up # u

\* A retry that will change the row finds it as it was, and nobody at work on it.
Retries(r) ==
    LET u    == req[r].up
        seen == req[r].seen
        row  == rows[u]
    IN  req[r].at = "retry" =>
          /\ seen.processed => row.processed
          /\ u \notin overran =>
               \/ row.gone
               \/ seen.state = "failed" /\ Unheld(u) /\ row.state \in {"failed", "expired"}
               \/ /\ seen.state = "awaiting_moderation" /\ seen.processed
                  /\ \/ seen.next = "due"
                     \/ /\ seen.next = "none" /\ row.next = "none" /\ Unheld(u)
                        /\ row.state \in {"awaiting_moderation", "expired"}

ClaimInv ==
    /\ \A u \in Uploads : RowWaits(u)
    /\ \A w \in Workers : Holds(w)
    /\ \A r \in Requests : Retries(r)

\* A step that no row in work notices: others write only the state "expired", a
\* deletion, or rows that nobody has confirmed.
LEMMA ClaimsStay ==
    ASSUME IInv, ClaimInv, overran \subseteq overran',
           \A v \in Uploads :
             \/ /\ rows[v].checksum = None
                /\ rows'[v].state # "awaiting_moderation"
                /\ rows'[v].moderation = rows[v].moderation
                /\ rows'[v].next \in {rows[v].next, "due"}
             \/ /\ rows'[v].moderation = rows[v].moderation
                /\ rows'[v].processed = rows[v].processed
                /\ rows[v].gone => rows'[v].gone
                /\ \/ rows'[v].gone /\ rows'[v].state # "awaiting_moderation"
                   \/ rows'[v].state \in {rows[v].state, "expired"}
                /\ \/ rows'[v].next = rows[v].next
                   \/ rows[v].next = "later" /\ rows'[v].next = "due"
                /\ \/ rows'[v].lease \in {rows[v].lease, "none"}
                   \/ v \in overran' \/ Unheld(v),
           \A x \in Workers : busy'[x].up \in {busy[x].up, None}
    PROVE  /\ \A v \in Uploads : RowWaits(v)'
           /\ \A w \in Workers : busy'[w] = busy[w] => Holds(w)'
           /\ \A r \in Requests : req'[r] = req[r] => Retries(r)'
<1>1. ASSUME NEW v \in Uploads PROVE RowWaits(v)'
  BY DEF ClaimInv, RowWaits
<1>2. ASSUME NEW w \in Workers, busy'[w] = busy[w] PROVE Holds(w)'
  <2>1. Holds(w) /\ WorkerKnows(w)
    BY DEF ClaimInv, IInv
  <2>2. CASE busy[w].at \notin Claimed
    BY <1>2, <2>1, <2>2 DEF Holds, Claimed
  <2>3. CASE busy[w].at \in Claimed
    <3> DEFINE u == busy[w].up
    <3>1. u \in Uploads /\ rows[u].checksum # None /\ ~Unheld(u)
      BY <2>1, <2>3 DEF WorkerKnows, Unheld
    <3>2. \A v \in Workers : v # w /\ busy[v].up # u => busy'[v].up # u
      BY <3>1, UploadsAssumption
    <3> QED
      BY <1>2, <2>1, <2>3, <3>1, <3>2 DEF Holds
  <2> QED
    BY <2>2, <2>3
<1>3. ASSUME NEW r \in Requests, req'[r] = req[r] PROVE Retries(r)'
  <2>1. Retries(r) /\ RequestKnows(r)
    BY DEF ClaimInv, IInv
  <2> SUFFICES ASSUME req[r].at = "retry" PROVE Retries(r)'
    BY <1>3 DEF Retries
  <2> DEFINE u == req[r].up
  <2>2. u \in Uploads /\ rows[u].checksum # None
    BY <2>1 DEF RequestKnows
  <2>3. Unheld(u) => Unheld(u)'
    BY <1>3, <2>2, UploadsAssumption DEF Unheld
  <2> QED
    BY <1>3, <2>1, <2>2, <2>3 DEF Retries
<1> QED
  BY <1>1, <1>2, <1>3

\* A worker that writes its row within its lease finds the row as it knows it.
LEMMA SavesHolds ==
    ASSUME IInv, ClaimInv, NEW w \in Workers, busy[w].at \in Claimed,
           NEW new \in Draft, NEW point \in {"idle", "read", "resume", "look"},
           new.gone = busy[w].seen.gone,
           new.processed = busy[w].seen.processed \/ new.processed,
           new.state = "awaiting_moderation" => new.processed,
           new.next = "later" => new.moderation # "unavailable",
           point # "idle" =>
             /\ new.next = "none" /\ new.lease # "lapsed"
             /\ new.state = IF point = "resume" THEN "awaiting_moderation"
                                                ELSE "processing"
             /\ point = "resume" => new.moderation = "pending"
             /\ point \in {"resume", "look"} => new.processed,
           new.lease # "lapsed" \/ new.lease = busy[w].seen.lease,
           Saves(w, new, point),
           UNCHANGED <<overran, req>>
    PROVE  ClaimInv'
<1> DEFINE u    == busy[w].up
           seen == busy[w].seen
           row  == After(u, seen, new)
<1>1. /\ u \in Uploads /\ u # None /\ seen \in Row
      /\ rows \in [Uploads -> Row] /\ busy \in [Workers -> Worker]
  BY AtWork, UploadsAssumption DEF IInv, TypeOK
<1>2. Holds(w) /\ RowWaits(u)
  BY <1>1 DEF ClaimInv
<1>3. CASE UNCHANGED rows /\ Stops(w)
  <2>1. \A x \in Workers : busy'[x] = IF x = w THEN Free ELSE busy[x]
    BY <1>1, <1>3 DEF Stops
  <2>2. /\ \A v \in Uploads : RowWaits(v)'
        /\ \A x \in Workers : x # w => Holds(x)'
        /\ \A r \in Requests : Retries(r)'
    BY <1>3, <2>1, ClaimsStay DEF Free
  <2>3. Holds(w)'
    BY <2>1 DEF Holds, Free, Claimed
  <2> QED
    BY <2>2, <2>3 DEF ClaimInv
<1>4. CASE /\ rows' = [rows EXCEPT ![u] = row]
           /\ busy' = [busy EXCEPT ![w] = IF point = "idle" THEN Free
                                          ELSE GoneOn(@, point, new)]
           /\ Allowed(row)
  <2>1. \A v \in Uploads : rows'[v] = IF v = u THEN row ELSE rows[v]
    BY <1>1, <1>4
  <2>2. /\ row.state = Written(rows[u].state, seen.state, new.state)
        /\ row.lease = Written(rows[u].lease, seen.lease, new.lease)
        /\ row.next = Written(rows[u].next, seen.next, new.next)
        /\ row.processed = Written(rows[u].processed, seen.processed, new.processed)
        /\ row.gone = Written(rows[u].gone, seen.gone, new.gone)
        /\ row.moderation
             = Written(rows[u].moderation, seen.moderation, new.moderation)
    BY DEF After
  <2> HIDE DEF row
  <2>3. /\ row.gone = rows[u].gone
        /\ rows[u].processed => row.processed
        /\ new.processed => row.processed
        /\ row.state \in {rows[u].state, new.state}
    BY <1>2, <2>2 DEF Written, Holds
  <2>4. u \notin overran =>
          /\ row.moderation = new.moderation
          /\ row.next = new.next \/ row.next = rows[u].next
          /\ row.next = "later" => new.next = "later"
          /\ row.lease # "lapsed"
    BY <1>2, <2>2 DEF Written, Holds
  <2>6. \A x \in Workers : x # w => busy'[x] = busy[x]
    BY <1>1, <1>4
  <2>7. /\ busy'[w] = Free \/ busy'[w] = GoneOn(busy[w], point, new)
        /\ busy'[w].up \in {u, None}
    <3>1. CASE point = "idle"
      BY <1>1, <1>4, <3>1 DEF Free
    <3>2. CASE point # "idle"
      BY <1>1, <1>4, <3>2 DEF GoneOn, Worker
    <3> QED
      BY <3>1, <3>2
  <2>8. ASSUME NEW v \in Uploads PROVE RowWaits(v)'
    <3>1. CASE v = u
      <4>1. row.state = "awaiting_moderation" => row.processed
        BY <1>2, <2>3 DEF RowWaits
      <4>2. row.moderation = "unavailable" /\ u \notin overran => row.next # "later"
        BY <2>4
      <4> QED
        BY <2>1, <3>1, <4>1, <4>2 DEF RowWaits
    <3>2. CASE v # u
      BY <2>1, <3>2 DEF ClaimInv, RowWaits
    <3> QED
      BY <3>1, <3>2
  <2>9. ASSUME NEW x \in Workers, x # w PROVE Holds(x)'
    <3>1. Holds(x) /\ WorkerKnows(x)
      BY DEF ClaimInv, IInv
    <3>2. busy[x].at \in Claimed /\ busy[x].up \notin overran => busy[x].up # u
      BY <1>1, <3>1, <2>9 DEF Holds
    <3>3. busy[x].at \in Claimed => busy[x].up # None /\ busy[x].up \in Uploads
      BY <3>1, UploadsAssumption DEF WorkerKnows
    <3>4. busy[x].at \in Claimed /\ busy[x].seen.processed
            => rows'[busy[x].up].processed
      BY <2>1, <2>3, <3>1, <3>3 DEF Holds
    <3>5. \A y \in Workers : busy[x].at \in Claimed /\ busy[x].up \notin overran
            /\ y # x => busy'[y].up # busy[x].up
      BY <2>6, <2>7, <3>1, <3>2, <3>3 DEF Holds
    <3>6. busy[x].at \in Claimed /\ busy[x].up \notin overran
            => rows'[busy[x].up] = rows[busy[x].up]
      BY <2>1, <3>2, <3>3
    <3> QED
      BY <2>6, <2>9, <3>1, <3>4, <3>5, <3>6 DEF Holds
  <2>10. Holds(w)'
    <3>1. CASE busy'[w] = Free
      BY <3>1 DEF Holds, Free, Claimed
    <3>2. CASE point # "idle" /\ busy'[w] = GoneOn(busy[w], point, new)
      <4>1. /\ busy'[w].at = point /\ busy'[w].up = u /\ busy'[w].seen = new
        BY <1>1, <3>2 DEF GoneOn, Worker
      <4>2. u \notin overran =>
              /\ \A y \in Workers : y # w => busy'[y].up # u
              /\ \/ row.gone
                 \/ row.next = "none" /\ row.state \in {"expired", new.state}
        BY <1>2, <2>2, <2>3, <2>4, <2>6, <3>2 DEF Holds, Written
      <4>3. rows'[u] = row
        BY <1>1, <2>1
      <4> QED
        BY <2>3, <2>4, <3>2, <4>1, <4>2, <4>3 DEF Holds, Claimed
    <3> QED
      BY <1>1, <1>4, <2>7, <3>1, <3>2
  <2>11. ASSUME NEW r \in Requests PROVE Retries(r)'
    <3>1. Retries(r)
      BY DEF ClaimInv
    <3> SUFFICES ASSUME req[r].at = "retry" PROVE Retries(r)'
      BY DEF Retries
    <3> DEFINE v == req[r].up
    <3>2. v \in Uploads /\ v # None
      BY UploadsAssumption DEF IInv, RequestKnows
    <3>3. CASE v = u
      <4>1. ~Unheld(v)
        BY <3>3 DEF Unheld
      <4> QED
        BY <2>1, <2>3, <3>1, <3>2, <3>3, <4>1 DEF Retries
    <3>4. CASE v # u
      <4>1. rows'[v] = rows[v] /\ (Unheld(v) => Unheld(v)')
        BY <2>1, <2>6, <2>7, <3>2, <3>4 DEF Unheld
      <4> QED
        BY <3>1, <4>1 DEF Retries
    <3> QED
      BY <3>3, <3>4
  <2> QED
    BY <2>8, <2>9, <2>10, <2>11 DEF ClaimInv
<1> QED
  BY <1>3, <1>4 DEF Saves

\* What a worker writes of the columns that others decide by.
LEMMA DraftsHold ==
    ASSUME NEW seen \in Row
    PROVE  /\ Started(seen).gone = seen.gone
           /\ Started(seen).processed = seen.processed
           /\ Started(seen).next = seen.next /\ Started(seen).lease = seen.lease
           /\ Processed(seen).gone = seen.gone /\ Processed(seen).processed
           /\ Processed(seen).next = seen.next /\ Processed(seen).lease = "none"
           /\ Processed(seen).moderation = "pending"
           /\ Resumed(seen).gone = seen.gone
           /\ Resumed(seen).processed = seen.processed
           /\ Resumed(seen).next = seen.next /\ Resumed(seen).lease = seen.lease
           /\ \A recoverable \in BOOLEAN :
                /\ Failed(seen, recoverable).gone = seen.gone
                /\ Failed(seen, recoverable).processed = seen.processed
                /\ Failed(seen, recoverable).next = "none"
                /\ Failed(seen, recoverable).lease = "none"
           /\ \A verdict \in Verdicts :
                /\ Judged(seen, verdict).gone = seen.gone
                /\ Judged(seen, verdict).processed = seen.processed
                /\ Judged(seen, verdict).lease = "none"
                /\ Judged(seen, verdict).next = "later" =>
                     Judged(seen, verdict).moderation = "failed" \/ seen.next = "later"
<1>1. /\ Started(seen).gone = seen.gone
      /\ Started(seen).processed = seen.processed
      /\ Started(seen).next = seen.next /\ Started(seen).lease = seen.lease
  BY DEF Started, Row
<1>2. /\ Processed(seen).gone = seen.gone /\ Processed(seen).processed
      /\ Processed(seen).next = seen.next /\ Processed(seen).lease = "none"
      /\ Processed(seen).moderation = "pending"
  BY DEF Processed, Row
<1>3. /\ Resumed(seen).gone = seen.gone
      /\ Resumed(seen).processed = seen.processed
      /\ Resumed(seen).next = seen.next /\ Resumed(seen).lease = seen.lease
  BY DEF Resumed, Row
<1>4. ASSUME NEW recoverable \in BOOLEAN
      PROVE  /\ Failed(seen, recoverable).gone = seen.gone
             /\ Failed(seen, recoverable).processed = seen.processed
             /\ Failed(seen, recoverable).next = "none"
             /\ Failed(seen, recoverable).lease = "none"
  BY DEF Failed, Row
<1>5. ASSUME NEW verdict \in Verdicts
      PROVE  /\ Judged(seen, verdict).gone = seen.gone
             /\ Judged(seen, verdict).processed = seen.processed
             /\ Judged(seen, verdict).lease = "none"
             /\ Judged(seen, verdict).next = "later" =>
                  Judged(seen, verdict).moderation = "failed" \/ seen.next = "later"
  BY DEF Judged, Row
<1> QED
  BY <1>1, <1>2, <1>3, <1>4, <1>5

\* What a worker makes of the file it reads.
Refuses(w) == Read(w) /\ Fail(w, FALSE)
Accepts(w) == Read(w) /\ ~Fail(w, FALSE)

\* The workers' transactions on a row they hold.
LEMMA WorkHolds ==
    ASSUME IInv, ClaimInv, NEW w \in Workers,
           \/ Start(w) \/ StorageFails(w) \/ Refuses(w)
           \/ Store(w) \/ Resume(w) \/ \E verdict \in Verdicts : Judge(w, verdict)
    PROVE  ClaimInv'
<1> DEFINE seen == busy[w].seen
<1>1. busy[w].at \in Claimed
  BY DEF Start, StorageFails, Refuses, Read, Store, Resume, Judge, Claimed
<1>2. seen \in Row /\ Holds(w) /\ busy[w].at \in Claimed /\ TypeOK
  BY <1>1, AtWork DEF ClaimInv, IInv
<1>3. CASE Start(w)
  <2>1. /\ Started(seen) \in Draft /\ Started(seen).state = seen.state
        /\ busy[w].at = "start" /\ Saves(w, Started(seen), "read")
        /\ UNCHANGED <<overran, req>>
    BY <1>2, <1>3, DraftsOfAWorker DEF Start, marks
  <2> QED
    BY <1>2, <2>1, DraftsHold, SavesHolds DEF Holds
<1>4. ASSUME NEW recoverable \in BOOLEAN, Fail(w, recoverable) PROVE ClaimInv'
  <2> DEFINE new == Failed(seen, recoverable)
  <2>1. /\ new \in Draft /\ new.state = "failed" /\ Saves(w, new, "idle")
        /\ UNCHANGED <<overran, req>>
    BY <1>2, <1>4, DraftsOfAWorker DEF Fail, marks
  <2>2. /\ new.gone = seen.gone /\ new.processed = seen.processed
        /\ new.next = "none" /\ new.lease = "none"
    BY <1>2, DraftsHold
  <2> HIDE DEF new
  <2> QED
    BY <1>2, <2>1, <2>2, SavesHolds
<1>5. CASE Store(w)
  <2>1. CASE Stops(w) /\ UNCHANGED <<rows, tile, stored>>
    <3>1. /\ \A x \in Workers : busy'[x] = IF x = w THEN Free ELSE busy[x]
          /\ UNCHANGED <<rows, overran, req>>
      BY <1>2, <1>5, <2>1 DEF Stops, Store, TypeOK, marks
    <3>2. /\ \A v \in Uploads : RowWaits(v)'
          /\ \A x \in Workers : x # w => Holds(x)'
          /\ \A r \in Requests : Retries(r)'
      BY <3>1, ClaimsStay DEF Free
    <3>3. Holds(w)'
      BY <3>1 DEF Holds, Free, Claimed
    <3> QED
      BY <3>2, <3>3 DEF ClaimInv
  <2>2. CASE Saves(w, Processed(seen), "resume")
    <3>1. /\ Processed(seen) \in Draft
          /\ Processed(seen).state = "awaiting_moderation"
          /\ UNCHANGED <<overran, req>>
      BY <1>2, <1>5, DraftsOfAWorker DEF Store, marks
    <3> QED
      BY <1>2, <2>2, <3>1, DraftsHold, SavesHolds DEF Holds
  <2> QED
    BY <1>5, <2>1, <2>2 DEF Store
<1>6. CASE Resume(w)
  <2>1. /\ Resumed(seen) \in Draft /\ Resumed(seen).state = "processing"
        /\ busy[w].at = "resume" /\ Saves(w, Resumed(seen), "look")
        /\ UNCHANGED <<overran, req>>
    BY <1>2, <1>6, DraftsOfAWorker DEF Resume, marks
  <2> QED
    BY <1>2, <2>1, DraftsHold, SavesHolds DEF Holds
<1>7. ASSUME NEW verdict \in Verdicts, Judge(w, verdict) PROVE ClaimInv'
  <2> DEFINE new == Judged(seen, verdict)
  <2>1. /\ new \in Draft /\ busy[w].at = "judge" /\ Saves(w, new, "idle")
        /\ UNCHANGED <<overran, req>>
    BY <1>2, <1>7, JudgedIsDraft DEF Judge
  <2>2. /\ new.gone = seen.gone /\ new.processed = seen.processed
        /\ new.lease = "none"
        /\ new.next = "later" => new.moderation = "failed" \/ seen.next = "later"
    BY <1>2, DraftsHold
  <2> HIDE DEF new
  <2> QED
    BY <1>2, <2>1, <2>2, SavesHolds DEF Holds
<1> QED
  BY <1>3, <1>4, <1>5, <1>6, <1>7 DEF StorageFails, Refuses

\* What changes neither rows nor claims, and what time and expiry change in rows.
LEMMA OutsideHolds ==
    ASSUME IInv, ClaimInv, NEW u \in Uploads,
           \/ \E c \in Contents : Transfer(u, c)
           \/ IntentLapses(u) \/ Refer(u) \/ Reserve(u) \/ Release(u)
           \/ Create(u) \/ LeaseLapses(u) \/ BackoffPasses(u)
    PROVE  ClaimInv'
<1>1. rows \in [Uploads -> Row] /\ UNCHANGED <<busy, req>>
  BY DEF IInv, TypeOK, Transfer, IntentLapses, Refer, Reserve, Release, Create,
         LeaseLapses, BackoffPasses
<1>2. CASE UNCHANGED <<rows, overran>>
  BY <1>1, <1>2, ClaimsStay DEF ClaimInv
<1>3. CASE Create(u)
  <2>1. rows[u].checksum = None /\ overran' = overran
    BY <1>3 DEF Create, IInv, RowAgrees, marks
  <2> QED
    BY <1>1, <1>3, <2>1, ClaimsStay DEF ClaimInv, Create, Row
<1>4. CASE LeaseLapses(u)
  <2>1. /\ rows' = [rows EXCEPT ![u].lease = "lapsed"]
        /\ overran \subseteq overran'
        /\ u \in overran' \/ Unheld(u)
    BY <1>4 DEF LeaseLapses, Unheld
  <2> QED
    BY <1>1, <2>1, ClaimsStay DEF ClaimInv, Row
<1>5. CASE BackoffPasses(u)
  BY <1>1, <1>5, ClaimsStay DEF ClaimInv, Row, BackoffPasses, marks
<1> QED
  BY <1>2, <1>3, <1>4, <1>5 DEF Transfer, IntentLapses, Refer, Reserve, Release, marks

\* The owner.
LEMMA OwnerHolds ==
    ASSUME IInv, ClaimInv, OneAtATime, NEW r \in Requests, Owner(r) PROVE ClaimInv'
<1>1. /\ rows \in [Uploads -> Row] /\ req \in [Requests -> Request]
      /\ UNCHANGED <<busy, overran>>
  BY DEF IInv, TypeOK, Owner, BeginConfirm, BeginRetry, BeginDelete, Begin, Confirm,
         Retry, Delete, Commit, EraseDeleted, marks
<1> USE DEF OneAtATime
<1>2. CASE req'[r].at # "retry" /\ UNCHANGED rows
  <2>1. \A q \in Requests : Retries(q)'
    BY <1>2 DEF Retries
  <2> QED
    BY <1>1, <1>2, <2>1, ClaimsStay DEF ClaimInv
<1>3. ASSUME NEW u \in Uploads, BeginRetry(r, u) PROVE ClaimInv'
  <2> DEFINE seen == [NoRow EXCEPT !.state = rows[u].state,
                                   !.next = rows[u].next,
                                   !.processed = rows[u].processed]
  <2>1. /\ Retriable(rows[u])
        /\ req' = [req EXCEPT ![r] = [at |-> "retry", up |-> u, seen |-> seen,
                                      content |-> None]]
        /\ UNCHANGED rows
    BY <1>3 DEF BeginRetry, Begin
  <2>2. /\ seen.state = rows[u].state /\ seen.next = rows[u].next
        /\ seen.processed = rows[u].processed
    BY DEF NoRow
  <2> HIDE DEF seen
  <2>3. req'[r].up = u /\ req'[r].seen = seen
    BY <1>1, <2>1
  <2>4. RowWaits(u) /\ rows[u].next \in {"none", "later", "due"}
    BY <1>1 DEF ClaimInv, Row
  <2>5. u \notin overran /\ ~rows[u].gone /\ ~Unheld(u) =>
          /\ rows[u].state \in {"expired", "awaiting_moderation", "processing"}
          /\ rows[u].state = "awaiting_moderation" => rows[u].moderation = "pending"
    <3> SUFFICES ASSUME u \notin overran, ~rows[u].gone,
                        NEW w \in Workers, busy[w].up = u
                 PROVE  /\ rows[u].state \in {"expired", "awaiting_moderation",
                                              "processing"}
                        /\ rows[u].state = "awaiting_moderation"
                             => rows[u].moderation = "pending"
      BY DEF Unheld
    <3>1. Holds(w) /\ busy[w].at \in Claimed
      BY UploadsAssumption DEF ClaimInv, Holds
    <3> QED
      BY <3>1 DEF Holds
  <2>6. Retries(r)'
    BY <1>1, <2>1, <2>2, <2>3, <2>4, <2>5 DEF Retries, Retriable, RowWaits, Unheld
  <2>7. \A q \in Requests : Retries(q)'
    BY <2>6
  <2> QED
    BY <1>1, <2>1, <2>7, ClaimsStay DEF ClaimInv
<1>4. ASSUME NEW new \in Row, NEW point \in {"idle", "erase"}, Commit(r, new, point),
             req[r].at \in {"confirm", "retry", "delete"},
             LET u   == req[r].up
                 row == After(u, req[r].seen, new)
             IN  \/ /\ rows[u].checksum = None
                    /\ row.state # "awaiting_moderation"
                    /\ row.moderation = rows[u].moderation
                    /\ row.next \in {rows[u].next, "due"}
                 \/ /\ row.moderation = rows[u].moderation
                    /\ row.processed = rows[u].processed
                    /\ rows[u].gone => row.gone
                    /\ \/ row.gone /\ row.state # "awaiting_moderation"
                       \/ row.state \in {rows[u].state, "expired"}
                    /\ row.next = rows[u].next
                    /\ row.lease \in {rows[u].lease, "none"}
      PROVE  ClaimInv'
  <2> DEFINE u   == req[r].up
             row == After(u, req[r].seen, new)
  <2>1. u \in Uploads /\ rows' = [rows EXCEPT ![u] = row]
    BY <1>4 DEF Commit, IInv, RequestKnows
  <2>2. \A v \in Uploads : rows'[v] = IF v = u THEN row ELSE rows[v]
    BY <1>1, <2>1
  <2>3. req'[r].at # "retry"
    BY <1>1, <1>4 DEF Commit, Idle, Request
  <2>4. \A q \in Requests : Retries(q)'
    BY <2>3 DEF Retries
  <2> HIDE DEF row
  <2> QED
    BY <1>1, <1>4, <2>2, <2>4, ClaimsStay DEF ClaimInv, row
<1>5. CASE Confirm(r)
  <2> DEFINE u    == req[r].up
             seen == req[r].seen
             new  == Confirmed(seen, req[r].content)
             row  == After(u, seen, new)
  <2>1. /\ req[r].at = "confirm" /\ Commit(r, new, "idle") /\ seen = NoRow
        /\ rows[u].checksum = None /\ NoRow \in Row /\ req[r].content \in Content
    BY <1>1, <1>5, RowTypes DEF Confirm, IInv, RequestKnows, Request
  <2>2. new \in Row
    BY <2>1, RowsOfARequest
  <2>3. /\ row.state = "uploaded" /\ row.next = "due"
        /\ row.moderation = rows[u].moderation
    BY <2>1 DEF After, Confirmed, Written, NoRow
  <2> HIDE DEF new
  <2> QED
    BY <1>4, <2>1, <2>2, <2>3
<1>6. CASE Delete(r)
  <2> DEFINE u    == req[r].up
             seen == req[r].seen
             new  == Deleted(seen)
             row  == After(u, seen, new)
  <2>1. /\ req[r].at = "delete" /\ Commit(r, new, "erase")
        /\ seen \in Row /\ ~seen.gone
    BY <1>1, <1>6 DEF Delete, Request, IInv, RequestKnows
  <2>2. new \in Row
    BY <2>1, RowsOfARequest DEF Content
  <2>3. /\ row.moderation = rows[u].moderation
        /\ row.processed = rows[u].processed
        /\ row.next = rows[u].next
        /\ row.lease \in {rows[u].lease, "none"}
        /\ row.gone
        /\ row.state \in {rows[u].state, "deleted"}
    BY <2>1 DEF After, Deleted, Written, Row
  <2> HIDE DEF new
  <2> QED
    BY <1>4, <2>1, <2>2, <2>3
<1>7. CASE Retry(r)
  <2> DEFINE u    == req[r].up
             seen == req[r].seen
             new  == Retried(seen)
             row  == After(u, seen, new)
  <2>1. /\ req[r].at = "retry" /\ Commit(r, new, "idle") /\ seen \in Row
        /\ u \in Uploads /\ rows[u] \in Row /\ Retries(r) /\ RowWaits(u)
    BY <1>1, <1>7 DEF Retry, Request, IInv, RequestKnows, ClaimInv
  <2>2. /\ row.moderation = rows[u].moderation
        /\ row.processed = rows[u].processed
        /\ row.gone = rows[u].gone /\ row.lease = rows[u].lease
        /\ row.next = IF seen.next = "due" THEN rows[u].next ELSE "due"
        /\ row.state = LET target == IF seen.processed THEN "awaiting_moderation"
                                                       ELSE "uploaded"
                       IN  IF seen.state = target THEN rows[u].state ELSE target
    BY <2>1 DEF After, Retried, Written, Row
  <2>3. rows' = [rows EXCEPT ![u] = row] /\ req' = [req EXCEPT ![r] = Idle]
    BY <2>1 DEF Commit
  <2> HIDE DEF new, row
  <2>4. \A v \in Uploads : rows'[v] = IF v = u THEN row ELSE rows[v]
    BY <1>1, <2>1, <2>3
  <2>5. row.state = "awaiting_moderation" => row.processed
    BY <2>1, <2>2 DEF Retries, RowWaits
  <2>6. row.next \in {rows[u].next, "due"}
    BY <2>2
  <2>7. ASSUME NEW v \in Uploads PROVE RowWaits(v)'
    <3>1. RowWaits(v)
      BY DEF ClaimInv
    <3> QED
      BY <1>1, <2>2, <2>4, <2>5, <2>6, <3>1 DEF RowWaits
  <2>8. ASSUME NEW w \in Workers PROVE Holds(w)'
    <3>1. Holds(w)
      BY DEF ClaimInv
    <3>2. CASE busy[w].at \in Claimed /\ busy[w].up = u
      <4>1. ~Unheld(u)
        BY <3>2 DEF Unheld
      <4>2. u \notin overran /\ ~rows[u].gone
              => row.state = rows[u].state /\ row.next = rows[u].next
        BY <2>1, <2>2, <4>1 DEF Retries
      <4> QED
        BY <1>1, <2>1, <2>2, <2>4, <2>6, <3>1, <3>2, <4>2 DEF Holds
    <3>3. CASE busy[w].at \in Claimed /\ busy[w].up # u
      <4>1. busy[w].up \in Uploads
        BY <3>3 DEF IInv, WorkerKnows
      <4> QED
        BY <1>1, <2>4, <3>1, <3>3, <4>1 DEF Holds
    <3>4. CASE busy[w].at \notin Claimed
      BY <1>1, <3>1, <3>4 DEF Holds, Claimed
    <3> QED
      BY <3>2, <3>3, <3>4
  <2>9. \A q \in Requests : Retries(q)'
    BY <1>1, <2>3 DEF Retries, Idle
  <2> QED
    BY <2>7, <2>8, <2>9 DEF ClaimInv
<1>8. ASSUME NEW u \in Uploads, BeginConfirm(r, u) \/ BeginDelete(r, u) PROVE ClaimInv'
  BY <1>1, <1>2, <1>8 DEF BeginConfirm, BeginDelete, Begin
<1>9. CASE EraseDeleted(r)
  BY <1>1, <1>2, <1>9 DEF EraseDeleted, Idle
<1> QED
  BY <1>3, <1>5, <1>6, <1>7, <1>8, <1>9 DEF Owner

\* A worker's steps without a commit, and the expiry of what it had listed.
LEMMA MovesHold ==
    ASSUME IInv, ClaimInv, NEW w \in Workers,
           \/ RunOnce(w) \/ Expire(w) \/ Look(w) \/ Crash(w)
           \/ Accepts(w)
    PROVE  ClaimInv'
<1>1. /\ rows \in [Uploads -> Row] /\ busy \in [Workers -> Worker] /\ Holds(w)
      /\ UNCHANGED <<req, overran>>
  BY DEF IInv, TypeOK, ClaimInv, RunOnce, Expire, Look, Crash, Accepts, Read, marks
<1>2. /\ \A x \in Workers : x # w => busy'[x] = busy[x]
      /\ \/ /\ busy'[w].at \in {"expire", "claim"} /\ busy[w].at \notin Claimed
            /\ busy'[w].up = busy[w].up
         \/ busy'[w] = Free
         \/ /\ busy'[w].up = busy[w].up /\ busy'[w].seen = busy[w].seen
            /\ UNCHANGED rows
            /\ \/ busy[w].at = "look" /\ busy'[w].at = "judge"
               \/ busy[w].at = "read" /\ busy'[w].at = "store"
  <2>1. CASE RunOnce(w) \/ Expire(w)
    <3>1. \A b \in Worker, us \in SUBSET Uploads :
            /\ [b EXCEPT !.at = "expire", !.todo = us].at = "expire"
            /\ [b EXCEPT !.at = "expire", !.todo = us].up = b.up
            /\ [b EXCEPT !.at = "claim", !.todo = {}].at = "claim"
            /\ [b EXCEPT !.at = "claim", !.todo = {}].up = b.up
      BY DEF Worker
    <3>2. CASE RunOnce(w)
      <4>1. /\ busy' = [busy EXCEPT ![w] = [busy[w] EXCEPT !.at = "expire",
                                                        !.todo = Overdue]]
            /\ busy[w].at = "idle" /\ Overdue \in SUBSET Uploads
        BY <3>2 DEF RunOnce, Overdue
      <4> QED
        BY <1>1, <3>1, <4>1 DEF Claimed
    <3>3. CASE Expire(w)
      <4>1. /\ busy' = [busy EXCEPT ![w] = [busy[w] EXCEPT !.at = "claim",
                                                        !.todo = {}]]
            /\ busy[w].at = "expire"
        BY <3>3 DEF Expire
      <4> QED
        BY <1>1, <3>1, <4>1 DEF Claimed
    <3> QED
      BY <2>1, <3>2, <3>3
  <2>2. CASE Crash(w)
    <3>1. busy' = [busy EXCEPT ![w] = Free]
      BY <2>2 DEF Crash, Stops
    <3> QED
      BY <1>1, <3>1
  <2>3. CASE Look(w) \/ Accepts(w)
    <3>1. \A b \in Worker : \A c :
            /\ [b EXCEPT !.at = "judge", !.content = c].at = "judge"
            /\ [b EXCEPT !.at = "judge", !.content = c].up = b.up
            /\ [b EXCEPT !.at = "judge", !.content = c].seen = b.seen
            /\ [b EXCEPT !.at = "store", !.content = c].at = "store"
            /\ [b EXCEPT !.at = "store", !.content = c].up = b.up
            /\ [b EXCEPT !.at = "store", !.content = c].seen = b.seen
      BY DEF Worker
    <3>2. CASE Look(w)
      <4>1. /\ busy' = [busy EXCEPT ![w] = [busy[w] EXCEPT !.at = "judge",
                                       !.content = tile[busy[w].up]]]
            /\ busy[w].at = "look" /\ UNCHANGED rows
        BY <3>2 DEF Look
      <4> QED
        BY <1>1, <3>1, <4>1
    <3>3. CASE Accepts(w)
      <4>1. /\ busy' = [busy EXCEPT ![w] = [busy[w] EXCEPT !.at = "store",
                                       !.content = original[busy[w].up]]]
            /\ busy[w].at = "read" /\ UNCHANGED rows
        BY <3>3 DEF Accepts, Read
      <4> QED
        BY <1>1, <3>1, <4>1
    <3> QED
      BY <2>3, <3>2, <3>3
  <2> QED
    BY <2>1, <2>2, <2>3
<1>3. \A v \in Uploads : rows'[v] = rows[v] \/ rows'[v] = [rows[v] EXCEPT !.state = "expired"]
  BY <1>1 DEF RunOnce, Expire, Look, Crash, Accepts, Read
<1>4. \A x \in Workers : busy'[x].up \in {busy[x].up, None}
  BY <1>2 DEF Free
<1>5. /\ \A v \in Uploads : RowWaits(v)'
      /\ \A x \in Workers : x # w => Holds(x)'
      /\ \A r \in Requests : Retries(r)'
  <2>1. \A v \in Uploads : /\ rows'[v].moderation = rows[v].moderation
                           /\ rows'[v].processed = rows[v].processed
                           /\ rows'[v].gone = rows[v].gone
                           /\ rows'[v].state \in {rows[v].state, "expired"}
                           /\ rows'[v].next = rows[v].next
                           /\ rows'[v].lease = rows[v].lease
    <3>1. \A row \in Row : LET new == [row EXCEPT !.state = "expired"]
                           IN  /\ new.moderation = row.moderation
                               /\ new.processed = row.processed
                               /\ new.gone = row.gone /\ new.state = "expired"
                               /\ new.next = row.next /\ new.lease = row.lease
      BY DEF Row
    <3> SUFFICES ASSUME NEW v \in Uploads
                 PROVE  /\ rows'[v].moderation = rows[v].moderation
                        /\ rows'[v].processed = rows[v].processed
                        /\ rows'[v].gone = rows[v].gone
                        /\ rows'[v].state \in {rows[v].state, "expired"}
                        /\ rows'[v].next = rows[v].next
                        /\ rows'[v].lease = rows[v].lease
      OBVIOUS
    <3>2. rows[v] \in Row
      BY <1>1
    <3>3. CASE rows'[v] = [rows[v] EXCEPT !.state = "expired"]
      BY <3>1, <3>2, <3>3
    <3> QED
      BY <1>3, <3>3
  <2> QED
    BY <1>1, <1>2, <1>4, <2>1, ClaimsStay
<1>6. Holds(w)'
  <2>1. CASE busy'[w].at \in {"expire", "claim"} /\ busy[w].at \notin Claimed
    BY <1>1, <1>2, <2>1 DEF Holds, Claimed, Free
  <2>2. CASE busy'[w] = Free
    BY <2>2 DEF Holds, Free, Claimed
  <2>3. CASE /\ busy'[w].up = busy[w].up /\ busy'[w].seen = busy[w].seen
             /\ UNCHANGED rows
             /\ \/ busy[w].at = "look" /\ busy'[w].at = "judge"
                \/ busy[w].at = "read" /\ busy'[w].at = "store"
    BY <1>1, <1>2, <2>3 DEF Holds, Claimed
  <2> QED
    BY <1>2, <2>1, <2>2, <2>3
<1> QED
  BY <1>5, <1>6 DEF ClaimInv

\* What can be claimed is held by nobody, but for an overrun lease.
LEMMA ClaimableIsFree ==
    ASSUME IInv, ClaimInv, NEW u \in Uploads, Claimable(rows[u]), u \notin overran
    PROVE  Unheld(u)
<1> SUFFICES ASSUME NEW w \in Workers, busy[w].up = u PROVE FALSE
  BY DEF Unheld
<1>1. Holds(w) /\ busy[w].at \in Claimed
  BY UploadsAssumption DEF ClaimInv, Holds
<1>2. CASE busy[w].at = "resume"
  BY <1>1, <1>2 DEF Holds, Claimable
<1>3. CASE busy[w].at # "resume"
  BY <1>1, <1>3 DEF Holds, Claimable
<1> QED
  BY <1>2, <1>3

LEMMA ClaimHolds == ASSUME IInv, ClaimInv, NEW w \in Workers, Claim(w) PROVE ClaimInv'
<1>1. /\ rows \in [Uploads -> Row] /\ busy \in [Workers -> Worker] /\ Holds(w)
      /\ UNCHANGED <<req, overran>> /\ busy[w].up = None
  BY DEF IInv, TypeOK, ClaimInv, Claim, marks, Holds, Claimed
<1>2. CASE Stops(w) /\ UNCHANGED rows
  <2>1. \A x \in Workers : busy'[x] = IF x = w THEN Free ELSE busy[x]
    BY <1>1, <1>2 DEF Stops
  <2>2. /\ \A v \in Uploads : RowWaits(v)'
        /\ \A x \in Workers : x # w => Holds(x)'
        /\ \A r \in Requests : Retries(r)'
    BY <1>1, <1>2, <2>1, ClaimsStay DEF Free
  <2>3. Holds(w)'
    BY <2>1 DEF Holds, Free, Claimed
  <2> QED
    BY <2>2, <2>3 DEF ClaimInv
<1>3. ASSUME NEW u \in Uploads, Claimable(rows[u]),
             LET row == [rows[u] EXCEPT !.state = "processing",
                                        !.lease = "running", !.next = "none"]
             IN  /\ rows' = [rows EXCEPT ![u] = row]
                 /\ busy' = [busy EXCEPT ![w].up = u, ![w].seen = row,
                       ![w].at = IF row.processed THEN "look" ELSE "start"]
      PROVE  ClaimInv'
  <2> DEFINE row == [rows[u] EXCEPT !.state = "processing",
                                    !.lease = "running", !.next = "none"]
  <2>1. /\ row.state = "processing" /\ row.lease = "running" /\ row.next = "none"
        /\ row.processed = rows[u].processed /\ row.gone = rows[u].gone
        /\ row.moderation = rows[u].moderation
    BY <1>1 DEF Row
  <2>2. /\ \A v \in Uploads : rows'[v] = IF v = u THEN row ELSE rows[v]
        /\ \A x \in Workers : x # w => busy'[x] = busy[x]
        /\ busy'[w].up = u /\ busy'[w].seen = row
        /\ busy'[w].at = IF row.processed THEN "look" ELSE "start"
    BY <1>1, <1>3 DEF Worker
  <2>3. ~rows[u].gone /\ u # None /\ (u \notin overran => Unheld(u))
    BY <1>3, ClaimableIsFree, UploadsAssumption DEF Claimable
  <2> HIDE DEF row
  <2>4. ASSUME NEW v \in Uploads PROVE RowWaits(v)'
    BY <1>1, <2>1, <2>2 DEF ClaimInv, RowWaits
  <2>5. Holds(w)'
    BY <1>1, <2>1, <2>2, <2>3 DEF Holds, Claimed, Unheld
  <2>6. ASSUME NEW x \in Workers, x # w PROVE Holds(x)'
    <3>1. Holds(x) /\ WorkerKnows(x)
      BY DEF ClaimInv, IInv
    <3>2. CASE busy[x].at \notin Claimed
      BY <2>2, <2>6, <3>1, <3>2 DEF Holds
    <3>3. CASE busy[x].at \in Claimed /\ busy[x].up = u
      <4>1. u \in overran
        BY <2>3, <3>3 DEF Unheld
      <4> QED
        BY <1>1, <2>1, <2>2, <2>6, <3>1, <3>3, <4>1 DEF Holds
    <3>4. CASE busy[x].at \in Claimed /\ busy[x].up # u
      <4>1. busy[x].up \in Uploads
        BY <3>1, <3>4 DEF WorkerKnows
      <4> QED
        BY <1>1, <2>2, <2>6, <3>1, <3>4, <4>1 DEF Holds
    <3> QED
      BY <3>2, <3>3, <3>4
  <2>7. ASSUME NEW r \in Requests PROVE Retries(r)'
    <3>1. Retries(r)
      BY DEF ClaimInv
    <3> SUFFICES ASSUME req[r].at = "retry" PROVE Retries(r)'
      BY <1>1 DEF Retries
    <3> DEFINE v == req[r].up
    <3>2. v \in Uploads
      BY DEF IInv, RequestKnows
    <3>3. CASE v = u
      BY <1>1, <1>3, <2>1, <2>2, <3>1, <3>3 DEF Retries, Claimable
    <3>4. CASE v # u
      <4>1. rows'[v] = rows[v] /\ (Unheld(v) => \A x \in Workers : busy'[x].up # v)
        BY <2>2, <3>2, <3>4 DEF Unheld
      <4> QED
        BY <1>1, <3>1, <4>1 DEF Retries, Unheld
    <3> QED
      BY <3>3, <3>4
  <2> QED
    BY <2>4, <2>5, <2>6, <2>7 DEF ClaimInv
<1> QED
  BY <1>2, <1>3 DEF Claim

LEMMA StepHolds == ASSUME OneAtATime, IInv, ClaimInv, [Next]_vars PROVE ClaimInv'
<1>1. CASE \E r \in Requests : Owner(r)
  BY <1>1, OwnerHolds
<1>2. CASE \E w \in Workers : Work(w) \/ Crash(w)
  <2> PICK w \in Workers : Work(w) \/ Crash(w)
    BY <1>2
  <2>1. CASE \/ RunOnce(w) \/ Expire(w) \/ Look(w) \/ Crash(w)
             \/ Accepts(w)
    BY <2>1, MovesHold
  <2>2. CASE Claim(w)
    BY <2>2, ClaimHolds
  <2>3. CASE \/ Start(w) \/ StorageFails(w) \/ Refuses(w)
             \/ Store(w) \/ Resume(w)
             \/ \E verdict \in Verdicts : Judge(w, verdict)
    BY <2>3, WorkHolds
  <2> QED
    BY <2>1, <2>2, <2>3 DEF Work, Accepts, Refuses
<1>3. CASE \E u \in Uploads :
             \/ Create(u) \/ IntentLapses(u)
             \/ Refer(u) \/ Reserve(u) \/ Release(u)
             \/ LeaseLapses(u) \/ BackoffPasses(u)
             \/ \E c \in Contents : Transfer(u, c)
  BY <1>3, OutsideHolds
<1>4. CASE UNCHANGED vars
  <2>1. UNCHANGED <<rows, busy, req, overran>>
    BY <1>4 DEF vars, marks
  <2> QED
    BY <2>1, ClaimsStay DEF ClaimInv
<1> QED
  BY <1>1, <1>2, <1>3, <1>4 DEF Next

-----------------------------------------------------------------------------
(* The theorems.                                                           *)

LEMMA InitGood == Init => IInv
<1> SUFFICES ASSUME Init PROVE IInv
  OBVIOUS
<1>1. NoRow \in Row /\ NoRow.checksum = None /\ NoRow.state = "absent"
  BY RowTypes DEF NoRow
<1>2. TypeOK
  BY <1>1, RowTypes, UploadsAssumption DEF Init, TypeOK, Content
<1>3. \A u \in Uploads : RowAgrees(u)
  BY <1>1 DEF Init, RowAgrees
<1>4. \A r \in Requests : RequestKnows(r)
  BY DEF Init, RequestKnows, Idle
<1>5. \A w \in Workers : WorkerKnows(w)
  BY DEF Init, WorkerKnows, Free, Claimed
<1> QED
  BY <1>2, <1>3, <1>4, <1>5 DEF IInv

LEMMA StepKeeps == ASSUME OneAtATime, IInv, [Next]_vars PROVE IInv'
<1>1. CASE \E r \in Requests : Owner(r)
  <2> PICK r \in Requests : Owner(r)
    BY <1>1
  <2> QED
    BY BeginKeeps, ConfirmKeeps, RetryKeeps, DeleteKeeps, EraseDeletedKeeps DEF Owner
<1>2. CASE \E w \in Workers : Work(w) \/ Crash(w)
  <2> PICK w \in Workers : Work(w) \/ Crash(w)
    BY <1>2
  <2>1. CASE StorageFails(w)
    <3>1. busy[w].at \in Claimed /\ Fail(w, TRUE)
      BY <2>1 DEF StorageFails, Claimed
    <3> QED
      BY <3>1, FailKeeps
  <2> QED
    BY <2>1, RunOnceKeeps, ExpireKeeps, ClaimKeeps, StartKeeps, ReadKeeps, StoreKeeps,
       ResumeKeeps, LookKeeps, JudgeKeeps, CrashKeeps DEF Work
<1>3. CASE \E u \in Uploads :
             \/ Create(u) \/ IntentLapses(u)
             \/ Refer(u) \/ Reserve(u) \/ Release(u)
             \/ LeaseLapses(u) \/ BackoffPasses(u)
             \/ \E c \in Contents : Transfer(u, c)
  BY <1>3, CreateKeeps, OutsideKeeps, TimeKeeps
<1>4. CASE UNCHANGED vars
  <2>1. UNCHANGED <<rows, tile, stored, original, open, kept, busy, req, overran,
                    passed, crashes>>
    BY <1>4 DEF vars, objects, marks
  <2> QED
    BY <2>1, RowsStay DEF IInv, TypeOK
<1> QED
  BY <1>1, <1>2, <1>3, <1>4 DEF Next

\* The types, the agreement of rows and images, and what requests and workers
\* know hold through every order of transactions, lapses and deaths.
THEOREM Invariance == OneAtATime => (Spec => []IInv)
<1>1. OneAtATime /\ IInv /\ [Next]_vars => IInv'
  BY StepKeeps
<1> SUFFICES ASSUME OneAtATime PROVE Spec => []IInv
  OBVIOUS
<1>2. IInv /\ [Next]_vars => IInv'
  BY <1>1
<1> QED
  BY <1>2, InitGood, PTL DEF Spec

\* Every variable keeps its type, and the attempts stay within what the table
\* allows, for any number of uploads, workers, attempts and mishaps.
THEOREM TypeCorrect == OneAtATime => (Spec => []TypeOK)
<1> SUFFICES ASSUME OneAtATime PROVE Spec => []TypeOK
  OBVIOUS
<1>1. Spec => []IInv
  BY Invariance
<1>2. IInv => TypeOK
  BY DEF IInv
<1> QED
  BY <1>1, <1>2, PTL

\* The images of an approved upload come from the file that was confirmed, and
\* were approved: for any number of workers, however often they overtake each
\* other or die.
THEOREM ImagesWereJudged == OneAtATime => (Spec => []ApprovedImageWasJudged)
<1> SUFFICES ASSUME OneAtATime PROVE Spec => []ApprovedImageWasJudged
  OBVIOUS
<1>1. Spec => []IInv
  BY Invariance
<1>2. IInv => ApprovedImageWasJudged
  BY DEF IInv, RowAgrees, ApprovedImageWasJudged
<1> QED
  BY <1>1, <1>2, PTL

\* A claim is exclusive: two workers are at one upload only after a lease ran out
\* under one of them, although the lease is given back before the verdict is
\* stored, and although retries, deletions and expiries write into the row.
THEOREM ClaimsAreExclusive == OneAtATime => (Spec => []OneWorkerPerLease)
<1> SUFFICES ASSUME OneAtATime PROVE Spec => []OneWorkerPerLease
  OBVIOUS
<1>1. Spec => []IInv
  BY Invariance
<1>2. Init => ClaimInv
  BY DEF Init, ClaimInv, RowWaits, Holds, Retries, NoRow, Free, Idle, Claimed
<1>3. IInv /\ ClaimInv /\ [Next]_vars => ClaimInv'
  BY StepHolds
<1>4. ClaimInv => OneWorkerPerLease
  BY DEF ClaimInv, Holds, OneWorkerPerLease
<1> QED
  BY <1>1, <1>2, <1>3, <1>4, PTL DEF Spec
=============================================================================
