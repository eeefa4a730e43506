---------------------------- MODULE ClientProofs ----------------------------
(***************************************************************************)
(* What TLAPS proves of a call and of the catalogue, whatever the server   *)
(* answers, for any filters and any number of loads.  Only the last part   *)
(* looks into the tables of the calls and of the records.                  *)
(***************************************************************************)
EXTENDS Client, Integers, Sequences, TLAPS

-----------------------------------------------------------------------------
(* A writing call runs once. *)

\* A writing call that began has one request, wherever that is: a second
\* attempt would have to pass through a pause, which only reading calls reach.
Writing == Requests!Calls[call].write
OneRequest ==
    /\ served \in Nat /\ stray \in Nat
    /\ phase = "idle" => served = 0 /\ stray = 0 /\ ~onWay
    /\ Writing => /\ phase # "pausing"
                  /\ onWay => served = 0 /\ stray = 0
                  /\ served + stray <= 1

LEMMA SameCall == ASSUME UNCHANGED call PROVE Writing' <=> Writing
BY DEF Writing

LEMMA PausesOnlyReading ==
    ASSUME NEW kind, NEW a, Requests!Fail(kind, a)
    PROVE  \/ phase' = "ended"
           \/ phase' = "pausing" /\ ~Writing
BY DEF Requests!Fail, Requests!Pause, Requests!End, Requests!ShouldRetry, Writing

\* An attempt that leaves the connection keeps the number of requests.
LEMMA AbandonKeeps ==
    ASSUME OneRequest, Requests!Abandon, UNCHANGED <<call, served>>,
           \/ phase' = "ended"
           \/ phase' = "pausing" /\ ~Writing
    PROVE  OneRequest'
BY SameCall DEF OneRequest, Requests!Abandon

LEMMA OneRequestInvariant ==
    ASSUME OneRequest, Requests!Next \/ UNCHANGED Requests!vars
    PROVE  OneRequest'
<1>1. CASE Requests!Begin
  BY <1>1, SameCall DEF Requests!Begin, Requests!Attempt, OneRequest
<1>2. CASE Requests!Serve
  BY <1>2, SameCall DEF Requests!Serve, OneRequest
<1>3. CASE Requests!ServeStray
  BY <1>3, SameCall DEF Requests!ServeStray, OneRequest
<1>4. CASE Requests!ReadAnswer
  <2>1. UNCHANGED <<call, onWay, stray, served>>
    BY <1>4 DEF Requests!ReadAnswer
  <2>2. \/ phase' = "ended"
        \/ phase' = "pausing" /\ ~Writing
    BY <1>4, PausesOnlyReading DEF Requests!ReadAnswer, Requests!End
  <2> QED
    BY <2>1, <2>2, SameCall DEF OneRequest
<1>5. CASE Requests!ConnectionLost
  BY <1>5, PausesOnlyReading, AbandonKeeps DEF Requests!ConnectionLost
<1>6. CASE Requests!TimeLimit
  BY <1>6, PausesOnlyReading, AbandonKeeps DEF Requests!TimeLimit
<1>7. CASE Requests!Cancel
  BY <1>7, AbandonKeeps DEF Requests!Cancel, Requests!End
<1>8. CASE Requests!RetryDelay
  BY <1>8, SameCall DEF Requests!RetryDelay, Requests!Attempt, OneRequest
<1>9. CASE Requests!ColdStart
  BY <1>9, SameCall DEF Requests!ColdStart, OneRequest
<1>10. CASE UNCHANGED Requests!vars
  BY <1>10, SameCall DEF Requests!vars, OneRequest
<1> QED
  BY <1>1, <1>2, <1>3, <1>4, <1>5, <1>6, <1>7, <1>8, <1>9, <1>10 DEF Requests!Next

\* The server runs a writing call at most once, whatever becomes of its
\* requests and answers (api-client.ts 391, account-api.ts 504).
THEOREM WritesOnce == Spec => []WritesRunOnce
<1> DEFINE I == part = "requests" => OneRequest
<1>1. Init => I
  BY DEF Init, Requests!Init, OneRequest
<1>2. I => WritesRunOnce
  BY DEF OneRequest, Writing, WritesRunOnce, Requests!WritesRunOnce
<1>3. I /\ [Next]_vars => I'
  <2>1. I /\ UNCHANGED vars => I'
    BY OneRequestInvariant DEF vars, Requests!vars, request
  <2>2. I /\ Next => I'
    BY OneRequestInvariant DEF Next
  <2> QED
    BY <2>1, <2>2
<1> QED
  BY <1>1, <1>2, <1>3, PTL DEF Spec

-----------------------------------------------------------------------------
(* What a call announces is in order. *)

Told == {"connecting", "cold-start", "retrying", "success", "failure"}
MayFollow(now, next) ==
    \/ Requests!StatusRank[now] < Requests!StatusRank[next]
    \/ now = "retrying" /\ next = "retrying"

LEMMA Ranks ==
    /\ Requests!StatusRank["connecting"] = 1 /\ Requests!StatusRank["cold-start"] = 2
    /\ Requests!StatusRank["retrying"] = 3
    /\ Requests!StatusRank["success"] = 4 /\ Requests!StatusRank["failure"] = 4
BY DEF Requests!StatusRank

LEMMA GoesOn ==
    /\ MayFollow("connecting", "cold-start")
    /\ \A now \in {"connecting", "cold-start", "retrying"},
          next \in {"retrying", "success", "failure"} : MayFollow(now, next)
BY Ranks DEF MayFollow

\* While a call is out its listener was told of no end, and the wake-up timer
\* runs only as long as "connecting" was told and nothing since.
Announced ==
    /\ shown \in Seq(Told)
    /\ Requests!StatusesInOrder
    /\ phase = "idle" => shown = <<>> /\ ~coldTimer
    /\ coldTimer => Requests!Public /\ phase = "out" /\ shown = <<"connecting">>
    /\ phase \in {"out", "pausing"} /\ shown # <<>> =>
         shown[Len(shown)] \in {"connecting", "cold-start", "retrying"}

LEMMA TellKeeps ==
    ASSUME NEW status \in Told, Requests!Tell(status),
           shown \in Seq(Told), Requests!StatusesInOrder,
           shown # <<>> => MayFollow(shown[Len(shown)], status)
    PROVE  shown' \in Seq(Told) /\ Requests!StatusesInOrder'
<1>1. CASE ~Requests!Public
  BY <1>1 DEF Requests!Tell, Requests!StatusesInOrder
<1>2. CASE Requests!Public
  <2>1. shown' = Append(shown, status) /\ Len(shown') = Len(shown) + 1
        /\ shown' \in Seq(Told)
    BY <1>2 DEF Requests!Tell
  <2>2. \A i \in 1 .. Len(shown) - 1 : MayFollow(shown[i], shown[i + 1])
    BY DEF Requests!StatusesInOrder, MayFollow
  <2>3. ASSUME NEW i \in 1 .. Len(shown') - 1
        PROVE  MayFollow(shown'[i], shown'[i + 1])
    <3>1. CASE i = Len(shown)
      <4>1. shown # <<>> /\ shown'[i] = shown[Len(shown)] /\ shown'[i + 1] = status
        BY <3>1, <2>1
      <4> QED
        BY <4>1
    <3>2. CASE i # Len(shown)
      <4>1. /\ i \in 1 .. Len(shown) - 1
            /\ shown'[i] = shown[i] /\ shown'[i + 1] = shown[i + 1]
        BY <3>2, <2>1
      <4> QED
        BY <4>1, <2>2
    <3> QED
      BY <3>1, <3>2
  <2> QED
    BY <2>1, <2>3 DEF Requests!StatusesInOrder, MayFollow
<1> QED
  BY <1>1, <1>2

\* An attempt ends in the end of the call or in a pause.
LEMMA EndsInOrder ==
    ASSUME Announced, phase = "out", UNCHANGED call,
           NEW status \in {"retrying", "success", "failure"}, Requests!Tell(status),
           coldTimer' = FALSE,
           \/ phase' = "ended"
           \/ phase' = "pausing" /\ status = "retrying"
    PROVE  Announced'
<1>1. shown # <<>> => MayFollow(shown[Len(shown)], status)
  BY GoesOn DEF Announced
<1>2. shown' \in Seq(Told) /\ Requests!StatusesInOrder'
  BY <1>1, TellKeeps DEF Announced, Told
<1>3. status = "retrying" /\ shown' # <<>> => shown'[Len(shown')] \in
                        {"connecting", "cold-start", "retrying"}
  BY DEF Requests!Tell, Announced
<1> QED
  BY <1>2, <1>3 DEF Announced

LEMMA FailTells ==
    ASSUME NEW kind, NEW a, Requests!Fail(kind, a)
    PROVE  \E status \in {"retrying", "success", "failure"} :
              /\ Requests!Tell(status) /\ coldTimer' = FALSE
              /\ \/ phase' = "ended"
                 \/ phase' = "pausing" /\ status = "retrying"
BY DEF Requests!Fail, Requests!Pause, Requests!End

LEMMA AnnouncedInvariant ==
    ASSUME Announced, Requests!Next \/ UNCHANGED Requests!vars
    PROVE  Announced'
<1>1. CASE Requests!Begin
  <2>1. shown = <<>> /\ UNCHANGED call
    BY <1>1 DEF Requests!Begin, Announced
  <2>2. CASE /\ Requests!Attempt /\ coldTimer' = Requests!Public
             /\ Requests!Tell("connecting")
    <3>1. shown' = IF Requests!Public THEN <<"connecting">> ELSE <<>>
      BY <2>1, <2>2 DEF Requests!Tell
    <3>2. shown' \in Seq(Told) /\ Requests!StatusesInOrder'
      BY <2>1, <2>2, TellKeeps DEF Announced, Told
    <3>3. /\ phase' = "out"
          /\ coldTimer' => Requests!Public
          /\ Requests!Public' <=> Requests!Public
      BY <2>1, <2>2 DEF Requests!Attempt, Requests!Public
    <3> QED
      BY <3>1, <3>2, <3>3 DEF Announced
  <2>3. CASE /\ phase' = "ended" /\ coldTimer' = FALSE
             /\ shown' = IF Requests!Public THEN <<"connecting", "failure">> ELSE <<>>
    <3>1. Requests!StatusesInOrder'
      BY <2>3, Ranks DEF Requests!StatusesInOrder
    <3>2. shown' \in Seq(Told)
      <4>1. "connecting" \in Told /\ "failure" \in Told
        BY DEF Told
      <4>2. <<"connecting", "failure">> \in Seq(Told) /\ <<>> \in Seq(Told)
        BY <4>1
      <4> QED
        BY <2>3, <4>2
    <3> QED
      BY <2>3, <3>1, <3>2 DEF Announced
  <2> QED
    BY <1>1, <2>2, <2>3 DEF Requests!Begin
<1>2. CASE Requests!Serve \/ Requests!ServeStray \/ UNCHANGED Requests!vars
  BY <1>2 DEF Requests!Serve, Requests!ServeStray, Requests!vars, Announced,
              Requests!StatusesInOrder, Requests!Public
<1>3. CASE Requests!ReadAnswer
  <2>1. phase = "out" /\ UNCHANGED call
    BY <1>3 DEF Requests!ReadAnswer
  <2>2. \E status \in {"retrying", "success", "failure"} :
              /\ Requests!Tell(status) /\ coldTimer' = FALSE
              /\ \/ phase' = "ended"
                 \/ phase' = "pausing" /\ status = "retrying"
    BY <1>3, FailTells DEF Requests!ReadAnswer, Requests!End
  <2> QED
    BY <2>1, <2>2, EndsInOrder
<1>4. CASE Requests!ConnectionLost \/ Requests!TimeLimit
  BY <1>4, FailTells, EndsInOrder DEF Requests!ConnectionLost, Requests!TimeLimit
<1>5. CASE Requests!Cancel
  BY <1>5, EndsInOrder DEF Requests!Cancel, Requests!End
<1>6. CASE Requests!RetryDelay
  BY <1>6 DEF Requests!RetryDelay, Requests!Attempt, Announced, Requests!StatusesInOrder,
              Requests!Public
<1>7. CASE Requests!ColdStart
  <2>1. /\ Requests!Public /\ phase = "out" /\ shown = <<"connecting">>
        /\ coldTimer' = FALSE /\ UNCHANGED <<call, phase>> /\ Requests!Tell("cold-start")
    BY <1>7 DEF Requests!ColdStart, Announced
  <2>2. shown' \in Seq(Told) /\ Requests!StatusesInOrder'
    BY <2>1, GoesOn, TellKeeps DEF Announced, Told
  <2>3. shown'[Len(shown')] = "cold-start"
    BY <2>1 DEF Requests!Tell
  <2> QED
    BY <2>1, <2>2, <2>3 DEF Announced
<1> QED
  BY <1>1, <1>2, <1>3, <1>4, <1>5, <1>6, <1>7 DEF Requests!Next

\* A listener of the public client is told of a call in order, and of no waking
\* server after a retry or the end (api-client.ts 416-489).
THEOREM ToldInOrder == Spec => []StatusesInOrder
<1> DEFINE I == part = "requests" => Announced
<1>1. Init => I
  BY DEF Init, Requests!Init, Announced, Requests!StatusesInOrder
<1>2. I => StatusesInOrder
  BY DEF Announced, StatusesInOrder
<1>3. I /\ [Next]_vars => I'
  <2>1. I /\ UNCHANGED vars => I'
    BY AnnouncedInvariant DEF vars, Requests!vars, request
  <2>2. I /\ Next => I'
    BY AnnouncedInvariant DEF Next
  <2> QED
    BY <2>1, <2>2
<1> QED
  BY <1>1, <1>2, <1>3, PTL DEF Spec

-----------------------------------------------------------------------------
(* What the catalogue shows. *)

Chosen == Filters \cup {AllPatterns, None}
\* What a step reads and writes of the page.
CatalogueRow == [mounted : BOOLEAN, phase : Catalogue!Phases, complete : BOOLEAN,
            filters : Chosen, asked : Chosen, shown : Chosen, loads : Nat]
Listed == page \in CatalogueRow /\ Catalogue!ShownByItsFilters

\* A load shows nothing.
LEMMA LoadShowsNothing ==
    ASSUME NEW p \in CatalogueRow, NEW filters \in Chosen
    PROVE  /\ Catalogue!Load(p, filters) \in CatalogueRow
           /\ Catalogue!Load(p, filters).phase = "loading"
<1>1. p.loads \in Nat
  BY DEF CatalogueRow
<1>2. p.loads + 1 \in Nat /\ None \in Chosen /\ "loading" \in Catalogue!Phases
  BY <1>1 DEF Chosen, Catalogue!Phases
<1> DEFINE next == p.loads + 1
<1>3. next \in Nat
  BY <1>2
<1> HIDE DEF next
<1>4. [p EXCEPT !.phase = "loading", !.filters = filters, !.asked = filters,
                !.shown = None, !.loads = next] \in CatalogueRow
  BY <1>2, <1>3 DEF CatalogueRow
<1>5. Catalogue!Load(p, filters).phase = "loading"
  BY DEF Catalogue!Load, CatalogueRow
<1> QED
  BY <1>4, <1>5 DEF Catalogue!Load, next

\* A load that resolves shows the patterns of the filters it was asked for, and
\* chooses them.
LEMMA ResolvedKeeps == ASSUME Listed, Catalogue!Resolved PROVE Listed'
<1>1. CASE page' = [page EXCEPT !.phase = "ready", !.filters = page.asked,
                                !.shown = page.asked, !.asked = None,
                                !.complete = @ \/ page.asked = AllPatterns]
  <2>1. (page.complete \/ page.asked = AllPatterns) \in BOOLEAN
    OBVIOUS
  <2> QED
    BY <1>1, <2>1 DEF Listed, CatalogueRow, Catalogue!ShownByItsFilters,
                      Catalogue!Phases, Chosen
<1>2. CASE page' = [page EXCEPT !.phase = "empty", !.asked = None, !.shown = None,
                                !.complete = @ /\ page.asked # AllPatterns]
  <2>1. (page.complete /\ page.asked # AllPatterns) \in BOOLEAN
    OBVIOUS
  <2> QED
    BY <1>2, <2>1 DEF Listed, CatalogueRow, Catalogue!ShownByItsFilters,
                      Catalogue!Phases, Chosen
<1>3. CASE page' = Catalogue!Failed(page)
  BY <1>3 DEF Catalogue!Failed, Listed, CatalogueRow, Catalogue!ShownByItsFilters,
              Catalogue!Phases, Chosen
<1> QED
  BY <1>1, <1>2, <1>3 DEF Catalogue!Resolved

LEMMA ListedInvariant ==
    ASSUME Listed, Catalogue!Next \/ UNCHANGED Catalogue!vars
    PROVE  Listed'
<1>1. CASE Catalogue!StartWarmup \/ Catalogue!WarmupMoves \/ UNCHANGED Catalogue!vars
  BY <1>1 DEF Catalogue!StartWarmup, Catalogue!WarmupMoves, Catalogue!vars, Listed,
              Catalogue!ShownByItsFilters
<1>2. CASE Catalogue!Mount
  <2>1. [Catalogue!Unmounted EXCEPT !.mounted = TRUE] \in CatalogueRow /\ AllPatterns \in Chosen
    BY DEF Catalogue!Unmounted, CatalogueRow, Catalogue!Phases, Chosen
  <2> QED
    BY <1>2, <2>1, LoadShowsNothing DEF Catalogue!Mount, Listed,
                                        Catalogue!ShownByItsFilters
<1>3. CASE Catalogue!Unmount
  BY <1>3 DEF Catalogue!Unmount, Catalogue!Unmounted, Listed, CatalogueRow,
              Catalogue!ShownByItsFilters, Catalogue!Phases, Chosen
<1>4. CASE Catalogue!Retry
  <2>1. page \in CatalogueRow /\ page.filters \in Chosen
    BY DEF Listed, CatalogueRow
  <2> QED
    BY <1>4, <2>1, LoadShowsNothing DEF Catalogue!Retry, Listed,
                                        Catalogue!ShownByItsFilters
<1>8. CASE Catalogue!SetFilters
  BY <1>8 DEF Catalogue!SetFilters, Listed, CatalogueRow, Catalogue!ShownByItsFilters,
              Catalogue!Phases, Chosen
<1>5. CASE Catalogue!StatusTold
  BY <1>5 DEF Catalogue!StatusTold, Listed, CatalogueRow, Catalogue!ShownByItsFilters,
              Catalogue!Phases, Chosen
<1>6. CASE Catalogue!WarmupEnds
  BY <1>6, ResolvedKeeps DEF Catalogue!WarmupEnds, Listed, Catalogue!ShownByItsFilters
<1>7. CASE Catalogue!RequestEnds
  BY <1>7, ResolvedKeeps DEF Catalogue!RequestEnds
<1> QED
  BY <1>1, <1>2, <1>3, <1>4, <1>5, <1>6, <1>7, <1>8 DEF Catalogue!Next

\* The patterns that are shown are those of the filters that are shown, however
\* loads, filters and the warm-up interleave (pattern-catalogue.ts 189-239).
THEOREM FiltersMatch == Spec => []ShownByItsFilters
<1> DEFINE I == part = "catalogue" => Listed
<1>0. Catalogue!Init => Listed
  BY DEF Catalogue!Init, Catalogue!Unmounted, Listed, CatalogueRow,
         Catalogue!ShownByItsFilters, Catalogue!Phases, Chosen
<1>1. Init => I
  BY <1>0 DEF Init
<1>2. I => ShownByItsFilters
  BY DEF Listed, ShownByItsFilters
<1>3. I /\ [Next]_vars => I'
  <2>1. I /\ UNCHANGED vars => I'
    BY ListedInvariant DEF vars, Catalogue!vars, visit
  <2>2. I /\ Next => I'
    BY ListedInvariant DEF Next
  <2> QED
    BY <2>1, <2>2
<1> QED
  BY <1>1, <1>2, <1>3, PTL DEF Spec

-----------------------------------------------------------------------------
(* Answers are read: the records of the contract, the calls they answer, and *)
(* what a call makes of them.                                                *)

\* The fields of a table's records: none is both strict and only shown, the parts
\* are of the table, and what the server may leave null may be null.
Readable(table) ==
    \A r \in DOMAIN table :
        /\ table[r].strict \cap table[r].shown = {}
        /\ table[r].parts \subseteq DOMAIN table
        /\ \A pair \in Requests!ServerNulls : pair[1] = r => pair[2] \in table[r].null

LEMMA MergedReadable ==
    ASSUME NEW f, NEW g, Readable(f), Readable(g)
    PROVE  Readable(Requests!Merged(f, g))
BY DEF Readable, Requests!Merged

LEMMA TablesReadable ==
    /\ Readable(Requests!AccountRecords) /\ Readable(Requests!UploadRecords)
    /\ Readable(Requests!CommerceRecords) /\ Readable(Requests!CheckoutRecords)
    /\ Readable(Requests!AssuranceRecords) /\ Readable(Requests!PublicRecords)
    /\ Readable(Requests!DesignRecords)
<1> USE DEF Readable, Requests!Fields, Requests!Plain, Requests!ServerNulls
<1>1. Readable(Requests!AccountRecords)
  BY DEF Requests!AccountRecords
<1>2. Readable(Requests!UploadRecords)
  BY DEF Requests!UploadRecords
<1>3. Readable(Requests!CommerceRecords)
  BY DEF Requests!CommerceRecords
<1>4. Readable(Requests!CheckoutRecords)
  BY DEF Requests!CheckoutRecords
<1>5. Readable(Requests!AssuranceRecords)
  BY DEF Requests!AssuranceRecords
<1>6. Readable(Requests!PublicRecords)
  BY DEF Requests!PublicRecords
<1>7. Readable(Requests!DesignRecords)
  BY DEF Requests!DesignRecords, Requests!Cover
<1> QED
  BY <1>1, <1>2, <1>3, <1>4, <1>5, <1>6, <1>7

LEMMA RecordsReadable == Readable(Requests!Records)
BY TablesReadable, MergedReadable DEF Requests!Records

\* The calls of a table are answered by records of the contract, or their answer
\* is not read.
Answered(table) ==
    \A c \in DOMAIN table :
        table[c].record \in DOMAIN Requests!Records \union {Requests!Nothing}

LEMMA MergedAnswered ==
    ASSUME NEW f, NEW g, Answered(f), Answered(g)
    PROVE  Answered(Requests!Merged(f, g))
BY DEF Answered, Requests!Merged

LEMMA MergedNames ==
    ASSUME NEW f, NEW g, NEW names, NEW others,
           DOMAIN f = names, DOMAIN g = others
    PROVE  DOMAIN Requests!Merged(f, g) = names \union others
BY DEF Requests!Merged

LEMMA RecordsOfGroups ==
    DOMAIN Requests!Records =
        DOMAIN Requests!AccountRecords \union DOMAIN Requests!UploadRecords
        \union DOMAIN Requests!CommerceRecords \union DOMAIN Requests!CheckoutRecords
        \union DOMAIN Requests!AssuranceRecords \union DOMAIN Requests!PublicRecords
        \union DOMAIN Requests!DesignRecords
<1> DEFINE Wares   == Requests!Merged(Requests!AccountRecords, Requests!UploadRecords)
           Sales   == Requests!Merged(Requests!CommerceRecords, Requests!CheckoutRecords)
           Designs == Requests!Merged(Requests!PublicRecords, Requests!DesignRecords)
           Rest    == Requests!Merged(Requests!AssuranceRecords, Designs)
           Shop    == Requests!Merged(Wares, Sales)
<1>1. DOMAIN Wares = DOMAIN Requests!AccountRecords \union DOMAIN Requests!UploadRecords
  BY DEF Requests!Merged
<1>2. DOMAIN Sales = DOMAIN Requests!CommerceRecords \union DOMAIN Requests!CheckoutRecords
  BY DEF Requests!Merged
<1>3. DOMAIN Designs = DOMAIN Requests!PublicRecords \union DOMAIN Requests!DesignRecords
  BY DEF Requests!Merged
<1>4. Requests!Records = Requests!Merged(Shop, Rest)
  BY DEF Requests!Records
<1> HIDE DEF Wares, Sales, Designs
<1>5. DOMAIN Rest = DOMAIN Requests!AssuranceRecords \union DOMAIN Designs
  BY MergedNames
<1>6. DOMAIN Shop = DOMAIN Wares \union DOMAIN Sales
  BY MergedNames
<1> HIDE DEF Rest, Shop
<1>7. DOMAIN Requests!Records = DOMAIN Shop \union DOMAIN Rest
  BY <1>4, MergedNames
<1> QED
  BY <1>1, <1>2, <1>3, <1>5, <1>6, <1>7

LEMMA CallsAnswered == Answered(Requests!Calls)
<1> USE DEF Requests!Call, Requests!Read, Requests!Ask, Requests!Write,
            Requests!Nothing
<1> DEFINE Of(table, names) ==
      \A c \in DOMAIN table : table[c].record \in names \union {"nothing"}
<1>1. {"authSession", "account", "session", "project", "projectDetail", "version",
       "createdShare", "sharedConfiguration"} \subseteq DOMAIN Requests!AccountRecords
  BY DEF Requests!AccountRecords
<1>2. {"upload", "uploadIntent", "deletedUpload", "assetAccess"}
        \subseteq DOMAIN Requests!UploadRecords
  BY DEF Requests!UploadRecords
<1>3. {"pricing", "quote", "cart", "order"} \subseteq DOMAIN Requests!CommerceRecords
  BY DEF Requests!CommerceRecords
<1>4. {"checkout", "sandboxCheckout", "completion", "priceBook", "auditEntry",
       "productionAssetAccess"} \subseteq DOMAIN Requests!CheckoutRecords
  BY DEF Requests!CheckoutRecords
<1>5. {"work", "queue", "acknowledgement", "packet", "readiness"}
        \subseteq DOMAIN Requests!AssuranceRecords
  BY DEF Requests!AssuranceRecords
<1>6. {"health", "availability", "patternItem"} \subseteq DOMAIN Requests!PublicRecords
  BY DEF Requests!PublicRecords
<1>7. {"design"} \subseteq DOMAIN Requests!DesignRecords
  BY DEF Requests!DesignRecords
<1>8. Answered(Requests!AccountCalls)
  <2>1. Of(Requests!AccountCalls, {"authSession", "account", "session", "packet"})
    BY DEF Requests!AccountCalls
  <2> QED
    BY <1>1, <1>5, <2>1, RecordsOfGroups DEF Answered
<1>9. Answered(Requests!ProjectCalls)
  <2>1. Of(Requests!ProjectCalls, {"project", "projectDetail", "version",
                                   "createdShare", "sharedConfiguration"})
    BY DEF Requests!ProjectCalls
  <2> QED
    BY <1>1, <2>1, RecordsOfGroups DEF Answered
<1>10. Answered(Requests!UploadCalls)
  <2>1. Of(Requests!UploadCalls, {"upload", "uploadIntent", "deletedUpload",
                                  "assetAccess"})
    BY DEF Requests!UploadCalls
  <2> QED
    BY <1>2, <2>1, RecordsOfGroups DEF Answered
<1>11. Answered(Requests!CommerceCalls)
  <2>1. Of(Requests!CommerceCalls, {"pricing", "quote", "cart", "order", "checkout",
                                    "sandboxCheckout", "completion"})
    BY DEF Requests!CommerceCalls
  <2> QED
    BY <1>3, <1>4, <2>1, RecordsOfGroups DEF Answered
<1>12. Answered(Requests!AdminCalls)
  <2>1. Of(Requests!AdminCalls, {"order", "productionAssetAccess", "priceBook",
                                 "auditEntry"})
    BY DEF Requests!AdminCalls
  <2> QED
    BY <1>3, <1>4, <2>1, RecordsOfGroups DEF Answered
<1>13. Answered(Requests!AssuranceCalls)
  <2>1. Of(Requests!AssuranceCalls, {"acknowledgement", "queue", "work", "packet",
                                     "readiness"})
    BY DEF Requests!AssuranceCalls
  <2> QED
    BY <1>5, <2>1, RecordsOfGroups DEF Answered
<1>14. Answered(Requests!PublicCalls)
  <2>1. Of(Requests!PublicCalls, {"health", "availability", "patternItem", "design"})
    BY DEF Requests!PublicCalls
  <2> QED
    BY <1>6, <1>7, <2>1, RecordsOfGroups DEF Answered
<1> QED
  BY <1>8, <1>9, <1>10, <1>11, <1>12, <1>13, <1>14, MergedAnswered
  DEF Requests!Calls, Requests!SignedCalls

\* A body that deviates in a value deviates in a record of the contract.
Known(body) == body[3] = "unknown" => body[1] \in DOMAIN Requests!Records

LEMMA WithinTheContract ==
    ASSUME NEW record \in DOMAIN Requests!Records
    PROVE  Requests!Within(record) \subseteq DOMAIN Requests!Records
<1> DEFINE Inside(set) == set \union UNION {Requests!Records[r].parts : r \in set}
<1>1. ASSUME NEW set, set \subseteq DOMAIN Requests!Records
      PROVE  Inside(set) \subseteq DOMAIN Requests!Records
  BY <1>1, RecordsReadable DEF Readable
<1>2. Inside({record}) \subseteq DOMAIN Requests!Records
  BY <1>1
<1>3. Inside(Inside({record})) \subseteq DOMAIN Requests!Records
  BY <1>1, <1>2
<1>4. Inside(Inside(Inside({record}))) \subseteq DOMAIN Requests!Records
  BY <1>1, <1>3
<1> QED
  BY <1>4 DEF Requests!Within

LEMMA DeviationsKnown ==
    ASSUME NEW record \in DOMAIN Requests!Records,
           NEW body \in Requests!Deviations(record)
    PROVE  Known(body)
<1>1. CASE body = Requests!Good
  BY <1>1 DEF Known, Requests!Good
<1>2. CASE body = <<"design", "cover", "legacy">>
  BY <1>2 DEF Known
<1>3. CASE \E r \in Requests!Within(record) : body[1] = r
  BY <1>3, WithinTheContract DEF Known
<1>4. \/ body = Requests!Good
      \/ body = <<"design", "cover", "legacy">>
      \/ \E r \in Requests!Within(record) : \E f, how : body = <<r, f, how>>
  BY DEF Requests!Deviations
<1> QED
  BY <1>1, <1>2, <1>3, <1>4

\* What an answer without a record has in the place of a deviation.
Codes == {"authentication_failed", "authentication_required", "new_code",
          "unreadable", "empty", "junk"}

LEMMA NoRecordKnown ==
    /\ Known(Requests!Good)
    /\ \A body \in Requests!NoContract \union Requests!Envelope :
         Known(body) /\ body[3] \in Codes
<1>1. Requests!NoContract \union Requests!Envelope
        = {Requests!NoRecord(code) : code \in Codes}
  BY DEF Requests!NoContract, Requests!Envelope, Requests!Unreadable, Codes
<1>2. \A code \in Codes : /\ Requests!NoRecord(code)[3] = code
                         /\ code # "unknown"
  BY DEF Requests!NoRecord, Codes
<1> QED
  BY <1>1, <1>2 DEF Known, Requests!Good

LEMMA AnswersKnown ==
    ASSUME NEW c \in DOMAIN Requests!Calls,
           NEW a \in Requests!Answers(c) \union Requests!Refusals
    PROVE  Known(a.body)
<1>1. a.body \in Requests!NoContract \union Requests!Envelope
        \union (IF Requests!Calls[c].record = Requests!Nothing THEN {Requests!Good}
                ELSE Requests!Deviations(Requests!Calls[c].record))
  BY DEF Requests!Answers, Requests!Refusals
<1>2. Requests!Calls[c].record \in DOMAIN Requests!Records \union {Requests!Nothing}
  BY CallsAnswered DEF Answered
<1>3. ASSUME Requests!Calls[c].record # Requests!Nothing,
             a.body \in Requests!Deviations(Requests!Calls[c].record)
      PROVE  Known(a.body)
  BY <1>2, <1>3, DeviationsKnown
<1> QED
  BY <1>1, <1>3, NoRecordKnown

\* A body that is read as malformed is one its parser refuses, of the contract.
Understood ==
    /\ call \in DOMAIN Requests!Calls
    /\ answer # None => Known(answer.body)
    /\ phase = "ended" /\ outcome.kind = "malformed" =>
         Known(outcome.answer.body) /\ ~Requests!Parses(outcome.answer.body)

LEMMA FailUnderstood ==
    ASSUME NEW kind, NEW a, Requests!Fail(kind, a),
           kind = "malformed" => Known(a.body) /\ ~Requests!Parses(a.body)
    PROVE  phase' = "ended" /\ outcome'.kind = "malformed" =>
             Known(outcome'.answer.body) /\ ~Requests!Parses(outcome'.answer.body)
BY DEF Requests!Fail, Requests!Pause, Requests!End, Requests!Result

LEMMA UnderstoodInvariant ==
    ASSUME Understood, Requests!Next \/ UNCHANGED Requests!vars
    PROVE  Understood'
<1>1. CASE Requests!Begin
  BY <1>1 DEF Requests!Begin, Requests!Attempt, Requests!Result, Understood
<1>2. CASE Requests!Serve
  BY <1>2, AnswersKnown DEF Requests!Serve, Understood
<1>3. CASE Requests!ServeStray
  BY <1>3 DEF Requests!ServeStray, Understood
<1>4. CASE Requests!ReadAnswer
  <2> DEFINE kind == IF Requests!Public THEN Requests!PublicKind(answer)
                     ELSE Requests!SignedKind(answer)
  <2>1. answer' = None /\ answer # None /\ call' = call
    BY <1>4 DEF Requests!ReadAnswer
  <2>2. Known(answer.body)
    BY <2>1 DEF Understood
  <2>3. kind = "malformed" => ~Requests!Parses(answer.body)
    BY DEF Requests!PublicKind, Requests!SignedKind
  <2>4. CASE kind = "ok"
    BY <1>4, <2>1, <2>4 DEF Requests!ReadAnswer, Requests!End, Requests!Result, Understood
  <2>5. CASE kind # "ok"
    <3>1. Requests!Fail(kind, answer)
      BY <1>4, <2>5 DEF Requests!ReadAnswer
    <3> QED
      BY <2>1, <2>2, <2>3, <3>1, FailUnderstood DEF Understood
  <2> QED
    BY <2>4, <2>5
<1>5. CASE Requests!ConnectionLost
  BY <1>5, FailUnderstood DEF Requests!ConnectionLost, Requests!Abandon, Understood
<1>6. CASE Requests!TimeLimit
  BY <1>6, FailUnderstood DEF Requests!TimeLimit, Requests!Abandon, Understood
<1>7. CASE Requests!Cancel
  BY <1>7 DEF Requests!Cancel, Requests!Abandon, Requests!End, Requests!Result, Understood
<1>8. CASE Requests!RetryDelay
  BY <1>8 DEF Requests!RetryDelay, Requests!Attempt, Understood
<1>9. CASE Requests!ColdStart
  BY <1>9 DEF Requests!ColdStart, Understood
<1>10. CASE UNCHANGED Requests!vars
  BY <1>10 DEF Requests!vars, Understood
<1> QED
  BY <1>1, <1>2, <1>3, <1>4, <1>5, <1>6, <1>7, <1>8, <1>9, <1>10 DEF Requests!Next

LEMMA ServerNullsKnown ==
    \A pair \in Requests!ServerNulls : pair[1] \in DOMAIN Requests!Records
BY RecordsOfGroups
   DEF Requests!ServerNulls, Requests!AccountRecords, Requests!UploadRecords,
       Requests!CommerceRecords, Requests!CheckoutRecords, Requests!AssuranceRecords,
       Requests!PublicRecords, Requests!DesignRecords

\* What a parser of a record of the contract refuses, no server sends today, and
\* it is neither a field nor a shown value of a later one.
LEMMA RefusedIsNotSent ==
    ASSUME NEW body, Known(body), ~Requests!Parses(body)
    PROVE  /\ ~Requests!SentToday(body)
           /\ body[3] # "added"
           /\ ~Requests!ReadsAsUnknown(body)
<1>1. body[3] \notin Codes => ~Requests!Accepts(body)
  BY NoRecordKnown DEF Requests!Parses
<1>2. body[3] \in {"null", "added", "unknown", "good"} => ~Requests!Accepts(body)
  BY <1>1 DEF Codes
<1>3. body # Requests!Good /\ body[3] # "added"
  <2>1. body[3] \in {"good", "added"} => Requests!Accepts(body)
    BY DEF Requests!Accepts
  <2>2. Requests!Good[3] = "good"
    BY DEF Requests!Good
  <2> QED
    BY <1>2, <2>1, <2>2
<1>4. ASSUME body[3] = "null", <<body[1], body[2]>> \in Requests!ServerNulls
      PROVE  FALSE
  <2>1. body[1] \in DOMAIN Requests!Records
    BY <1>4, ServerNullsKnown
  <2>2. body[2] \in Requests!Records[body[1]].null
    BY <1>4, <2>1, RecordsReadable DEF Readable
  <2> QED
    BY <1>2, <1>4, <2>2 DEF Requests!Accepts
<1>5. ASSUME Requests!ReadsAsUnknown(body)
      PROVE  FALSE
  <2>1. body[3] = "unknown" /\ body[2] \in Requests!Records[body[1]].shown
    BY <1>5 DEF Requests!ReadsAsUnknown
  <2>2. body[2] \notin Requests!Records[body[1]].strict
    BY <2>1, RecordsReadable DEF Readable, Known
  <2> QED
    BY <1>2, <2>1, <2>2 DEF Requests!Accepts
<1> QED
  BY <1>3, <1>4, <1>5 DEF Requests!SentToday

\* A successful answer of this server, of one that adds fields, or of one that knows
\* more values to show is never read as a failure, whatever call it answers
\* (docs/architecture.md 71-80).
THEOREM AnswersUnderstood == Spec => []AnswersAreRead
<1> DEFINE I == part = "requests" => Understood
<1>1. Init => I
  BY DEF Init, Requests!Init, Understood, NoSession, NoVisit
<1>2. I => AnswersAreRead
  BY RefusedIsNotSent DEF Understood, AnswersAreRead, Requests!AnswersAreRead
<1>3. I /\ [Next]_vars => I'
  <2>1. I /\ UNCHANGED vars => I'
    <3>1. ASSUME Understood, UNCHANGED Requests!vars PROVE Understood'
      BY <3>1, UnderstoodInvariant
    <3> QED
      BY <3>1 DEF vars, Requests!vars, request
  <2>2. I /\ Next => I'
    <3>1. ASSUME Understood, Requests!Next PROVE Understood'
      BY <3>1, UnderstoodInvariant
    <3> QED
      BY <3>1 DEF Next
  <2> QED
    BY <2>1, <2>2
<1> QED
  BY <1>1, <1>2, <1>3, PTL DEF Spec
=============================================================================
