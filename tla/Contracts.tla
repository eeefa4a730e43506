----------------------------- MODULE Contracts ------------------------------
(***************************************************************************)
(* What the browser asks of the API and how it reads the answers (frontend *)
(* services/validation.ts, account-api.ts, commerce-api.ts,                *)
(* assurance-api.ts, api-client.ts, design-contract.ts).                   *)
(*                                                                         *)
(* An answer is abstracted to what sets it apart from a good one: nothing, *)
(* or one deviation in one field of one of the records it is made of.  A   *)
(* reader rejects a record as soon as one field is rejected, so answers    *)
(* with several deviations add nothing.                                    *)
(***************************************************************************)

\* Tables of several groups in one; no two have a name in common.
Merged(f, g) == [x \in DOMAIN f \union DOMAIN g |->
                     IF x \in DOMAIN f THEN f[x] ELSE g[x]]

\* One record: the fields with a closed set of values (strict), those whose
\* unknown values are only shown, those that may be null, and the records it
\* contains.  "other" stands for the fields of which only the type is checked.
Fields(strict, shown, null, parts) ==
    [strict |-> strict, shown |-> shown, null |-> null, parts |-> parts]
Plain == Fields({}, {}, {}, {})

\* Accounts, sessions, projects, versions and share links.
AccountRecords ==
    LET Configuration == {"shape", "unit", "materialId", "fitPreference",
                          "closureType", "seamStyle"} IN
    [pattern       |-> Fields({"kind", "color"}, {}, {}, {}),
     configuration |-> Fields(Configuration, {}, {"backWidth"}, {"pattern"}),
     account       |-> Fields({"role"}, {}, {}, {}),
     authSession   |-> Fields({"token"}, {}, {}, {"account"}),
     session       |-> Fields({}, {}, {"revokedAt"}, {}),
     version       |-> Fields({}, {}, {}, {"configuration"}),
     share         |-> Plain,
     createdShare  |-> Plain,
     project       |-> Fields({"privacy"}, {}, {}, {}),
     projectDetail |-> Fields({"privacy"}, {}, {}, {"version", "share"}),
     sharedConfiguration |-> Fields({}, {}, {}, {"configuration"})]

\* Uploads.
UploadRecords ==
    LET Nullable == {"width", "height", "tileDerivativeId",
                     "thumbnailDerivativeId", "deletedAt"} IN
    [upload        |-> Fields({}, {"state", "moderationState"}, Nullable, {}),
     operation     |-> Fields({"method"}, {}, {}, {}),
     uploadIntent  |-> Fields({}, {}, {}, {"upload", "operation"}),
     assetAccess   |-> Fields({"contentType"}, {}, {}, {}),
     deletedUpload |-> Fields({"state"}, {}, {}, {})]

\* Prices, quotes, carts and orders.
CommerceRecords ==
    [component |-> Plain,
     pricing   |-> Fields({"demonstration", "currency"}, {}, {},
                          {"component"}),
     quote     |-> Fields({"demonstration", "currency"}, {"status"},
                          {"projectVersionId", "customAsset"}, {"component"}),
     cartLine  |-> Fields({}, {}, {}, {"quote"}),
     cart      |-> Fields({"demonstration", "state", "currency"}, {}, {},
                          {"cartLine"}),
     shipment  |-> Fields({}, {"carrier"}, {"trackingUrl", "deliveredAt"}, {}),
     timelineEntry |-> Fields({}, {}, {"fromState", "toState"}, {}),
     order     |-> Fields({"currency"}, {"state", "paymentStatus"},
                          {"shipment", "shippingAddress"},
                          {"shipment", "timelineEntry"})]

\* Checkouts and administration.
CheckoutRecords ==
    [checkout        |-> Plain,
     sandboxCheckout |-> Fields({"demonstration", "currency"}, {}, {}, {}),
     completion      |-> Fields({"received"}, {}, {}, {}),
     priceBook       |-> Fields({"state", "currency"}, {},
                                {"effectiveAt", "publishedAt"}, {}),
     auditEntry      |-> Fields({}, {}, {"actorAccountId"}, {}),
     productionAssetAccess |-> Plain]

\* Production work and readiness.  The state of a work item is any text.
AssuranceRecords ==
    [work            |-> Fields({"demonstration"}, {}, {}, {}),
     queue           |-> Fields({}, {}, {}, {"work"}),
     acknowledgement |-> Plain,
     packet          |-> Plain,
     readinessCheck  |-> Fields({}, {"level"}, {}, {}),
     readiness       |-> Fields({}, {}, {}, {"readinessCheck"})]

\* The answers only the public client reads.
PublicRecords ==
    [health       |-> Fields({"process", "database", "commit"}, {},
                             {"commit"}, {}),
     availability |-> Plain,
     patternItem  |-> Plain]

\* A saved design.  It has a pattern or a colour, never both: the one it does
\* not have (otherFabric) is absent or null.
Cover == {"materialId", "fitPreference", "closureType", "seamStyle"}
DesignRecords ==
    [design |-> Fields({"shape", "unit", "fabric", "otherFabric",
                        "patternScale", "publicId"} \union Cover, {},
                       {"backWidth", "otherFabric"}, {})]

Records == Merged(Merged(Merged(AccountRecords, UploadRecords),
                         Merged(CommerceRecords, CheckoutRecords)),
                  Merged(AssuranceRecords, Merged(PublicRecords, DesignRecords)))

\* The records an answer is made of.
Within(record) ==
    LET Inside(set) == set \union UNION {Records[r].parts : r \in set}
    IN  Inside(Inside(Inside({record})))

\* How an answer may deviate from a good one: a field is absent, null, of
\* another type, has a value this build does not know, or is one it does not
\* know.  A design from before the cover choices has none of them (legacy).
Good == <<"", "", "good">>
Deviations(record) ==
    {Good} \union
    (UNION {{<<r, f, how>> :
               f \in Records[r].strict \union Records[r].shown
                     \union Records[r].null \union {"other"},
               how \in {"absent", "null", "mistyped", "unknown", "added"}}
            : r \in Within(record)})
    \union (IF "design" \in Within(record)
            THEN {<<"design", "cover", "legacy">>} ELSE {})

\* (Mutant: a field this build does not know makes the answer malformed.)
AcceptsKnown(deviation) ==
    LET fields == Records[deviation[1]]
        field  == deviation[2]
        how    == deviation[3]
    IN \/ how \in {"good", "legacy"}
       \/ how = "null" /\ field \in fields.null
       \/ how = "unknown" /\ field \notin fields.strict

\* The readers: a field this build does not know is dropped, an unknown value
\* of a strict field makes the answer malformed, and one that is only shown
\* reads as "unknown".  A text that is not compared with anything is accepted.
Accepts(deviation) ==
    LET fields == Records[deviation[1]]
        field  == deviation[2]
        how    == deviation[3]
    IN \/ how \in {"good", "added", "legacy"}
       \/ how = "null" /\ field \in fields.null
       \/ how = "unknown" /\ field \notin fields.strict
       \/ deviation \in {<<"health", "commit", "absent">>,
                         <<"design", "otherFabric", "absent">>}
ReadsAsUnknown(deviation) ==
    /\ deviation[3] = "unknown"
    /\ deviation[2] \in Records[deviation[1]].shown

-----------------------------------------------------------------------------
(* The operations of the clients: whether one writes, carries the session, *)
(* can be cancelled by its caller, and the record its answer is.           *)

Call(write, private, abortable, record) ==
    [write |-> write, private |-> private, abortable |-> abortable,
     record |-> record]
Read(private, record)   == Call(FALSE, private, TRUE, record)
Ask(record)             == Call(FALSE, TRUE, FALSE, record)
Write(private, record)  == Call(TRUE, private, FALSE, record)
Nothing == "nothing"    \* an answer whose body is not read

AccountCalls ==
    [register  |-> Write(FALSE, "authSession"),
     login     |-> Write(FALSE, "authSession"),
     current   |-> Read(TRUE, "account"),
     logout    |-> Write(TRUE, Nothing),
     logoutAll |-> Write(TRUE, Nothing),
     sessions  |-> Read(TRUE, "session"),
     revokeSession |-> Write(TRUE, Nothing),
     export        |-> Ask("packet"),
     deleteAccount |-> Write(TRUE, "packet")]

ProjectCalls ==
    [listProjects  |-> Read(TRUE, "project"),
     createProject |-> Write(TRUE, "projectDetail"),
     getProject    |-> Read(TRUE, "projectDetail"),
     renameProject |-> Write(TRUE, "projectDetail"),
     deleteProject |-> Write(TRUE, Nothing),
     listVersions  |-> Read(TRUE, "version"),
     getVersion    |-> Read(TRUE, "version"),
     createVersion |-> Write(TRUE, "version"),
     createShare   |-> Write(TRUE, "createdShare"),
     revokeShare   |-> Write(TRUE, Nothing),
     restoreShare  |-> Read(FALSE, "sharedConfiguration")]

UploadCalls ==
    [listUploads        |-> Read(TRUE, "upload"),
     createUploadIntent |-> Write(TRUE, "uploadIntent"),
     getUpload          |-> Read(TRUE, "upload"),
     confirmUpload      |-> Write(TRUE, "upload"),
     renameUpload       |-> Write(TRUE, "upload"),
     retryUpload        |-> Write(TRUE, "upload"),
     deleteUpload       |-> Write(TRUE, "deletedUpload"),
     assetAccess        |-> Call(TRUE, TRUE, TRUE, "assetAccess")]

CommerceCalls ==
    [preview     |-> Write(TRUE, "pricing"),
     createQuote |-> Write(TRUE, "quote"),
     quotes      |-> Read(TRUE, "quote"),
     quote       |-> Ask("quote"),
     reprice     |-> Write(TRUE, "quote"),
     cart        |-> Read(TRUE, "cart"),
     addQuote    |-> Write(TRUE, "cart"),
     changeLine  |-> Write(TRUE, "cart"),
     removeLine  |-> Write(TRUE, "cart"),
     emptyCart   |-> Write(TRUE, "cart"),
     checkout    |-> Write(TRUE, "checkout"),
     orders      |-> Read(TRUE, "order"),
     order       |-> Read(TRUE, "order"),
     sandboxCheckout |-> Read(FALSE, "sandboxCheckout"),
     completeSandbox |-> Write(FALSE, "completion")]

AdminCalls ==
    [adminOrders |-> Read(TRUE, "order"),
     adminOrder  |-> Ask("order"),
     transition  |-> Write(TRUE, "order"),
     shipment    |-> Write(TRUE, "order"),
     refund      |-> Write(TRUE, "order"),
     productionAssetAccess |-> Write(TRUE, "productionAssetAccess"),
     priceBooks       |-> Read(TRUE, "priceBook"),
     createPriceBook  |-> Write(TRUE, "priceBook"),
     updatePriceBook  |-> Write(TRUE, "priceBook"),
     publishPriceBook |-> Write(TRUE, "priceBook"),
     audit            |-> Read(TRUE, "auditEntry")]

AssuranceCalls ==
    [acknowledge     |-> Write(TRUE, "acknowledgement"),
     productionQueue |-> Read(TRUE, "queue"),
     work            |-> Ask("work"),
     checklist       |-> Write(TRUE, "work"),
     createIssue     |-> Write(TRUE, "work"),
     moveWork        |-> Write(TRUE, "work"),
     quality         |-> Write(TRUE, "work"),
     packet          |-> Write(TRUE, "packet"),
     readiness       |-> Call(FALSE, FALSE, FALSE, "readiness")]

SignedCalls == Merged(Merged(AccountCalls, Merged(ProjectCalls, UploadCalls)),
                      Merged(CommerceCalls, Merged(AdminCalls, AssuranceCalls)))

\* The public client: no session, no cancelling, and its own statuses.
PublicCalls ==
    [getHealth             |-> Call(FALSE, FALSE, FALSE, "health"),
     getUploadAvailability |-> Call(FALSE, FALSE, FALSE, "availability"),
     listPatterns          |-> Call(FALSE, FALSE, FALSE, "patternItem"),
     createDesign          |-> Call(TRUE, FALSE, FALSE, "design"),
     getDesign             |-> Call(FALSE, FALSE, FALSE, "design")]
Expected(call) ==
    CASE call = "getHealth"    -> {200, 503}
      [] call = "createDesign" -> {201}
      [] OTHER                 -> {200}

Calls == Merged(SignedCalls, PublicCalls)
=============================================================================
