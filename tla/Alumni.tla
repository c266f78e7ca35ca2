------------------------------- MODULE Alumni -------------------------------
(***************************************************************************)
(* The alumni service: registrations, document requests, card applications *)
(* and their administration, over PostgreSQL or over Supabase with         *)
(* different statements in different orders.  An alumnus stands for its    *)
(* actor_uuid and its email; a row's id stands for its creation time.      *)
(***************************************************************************)
EXTENDS Notifications

CONSTANTS
    Alumni,
    Documents,      \* document_type a client can ask for
    Copies,         \* number_of_copies a client can ask for
    StatusCodes,    \* status_code an administrator can set
    Payments,       \* payment_status an administrator can give, None among them
    MaxRows         \* bound: rows that are inserted until a table gets no more

ASSUME AlumniBounds == MaxRows \in [{"logs", "records", "cards"} -> Nat] /\ Copies \cup StatusCodes \subseteq Nat
\* A registration log: of a registration, or of a graduation and its message.
LogRows == [id : Nat, actor : Alumni, type : {"registered", "graduated"}, message : Nat \cup {None}]

ASSUME NoneIsNoLog == None \notin LogRows
ASSUME PaymentStatus == Payments \subseteq {"pending", "paid", None}

AlumniTables == Merged(NotificationTables, [
    logs |-> {},        \* registration logs: [id, actor, type, message]
    accounts |-> [a \in Alumni |-> None],   \* id of the log that wrote it last
    records |-> {},     \* record requests: [id, actor, fee, status, payment]
    cards |-> {},       \* card applications: [id, actor, status, payment, serial]
    events |-> {},      \* alumni_activity_events: [type, id]
    published |-> {},   \* domain events: [type, id]
    audits |-> {}])     \* audit_events: [type, id]

\* Mutation: the domain event is published before the service's own activity
\* event is recorded.
postgresRoutePublishFirst == [
    registered |-> <<"insertLog", "upsertAccount", "event">>,
    recordRequested |-> <<"insertRecord", "publish", "event", "notice">>,
    recordUpdated |-> <<"updateRecord", "publish", "event", "notice">>,
    cardRequested |-> <<"insertCard", "event">>,
    cardUpdated |-> <<"updateCard", "event", "notice">>,
    graduated |-> <<"insertLog", "event", "handled">>]

\* The statements of each kind of request, in the order of the code.
postgresRoute == [
    registered |-> <<"insertLog", "upsertAccount", "event">>,
    recordRequested |-> <<"insertRecord", "event", "publish", "notice">>,
    recordUpdated |-> <<"updateRecord", "event", "publish", "notice">>,
    cardRequested |-> <<"insertCard", "event">>,
    cardUpdated |-> <<"updateCard", "event", "notice">>,
    graduated |-> <<"insertLog", "event", "handled">>]

supabaseRoute == [
    registered |-> <<"insertLog", "upsertAccount">>,
    recordRequested |-> <<"insertRecord", "notice", "publish">>,
    recordUpdated |-> <<"updateRecord", "publish", "audit", "notice">>,
    cardRequested |-> <<"insertCard">>,
    cardUpdated |-> <<"updateCard", "notice", "audit">>,
    graduated |-> <<"insertLog", "upsertAccount", "handled">>]

route(type) == IF usePostgres("alumni") THEN postgresRoute[type] ELSE supabaseRoute[type]

FEE_MAP == [TOR |-> 150, DIPLOMA |-> 200, GOOD_MORAL |-> 100, CERTIFICATE |-> 100]

\* What a document request costs; None when it is refused.
calculateRecordFee(document_type, number_of_copies) ==
    IF document_type \in DOMAIN FEE_MAP /\ number_of_copies >= 1
    THEN FEE_MAP[document_type] * number_of_copies
    ELSE None

\* A legacy registration needs a proof or a document, any other a student id.
validateRegistrationVerification(dto) ==
    IF dto.is_legacy_registration
    THEN dto.proof_reference \/ dto.document_url
    ELSE dto.student_id

Registrations == [is_legacy_registration : BOOLEAN, proof_reference : BOOLEAN,
                  document_url : BOOLEAN, student_id : BOOLEAN]

\* A new row's id: later rows have larger ones.
newLogId == Cardinality(db.logs) + Cardinality(db.records) + Cardinality(db.cards) + 1

\* No statement touches both the tables of requests and cards (service
\* "alumni") and those of registrations (service "graduations").
AlumniRequest(s, w, type, id, value) ==
    /\ Take(s, w, route(type), [type |-> type, id |-> id, value |-> value])
    /\ UNCHANGED db

registerAlumni(w) == \E actor \in Alumni, dto \in Registrations :
    /\ validateRegistrationVerification(dto)
    /\ AlumniRequest("graduations", w, "registered", None, [actor |-> actor, message |-> None])

requestRecord(w) == \E actor \in Alumni, type \in Documents, copies \in Copies :
    /\ calculateRecordFee(type, copies) # None
    /\ AlumniRequest("alumni", w, "recordRequested", None,
           [actor |-> actor, fee |-> calculateRecordFee(type, copies)])

\* The photo is required; without it nothing is written.
applyForCard(w) == \E actor \in Alumni :
    AlumniRequest("alumni", w, "cardRequested", None, [actor |-> actor])

\* An administrator's change: any status_code, and possibly a payment_status.
updateRecordStatus(w) == service = "alumni" /\
    \E row \in db.records, status \in StatusCodes, payment \in Payments :
        AlumniRequest("alumni", w, "recordUpdated", row.id, [status |-> status, payment |-> payment])

updateCardApplicationStatus(w) == service = "alumni" /\
    \E row \in db.cards, status \in StatusCodes, payment \in Payments :
        AlumniRequest("alumni", w, "cardUpdated", row.id, [status |-> status, payment |-> payment])

\* The insert of a new row, with the id that the rest of the handler uses.
InsertRow(w, table, row) ==
    /\ newLogId <= MaxRows[table]
    /\ db' = [db EXCEPT ![table] = @ \cup {row}]
    /\ ProceedWith(w, [arg[w] EXCEPT !.id = newLogId,
                      !.value = IF table = "logs" THEN @ ELSE None])

InsertLog(w) ==
    /\ At(w, "insertLog")
    /\ InsertRow(w, "logs", [id |-> newLogId, actor |-> arg[w].value.actor,
           type |-> arg[w].type, message |-> arg[w].value.message])

InsertRecord(w) ==
    /\ At(w, "insertRecord")
    /\ InsertRow(w, "records", [id |-> newLogId, actor |-> arg[w].value.actor,
           fee |-> arg[w].value.fee, status |-> 100, payment |-> "pending"])

InsertCard(w) ==
    /\ At(w, "insertCard")
    /\ InsertRow(w, "cards", [id |-> newLogId, actor |-> arg[w].value.actor,
           status |-> 200, payment |-> "pending", serial |-> None])

\* The account of the email is made or overwritten.  Supabase's error is only
\* a warning: the log is already written.
UpsertAccount(w) ==
    /\ At(w, "upsertAccount")
    /\ Proceed(w)
    /\ \/ db' = [db EXCEPT !.accounts[arg[w].value.actor] = arg[w].id]
       \/ ~usePostgres("alumni") /\ UNCHANGED db

\* coalesce: a payment_status that is not given is kept.
paymentOf(w, row) ==
    IF arg[w].value.payment = None THEN row.payment ELSE arg[w].value.payment

UpdateRecord(w) ==
    /\ At(w, "updateRecord")
    /\ ProceedWith(w, [arg[w] EXCEPT !.value = None])
    /\ \E row \in db.records :
          /\ row.id = arg[w].id
          /\ db' = [db EXCEPT !.records = (@ \ {row}) \cup
                {[row EXCEPT !.payment = paymentOf(w, row), !.status = arg[w].value.status]}]

\* The serial is printed when the card reaches 300 and then kept.  Supabase
\* writes it again, with the same value: it is made from the row's id.
serialOf(w, row) ==
    IF arg[w].value.status >= 300 /\ (row.serial = None \/ ~usePostgres("alumni"))
    THEN row.id
    ELSE row.serial

UpdateCard(w) ==
    /\ At(w, "updateCard")
    /\ ProceedWith(w, [arg[w] EXCEPT !.value = None])
    /\ \E row \in db.cards :
          /\ row.id = arg[w].id
          /\ db' = [db EXCEPT !.cards = (@ \ {row}) \cup
                {[row EXCEPT !.payment = paymentOf(w, row), !.status = arg[w].value.status,
                             !.serial = serialOf(w, row)]}]

\* The type of what the request did and the row it did it to.
Mark(w) == <<arg[w].type, arg[w].id>>

RecordEvent(w) ==
    /\ At(w, "event")
    /\ Proceed(w)
    /\ db' = [db EXCEPT !.events = @ \cup {Mark(w)}]

\* tryPublishDomainEvent never fails its caller.
PublishAlumniEvent(w) ==
    /\ At(w, "publish")
    /\ Proceed(w)
    /\ db' \in {db, [db EXCEPT !.published = @ \cup {Mark(w)}]}

\* AuditService.record: the error is returned, and ignored here.
RecordAlumniAudit(w) ==
    /\ At(w, "audit")
    /\ Proceed(w)
    /\ db' \in {db, [db EXCEPT !.audits = @ \cup {Mark(w)}]}

AlumniInit == Start("alumni", {"alumni", "notifications"}, AlumniTables)

AlumniNext ==
    \E w \in Workers :
        \/ registerAlumni(w) \/ requestRecord(w) \/ applyForCard(w)
        \/ updateRecordStatus(w) \/ updateCardApplicationStatus(w)
        \/ InsertLog(w) \/ UpsertAccount(w) \/ InsertRecord(w) \/ InsertCard(w)
        \/ UpdateRecord(w) \/ UpdateCard(w)
        \/ RecordEvent(w) \/ PublishAlumniEvent(w) \/ RecordAlumniAudit(w)
        \/ service = "alumni" /\ Fail(w)

-----------------------------------------------------------------------------
(* What the pages read *)

getRecordRequests(actor) == {row \in db.records : row.actor = actor}
getCardApplications(actor) == {row \in db.cards : row.actor = actor}
getRegistrationLogs(actor) == {row \in db.logs : row.actor = actor}

\* The latest registration of an alumnus, None when there is none: graduation
\* logs are not registrations.
getAlumniProfile(actor) ==
    LET registered == {row \in getRegistrationLogs(actor) : row.type = "registered"}
    IN  IF registered = {} THEN None
        ELSE CHOOSE row \in registered : \A other \in registered : other.id <= row.id

\* The ids in the communication log: registrations, requests and cards.
getCommunicationLog(actor) ==
    {row.id : row \in getRegistrationLogs(actor) \cup getRecordRequests(actor)
                        \cup getCardApplications(actor)}

AlumniTablesOK ==
    /\ NoticeTablesOK
    /\ db.accounts \in [Alumni -> 1 .. MaxRows["logs"] \cup {None}]
    /\ \A row \in db.records \cup db.cards :
          row.actor \in Alumni /\ row.payment \in {"pending", "paid"}

\* The log-first rule: an account was written from a log of the same alumnus,
\* and its owner has a profile unless only graduations made it; an activity
\* event, an audit or a notice names a row of somebody's communication log;
\* and what PostgreSQL's service published, it recorded first.
LogFirst == service \in {"alumni", "graduations"} =>
    /\ \A a \in Alumni : db.accounts[a] # None =>
          \E row \in getRegistrationLogs(a) :
             /\ row.id = db.accounts[a]
             /\ row.type = "registered" => getAlumniProfile(a) # None
    /\ {e[2] : e \in db.events \cup db.audits \cup db.published \cup db.noticeAudits}
          \subseteq UNION {getCommunicationLog(a) : a \in Alumni}
    /\ usePostgres("alumni") => db.published \subseteq db.events
=============================================================================
