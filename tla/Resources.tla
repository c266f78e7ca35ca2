------------------------------ MODULE Resources ------------------------------
(***************************************************************************)
(* The JSON records of a school (institution_resources): users,            *)
(* invitations and academic data of the school administration, and the     *)
(* older institution data pages.  A record is changed by reading it,       *)
(* merging and writing it back, without a version and without a lock.      *)
(***************************************************************************)
EXTENDS Requests

CONSTANTS
    Records,    \* ids of institution_resources
    Values,     \* values of a field
    MaxWrites   \* bound: writes of the table

ASSUME ResourceBounds == MaxWrites \in Nat

\* role and status of a user; of any other record two of its fields.
Fields == {"role", "status"}

ASSUME NoneIsNoData == None \notin [Fields -> Values]

\* What a request asks to change: one field.
Payloads == UNION {[{f} -> Values] : f \in Fields}

\* The data of a new record.
NewData == {[f \in Fields |-> v] : v \in Values}

ResourceTables == [
    rows |-> [r \in Records |-> None],  \* data of each record
    audits |-> 0,           \* audit events of writes
    writes |-> 0,           \* writes so far
    written |-> [r \in Records |-> 0],  \* the last write of each record
    unaudited |-> 0]        \* writes whose request ended before its audit

ResourceExists(r) == db.rows[r] # None

\* After its write a request needs its locals no more.
Written(w) == ProceedWith(w, [arg[w] EXCEPT !.payload = <<>>, !.seen = <<>>, !.at = <<>>])

\* The write of a record counts as the next one.
PutResource(r, data) ==
    /\ db.writes < MaxWrites
    /\ db' = [db EXCEPT !.rows[r] = data, !.writes = @ + 1, !.written[r] = db.writes + 1]

\* A request of the school administration about one record.
SchoolAdminRequest(w, steps, r, payload) ==
    /\ Take("resources", w, steps, [id |-> r, payload |-> payload, seen |-> <<>>, at |-> <<>>])
    /\ UNCHANGED db

\* createUser and createAcademicRecord; inviteUser also queues an email.  The
\* id is a new random one.
CreateResource(w) == service = "resources" /\
    \E r \in Records, payload \in NewData, mail \in {<<>>, <<"deliver">>} :
        /\ db.written[r] = 0
        /\ SchoolAdminRequest(w, <<"insertResource">> \o mail \o <<"auditResource">>, r, payload)

\* assignRole, setUserStatus and updateAcademicRecord: read, merge, write.
UpdateResource(w) == service = "resources" /\
    \E r \in Records, payload \in Payloads :
        SchoolAdminRequest(w, <<"readResource", "upsertResource", "auditResource">>, r, payload)

\* deleteAcademicRecord.
DeleteResource(w) == service = "resources" /\
    \E r \in Records : SchoolAdminRequest(w, <<"findResource", "deleteResource", "auditResource">>, r, <<>>)

\* queuePasswordReset and resendInvite.
QueueDelivery(w) == service = "resources" /\
    \E r \in Records : SchoolAdminRequest(w, <<"findResource", "deliverMail", "mailAudit">>, r, <<>>)

\* importAcademicRecords, of two rows: each is created and audited, and the
\* import is audited in the end.
ImportResources(w) == service = "resources" /\
    \E r \in Records, payload \in NewData :
        /\ db.written[r] = 0
        /\ SchoolAdminRequest(w, <<"insertResource", "auditResource", "insertNextResource", "auditResource", "importAudit">>, r, payload)

\* updateProfile merges in one statement, which loses nothing: only the write
\* and its audit are kept here.
UpdateProfile(w) ==
    SchoolAdminRequest(w, <<"mergeProfile", "auditResource">>, None, <<>>)

-----------------------------------------------------------------------------
(* The statements *)

\* writeRecord of a new record.
InsertResource(w) ==
    /\ At(w, "insertResource")
    /\ db.written[arg[w].id] = 0
    /\ PutResource(arg[w].id, arg[w].payload)
    /\ Proceed(w)

\* The next row of an import has an id of its own.
InsertNextResource(w) ==
    /\ At(w, "insertNextResource")
    /\ \E r \in Records :
          /\ db.written[r] = 0
          /\ PutResource(r, arg[w].payload)
    /\ Written(w)

\* requireRecord, by a request that does not use what it read: a record that
\* is not there ends the request.
FindResource(w) ==
    /\ At(w, "findResource")
    /\ ResourceExists(arg[w].id)
    /\ Proceed(w)
    /\ UNCHANGED db

\* The request keeps what it read of these records, and when they were written.
Reads(w, records, steps) ==
    /\ GoOn(w, steps, [arg[w] EXCEPT !.seen = [r \in records |-> db.rows[r]],
                                     !.at = [r \in records |-> db.written[r]]])
    /\ UNCHANGED db

\* requireRecord, by a request that will merge into what it read.
ReadResource(w) ==
    /\ At(w, "readResource")
    /\ ResourceExists(arg[w].id)
    /\ Reads(w, {arg[w].id}, Tail(todo[w]))

\* Mutation: the fields that were read win over those that were asked for.
mergedDataSwapped(w, r) == Merged(arg[w].payload, arg[w].seen[r])

\* { ...existing.data, ...payload }: the record as it was read, with the
\* fields that were asked for.
mergedData(w, r) == Merged(arg[w].seen[r], arg[w].payload)

\* writeRecord of a record that was read: an upsert, so that a record that is
\* deleted by now comes back.
UpsertResource(w) ==
    /\ At(w, "upsertResource")
    /\ PutResource(arg[w].id, mergedData(w, arg[w].id))
    /\ Written(w)

\* Mutation: the number of deleted rows is not looked at.
EraseResourceUnchecked(w) ==
    /\ At(w, "deleteResource")
    /\ IF ResourceExists(arg[w].id) THEN PutResource(arg[w].id, None) ELSE UNCHANGED db
    /\ Written(w)

\* Of two deletions the one that finds no row is refused.
EraseResource(w) ==
    /\ At(w, "deleteResource")
    /\ ResourceExists(arg[w].id)
    /\ PutResource(arg[w].id, None)
    /\ Written(w)

MergeProfile(w) ==
    /\ At(w, "mergeProfile")
    /\ db.writes < MaxWrites
    /\ db' = [db EXCEPT !.writes = @ + 1]
    /\ Proceed(w)

\* The email is queued; the queue itself is left out.
Deliver(w) ==
    /\ At(w, "deliver") \/ At(w, "deliverMail")
    /\ Proceed(w)
    /\ UNCHANGED db

\* The audit of a write; its error fails the request.
AuditResource(w) ==
    /\ At(w, "auditResource")
    /\ db' = [db EXCEPT !.audits = @ + 1]
    /\ Proceed(w)

\* The audit of an email or of a whole import: not of a write.
AuditOther(w) ==
    /\ At(w, "mailAudit") \/ At(w, "importAudit")
    /\ Proceed(w)
    /\ UNCHANGED db

\* The request has written a record and not yet audited that.
AuditPending(w) == At(w, "auditResource") \/ At(w, "deliver")

\* A request ends early: what it wrote stays, without its audit.
FailResources(w) ==
    /\ service = "resources" /\ ~Idle(w)
    /\ Answer(w)
    /\ db' = IF AuditPending(w)
             THEN [db EXCEPT !.unaudited = @ + 1] ELSE db

-----------------------------------------------------------------------------
(* The institution data pages: the same table, without audits *)

Unaudited(r, data) ==
    /\ db.writes < MaxWrites
    /\ db' = [db EXCEPT !.rows[r] = data, !.writes = @ + 1, !.written[r] = db.writes + 1,
                        !.unaudited = @ + 1]

\* create: a plain insert under the client's id or under one made of the
\* clock's millisecond, so that an id that is taken is refused.
InstitutionCreate(w) ==
    /\ Serve("resources", w)
    /\ \E r \in Records, payload \in NewData : ~ResourceExists(r) /\ Unaudited(r, payload)

\* remove: a delete that may find nothing.
InstitutionRemove(w) ==
    /\ Serve("resources", w)
    /\ \E r \in Records : ResourceExists(r) /\ Unaudited(r, None)

\* update: read, merge and update, which brings no record back.
InstitutionUpdate(w) == service = "resources" /\
    \E r \in Records, payload \in Payloads :
        SchoolAdminRequest(w, <<"readResource", "updateResource">>, r, payload)

\* markAllNotificationsRead; some value of status means read.
markAllNotificationsRead(w) ==
    \E read \in Values : SchoolAdminRequest(w, <<"readAll">>, None, [status |-> read])

ReadUnread(w) ==
    /\ At(w, "readAll")
    /\ LET unread == {r \in Records : ResourceExists(r) /\ db.rows[r].status # arg[w].payload.status}
       IN  Reads(w, unread, IF unread = {} THEN <<>> ELSE <<"markOne">>)

\* The records are written back whole, in any order; the error of one is
\* not looked at, and one that is deleted by now is not found.
MarkOne(w) ==
    /\ At(w, "markOne")
    /\ \E r \in DOMAIN arg[w].seen :
          LET rest == DOMAIN arg[w].seen \ {r}
          IN  /\ \/ ResourceExists(r) /\ Unaudited(r, mergedData(w, r))
                 \/ UNCHANGED db
              /\ GoOn(w, IF rest = {} THEN <<>> ELSE <<"markOne">>,
                      [arg[w] EXCEPT !.seen = [q \in rest |-> @[q]], !.at = [q \in rest |-> @[q]]])

OverwriteResource(w) ==
    /\ At(w, "updateResource")
    /\ ResourceExists(arg[w].id)
    /\ Unaudited(arg[w].id, mergedData(w, arg[w].id))
    /\ Written(w)

ResourcesInit == Start("resources", {}, ResourceTables)

ResourcesNext == \E w \in Workers :
    \/ CreateResource(w) \/ UpdateResource(w) \/ DeleteResource(w) \/ QueueDelivery(w)
    \/ ImportResources(w) \/ UpdateProfile(w)
    \/ InsertResource(w) \/ InsertNextResource(w) \/ FindResource(w) \/ ReadResource(w) \/ UpsertResource(w)
    \/ EraseResource(w) \/ MergeProfile(w) \/ Deliver(w) \/ AuditResource(w)
    \/ AuditOther(w) \/ FailResources(w)
    \/ InstitutionCreate(w) \/ InstitutionRemove(w) \/ InstitutionUpdate(w)
    \/ markAllNotificationsRead(w) \/ ReadUnread(w) \/ MarkOne(w) \/ OverwriteResource(w)

ResourceTablesOK ==
    /\ db.rows \in [Records -> [Fields -> Values] \cup {None}]
    /\ db.written \in [Records -> 0 .. MaxWrites]

\* Writes whose request has its audit event still to record.
Unfinished == Cardinality({w \in Workers :
    ~Idle(w) /\ AuditPending(w)})

\* The audit trail accounts for every write of the school administration, the
\* rows of imports and deletions that raced one another included: as many
\* audits as writes, but for requests on the way and requests that failed in
\* between.
AuditAccount == service = "resources" =>
    db.writes = db.audits + Unfinished + db.unaudited

\* In this step the request writes back record r, which it had read.
WritesBack(w, r) ==
    /\ ~Idle(w) /\ arg'[w] # arg[w]
    /\ r \in DOMAIN arg[w].seen
    /\ db'.written[r] # db.written[r] /\ db'.rows[r] # None

\* Lost updates need an overlap: a write whose record nobody has written since
\* it was read changes exactly the fields that it was asked to change and
\* brings no deleted record back.
LoneUpdateExact == [][service = "resources" => \A w \in Workers, r \in Records :
    WritesBack(w, r) /\ arg[w].at[r] = db.written[r] =>
        /\ ResourceExists(r)
        /\ \A f \in Fields : db'.rows[r][f] =
              IF f \in DOMAIN arg[w].payload THEN arg[w].payload[f] ELSE db.rows[r][f]]_vars
=============================================================================
