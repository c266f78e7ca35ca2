---------------------------- MODULE Notifications ----------------------------
(***************************************************************************)
(* In-app notifications and their audit events.  The rows and the audits   *)
(* are written by separate statements; other services call tryCreate as a  *)
(* side effect that must not fail them.  A notice of theirs is named by     *)
(* what it is about, one that the endpoint creates by its profile and a    *)
(* number; its title and body are left out.                                *)
(***************************************************************************)
EXTENDS Requests

CONSTANTS
    Profiles,       \* profiles that the endpoints are called for
    MaxNotices      \* bound: notices created through the endpoint

ASSUME MaxNoticesType == MaxNotices \in Nat

NotificationTables == [
    notices |-> {},         \* in_app_notifications: their names
    unread |-> {},          \* those of them with is_read = false
    noticeAudits |-> {}     \* notification_audit_events: action, notice, and who read it
]

\* The notice of a request: named by the row it works on, or by itself.
NoticeOf(w) == arg[w].id

\* The audit of the request's statement is written, or its error is swallowed.
AuditNotice(w, action) ==
    db' \in {db, [db EXCEPT !.noticeAudits = @ \cup {<<action, NoticeOf(w)>>}]}

InsertNotice(w) ==
    db' = [db EXCEPT !.notices = @ \cup {NoticeOf(w)}, !.unread = @ \cup {NoticeOf(w)}]

\* Mutation: the audit event of a notice is written ahead of its row.
TryInsertNoticeAuditFirst(w) ==
    /\ At(w, "notice")
    /\ GoOn(w, <<"noticeRow">> \o Tail(todo[w]), arg[w])
    /\ AuditNotice(w, "created")

\* tryCreate: the row, then its audit; when the row fails an audit says that
\* it was skipped.
TryInsertNotice(w) ==
    /\ At(w, "notice")
    /\ \/ /\ InsertNotice(w)
          /\ GoOn(w, <<"noticeAudit">> \o Tail(todo[w]), arg[w])
       \/ /\ GoOn(w, <<"noticeSkipped">> \o Tail(todo[w]), arg[w])
          /\ UNCHANGED db

\* The audit of tryCreate.  PostgreSQL's error reaches the catch of tryCreate,
\* which audits the notice as skipped although its row is there; Supabase's
\* is swallowed.
TryAuditNotice(w) ==
    /\ At(w, "noticeAudit")
    /\ \/ /\ Proceed(w)
          /\ db' = [db EXCEPT !.noticeAudits = @ \cup {<<"created", NoticeOf(w)>>}]
       \/ /\ IF usePostgres("notifications")
             THEN GoOn(w, <<"noticeSkipped">> \o Tail(todo[w]), arg[w])
             ELSE Proceed(w)
          /\ UNCHANGED db

AuditSkippedNotice(w) ==
    /\ At(w, "noticeSkipped")
    /\ Proceed(w)
    /\ AuditNotice(w, "skipped")

\* POST /notifications/:profileId: create without the catch.
CreateNotice(w) == \E profile \in Profiles :
    /\ Take("notifications", w, <<"noticeRow", "createdAudit">>, [id |-> None, profile |-> profile])
    /\ UNCHANGED db

\* The row of the profile, with an id that no notice has.
InsertCreatedNotice(w) ==
    LET notice == [profile |-> arg[w].profile, number |-> Cardinality(db.notices) + 1]
    IN  /\ At(w, "noticeRow")
        /\ notice.number <= MaxNotices
        /\ db' = [db EXCEPT !.notices = @ \cup {notice}, !.unread = @ \cup {notice}]
        /\ ProceedWith(w, [arg[w] EXCEPT !.id = notice])

AuditCreatedNotice(w) ==
    /\ At(w, "createdAudit")
    /\ AuditNotice(w, "created")
    /\ Proceed(w)

\* PATCH /notifications/:profileId/:notificationId/read, of any profile's
\* notice or of one (number 0) that is not there.
MarkRead(w) == service = "notifications" /\ \E profile \in Profiles :
    /\ \E notice \in db.notices \cup {[profile |-> profile, number |-> 0]} :
          Take("notifications", w, <<"markRead", "readAudit">>, [id |-> notice, profile |-> profile])
    /\ UNCHANGED db

\* The update is of the profile's own notice only.  When it matches no row
\* Supabase reports an error, and PostgreSQL goes on to the audit.
UpdateRead(w) ==
    LET own == {n \in db.notices : n = NoticeOf(w) /\ n.profile = arg[w].profile}
    IN  /\ At(w, "markRead")
        /\ usePostgres("notifications") \/ own # {}
        /\ db' = [db EXCEPT !.unread = @ \ own]
        /\ Proceed(w)

AuditRead(w) ==
    /\ At(w, "readAudit")
    /\ db' \in {db, [db EXCEPT !.noticeAudits = @ \cup {<<"read", NoticeOf(w), arg[w].profile>>}]}
    /\ Proceed(w)

\* PATCH /notifications/:profileId/read-all: one update, then its audit.
MarkAllRead(w) == service = "notifications" /\ \E profile \in Profiles :
    /\ Take("notifications", w, <<"readAllAudit">>, [id |-> None, profile |-> profile])
    /\ db' = [db EXCEPT !.unread = {n \in @ : n.profile # profile}]

AuditReadAll(w) ==
    /\ At(w, "readAllAudit")
    /\ AuditNotice(w, "readAll")
    /\ Proceed(w)

NotificationsInit == Start("notifications", {"notifications"}, NotificationTables)

NotificationsNext == \E w \in Workers :
    \/ CreateNotice(w) \/ InsertCreatedNotice(w) \/ AuditCreatedNotice(w)
    \/ MarkRead(w) \/ UpdateRead(w) \/ AuditRead(w)
    \/ MarkAllRead(w) \/ AuditReadAll(w)
    \/ TryInsertNotice(w) \/ TryAuditNotice(w) \/ AuditSkippedNotice(w)
    \/ service = "notifications" /\ Fail(w)

NoticeTablesOK ==
    /\ db.unread \subseteq db.notices
    /\ \A a \in db.noticeAudits : a[1] \in {"created", "skipped", "read", "readAll"}

\* The audit trail of notifications tells the truth whatever failed on the
\* way: a notice that is audited as created has its row, and one that its
\* profile is audited to have read is read.  Over PostgreSQL a profile is also
\* audited to have read what is another's or not there at all, which leaves
\* that notice as it was; over Supabase it never is.
NoticeAuditsTrue == "notices" \in DOMAIN db =>
    \A a \in db.noticeAudits :
        /\ a[1] = "created" => a[2] \in db.notices
        /\ a[1] = "read" =>
              LET own == {n \in db.notices : n.profile = a[3]}
              IN  /\ a[2] \in own => a[2] \notin db.unread
                  /\ a[2] \in own \/ usePostgres("notifications")
=============================================================================
