------------------------------- MODULE Tenants -------------------------------
(***************************************************************************)
(* The tenant registry: legacy school registrations, their review, and the *)
(* resolution of the tenant of every gateway request.  A review checks the *)
(* school's status first and then changes it in a transaction that does    *)
(* not look at the status again.  A school is named by its slug, which is  *)
(* unique.                                                                 *)
(***************************************************************************)
EXTENDS Requests

CONSTANTS
    Slugs,
    MaxReviews      \* bound: reviews of each school

ASSUME MaxReviewsType == MaxReviews \in Nat

TenantTables == [
    schools |-> [s \in Slugs |-> None],     \* institution_profiles
    reviews |-> [s \in Slugs |-> <<>>],     \* audit events of its reviews
    announced |-> {},       \* school.registration.submitted
    tenancies |-> {}]       \* tenants that a request was let through for

Registered(s) == db.schools[s] # None

Taken == {"pending_review", "approved", "suspended"}

SchoolRows == [status : Taken \cup {"rejected"}, setupProgress : {10, 30}, approvedAt : BOOLEAN]

ASSUME NoneIsNoSchool == None \notin SchoolRows

\* A request about school s.
SchoolRequest(w, steps, s, action) ==
    /\ Take("tenants", w, steps, [id |-> s, action |-> action, at |-> 0])
    /\ UNCHANGED db

registerSchool(w) == \E s \in Slugs :
    SchoolRequest(w, <<"findSlug", "createSchool", "announceSchool">>, s, None)

\* findInstitutionBySlug: the slug of a rejected school passes here, and fails
\* at the insert.
FindSlug(w) ==
    /\ At(w, "findSlug")
    /\ Registered(arg[w].id) => db.schools[arg[w].id].status \notin Taken
    /\ Proceed(w)
    /\ UNCHANGED db

\* createSchoolRegistration, one transaction; the slug is unique.
CreateSchool(w) ==
    /\ At(w, "createSchool")
    /\ ~Registered(arg[w].id)
    /\ db' = [db EXCEPT !.schools[arg[w].id] =
          [status |-> "pending_review", setupProgress |-> 10, approvedAt |-> FALSE]]
    /\ Proceed(w)

\* tryPublishDomainEvent
AnnounceSchool(w) ==
    /\ At(w, "announceSchool")
    /\ Proceed(w)
    /\ db' \in {db, [db EXCEPT !.announced = @ \cup {arg[w].id}]}

-----------------------------------------------------------------------------
(* Review *)

\* Mutation: a rejection is allowed as long as the school is not suspended.
allowedWide == [
    approve |-> {"pending_review", "rejected"},
    reject |-> {"pending_review", "approved"},
    suspend |-> {"approved"},
    reactivate |-> {"suspended"}]

allowed == [
    approve |-> {"pending_review", "rejected"},
    reject |-> {"pending_review"},
    suspend |-> {"approved"},
    reactivate |-> {"suspended"}]

reviewSchool(w) == \E s \in Slugs, action \in DOMAIN allowed :
    SchoolRequest(w, <<"checkReview", "transition">>, s, action)

\* assertTransitionAllowed
CheckReview(w) ==
    /\ At(w, "checkReview")
    /\ Registered(arg[w].id)
    /\ db.schools[arg[w].id].status \in allowed[arg[w].action]
    /\ ProceedWith(w, [arg[w] EXCEPT !.at = Len(db.reviews[arg[w].id])])
    /\ UNCHANGED db

\* Mutation: an approval leaves the setup progress of the registration.
reviewedKeepingProgress(school, action) ==
    CASE action = "approve" -> [school EXCEPT !.status = "approved", !.approvedAt = TRUE]
      [] action = "reject" -> [school EXCEPT !.status = "rejected"]
      [] action = "suspend" -> [school EXCEPT !.status = "suspended"]
      [] action = "reactivate" -> [school EXCEPT !.status = "approved"]

\* getReviewUpdateData
reviewed(school, action) ==
    CASE action = "approve" -> [status |-> "approved", setupProgress |-> 30, approvedAt |-> TRUE]
      [] action = "reject" -> [school EXCEPT !.status = "rejected"]
      [] action = "suspend" -> [school EXCEPT !.status = "suspended"]
      [] action = "reactivate" -> [school EXCEPT !.status = "approved"]

\* Mutation: the audit event is not in the transaction, and may fail.
TransitionUnaudited(w) ==
    /\ At(w, "transition")
    /\ Len(db.reviews[arg[w].id]) < MaxReviews
    /\ LET done == [db EXCEPT !.schools[arg[w].id] = reviewed(@, arg[w].action)]
       IN  db' \in {done, [done EXCEPT !.reviews[arg[w].id] = Append(@, arg[w].action)]}
    /\ Proceed(w)

\* transitionPlatformSchool: the update, by id alone, and its audit event in
\* one transaction.
Transition(w) ==
    /\ At(w, "transition")
    /\ Len(db.reviews[arg[w].id]) < MaxReviews
    /\ db' = [db EXCEPT !.schools[arg[w].id] = reviewed(@, arg[w].action),
                        !.reviews[arg[w].id] = Append(@, arg[w].action)]
    /\ Proceed(w)

-----------------------------------------------------------------------------
(* Resolution *)

\* A request of a tenant reaches the gateway.
tenantRequest(w) == \E s \in Slugs :
    SchoolRequest(w, <<"resolve", "serveTenant">>, s, None)

ACTIVE_TENANT_STATUSES == {"approved", "active"}

\* TenantResolutionService.resolveTenantContext
ResolveTenant(w) ==
    /\ At(w, "resolve")
    /\ Registered(arg[w].id)
    /\ db.schools[arg[w].id].status \in ACTIVE_TENANT_STATUSES
    /\ Proceed(w)
    /\ UNCHANGED db

\* The middleware lets the request through; by now the school may be suspended.
ServeTenant(w) ==
    /\ At(w, "serveTenant")
    /\ db' = [db EXCEPT !.tenancies = @ \cup {arg[w].id}]
    /\ Proceed(w)

TenantsInit == Start("tenants", {}, TenantTables)

TenantsNext == \E w \in Workers :
    \/ registerSchool(w) \/ FindSlug(w) \/ CreateSchool(w) \/ AnnounceSchool(w)
    \/ reviewSchool(w) \/ CheckReview(w) \/ Transition(w)
    \/ tenantRequest(w) \/ ResolveTenant(w) \/ ServeTenant(w)
    \/ service = "tenants" /\ Fail(w)

\* What the public pages find: searchApprovedInstitutions and
\* findApprovedInstitutionBySlug.
publicSchools == {s \in Slugs : Registered(s) /\ db.schools[s].status = "approved"}

TenantTablesOK == \A s \in Slugs : Registered(s) =>
    /\ db.schools[s] \in SchoolRows
    /\ db.schools[s].approvedAt <=> db.schools[s].setupProgress = 30

\* What a review audit says that it made of the school.
Outcome == [approve |-> "approved", reject |-> "rejected", suspend |-> "suspended", reactivate |-> "approved"]

\* However reviews overlap, the audit trail of a school ends with the review
\* that gave it its status, a school that was never reviewed is pending, and
\* nobody is served for, or finds, a school that no review approved.
ReviewTrail == service = "tenants" =>
    /\ \A s \in Slugs : Registered(s) =>
          db.schools[s].status = IF db.reviews[s] = <<>> THEN "pending_review"
                                 ELSE Outcome[db.reviews[s][Len(db.reviews[s])]]
    /\ \A s \in publicSchools \cup db.tenancies :
          \E i \in 1 .. Len(db.reviews[s]) : Outcome[db.reviews[s][i]] = "approved"

\* Forbidden transitions need an overlap: a review that no other one came in
\* between follows the life cycle of a school.
LoneReviewAllowed == [][service = "tenants" => \A w \in Workers :
    At(w, "transition") /\ db' # db /\ todo'[w] # todo[w]
      /\ arg[w].at = Len(db.reviews[arg[w].id]) =>
        <<db.schools[arg[w].id].status, db'.schools[arg[w].id].status>> \in
            {<<"pending_review", "approved">>, <<"rejected", "approved">>, <<"pending_review", "rejected">>,
             <<"approved", "suspended">>, <<"suspended", "approved">>}]_vars
=============================================================================
