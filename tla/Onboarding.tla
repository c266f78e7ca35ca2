----------------------------- MODULE Onboarding -----------------------------
(***************************************************************************)
(* School onboarding on the platform: a school registers under a slug, the *)
(* platform reviews it, and the owner activates an account.  The tables    *)
(* of the tenant registry are written in transactions that wait for each   *)
(* other's row locks (PostgreSQL, READ COMMITTED); the owner's account is  *)
(* in the identity database, which commits on its own in the middle of the *)
(* activation.                                                             *)
(***************************************************************************)
EXTENDS Naturals, FiniteSets

CONSTANTS
    Schools,    \* valid registration forms: each is one school id
    Slug,       \* target_subdomain of each form, after normalizeSlug
    Email,      \* contact email of each form
    Workers,    \* requests that can be in flight at the same time
    None        \* no request

ASSUME SlugType == Schools \subseteq DOMAIN Slug
ASSUME EmailType == Schools \subseteq DOMAIN Email

VARIABLES
    profiles,     \* institution_profiles: status and setup_progress of each school
    progress,     \* onboarding_progress.progress of each school
    invitations,  \* school_owner_invitations.status of each school
    accounts,     \* identity database: <<email, school>> owner accounts
    locks,        \* <<table, school, request>> row locks
    pc,           \* where each request stands
    school,       \* the school that the request is about
    action        \* what a review request does

vars == <<profiles, progress, invitations, accounts, locks, pc, school, action>>
registry == <<profiles, progress, invitations>>
request == <<school, action>>

\* The four review operations: the status they set, and progressForStep of
\* the onboarding step they set.
reviewStatus ==
    [approve |-> "approved", reject |-> "rejected",
     suspend |-> "suspended", reactivate |-> "approved"]
progressForStep == [approve |-> 40, reject |-> 20, suspend |-> 0, reactivate |-> 40]
OwnerProgress == 60     \* progressForStep('owner_account_created')

Reviews == DOMAIN reviewStatus
ASSUME NoneType == None \notin Schools \cup Reviews

Statuses == {"pending_review", "approved", "rejected", "suspended"}
Tables == {"invitation", "progress", "profile"}
Idle == {"idle", "ok", "refused", "failed"}

\* The row that a request waits for in each step that takes a lock.
LockStep ==
    [reviewProfile |-> "profile", reviewProgress |-> "progress",
     takeInvitation |-> "invitation", ownerProgress |-> "progress",
     ownerProfile |-> "profile"]
InFlight ==
    DOMAIN LockStep \cup {"checkSlug", "createBundle", "notify", "commitReview", "findSchool",
                          "findInvitation", "createAccount", "commitOwner"}

Registered == DOMAIN profiles

TypeOK ==
    /\ Registered \subseteq Schools
    /\ profiles \in [Registered -> [status : Statuses, setup : {0, 20, 40, 60}]]
    /\ progress \in [Registered -> {0, 10, 20, 40, 60}]
    /\ invitations \in [Registered -> {"pending", "accepted"}]
    /\ accounts \subseteq {<<Email[s], s>> : s \in Schools}
    /\ locks \subseteq Tables \X Schools \X Workers
    /\ pc \in [Workers -> Idle \cup InFlight]
    /\ school \in [Workers -> Schools \cup {None}]
    /\ action \in [Workers -> Reviews \cup {None}]
    /\ \A w \in Workers : pc[w] \in InFlight <=> school[w] # None

Init ==
    /\ profiles = <<>>
    /\ progress = <<>>
    /\ invitations = <<>>
    /\ accounts = {}
    /\ locks = {}
    /\ pc = [w \in Workers |-> "idle"]
    /\ school = [w \in Workers |-> None]
    /\ action = [w \in Workers |-> None]

\* A table with a row more, or with one row changed.
Put(table, s, row) == [t \in DOMAIN table \cup {s} |-> IF t = s THEN row ELSE table[t]]

Greatest(m, n) == IF m >= n THEN m ELSE n

\* The requests that w waits for: they hold the row that w wants next.
Blockers(w) ==
    IF pc[w] \in DOMAIN LockStep
    THEN {v \in Workers \ {w} : <<LockStep[pc[w]], school[w], v>> \in locks}
    ELSE {}

\* The handler goes on with its next statement.
Goto(w, step) == pc' = [pc EXCEPT ![w] = step] /\ UNCHANGED request

\* A request arrives.
Arrive(w, s, a, step) ==
    /\ pc[w] \in Idle
    /\ pc' = [pc EXCEPT ![w] = step]
    /\ school' = [school EXCEPT ![w] = s]
    /\ action' = [action EXCEPT ![w] = a]
    /\ UNCHANGED <<registry, accounts, locks>>

\* The request ends: "refused" is a NotFound or Conflict answer, "failed" any
\* other error or no answer at all.
Answer(w, answer) ==
    /\ pc' = [pc EXCEPT ![w] = answer]
    /\ school' = [school EXCEPT ![w] = None]
    /\ action' = [action EXCEPT ![w] = None]

\* The request locks the row it waits for and goes to the next statement.
Lock(w, step) ==
    /\ Blockers(w) = {}
    /\ locks' = locks \cup {<<LockStep[pc[w]], school[w], w>>}
    /\ Goto(w, step)
    /\ UNCHANGED <<registry, accounts>>

\* Commit and rollback release the locks of the request.
Release(w) == locks' = {l \in locks : l[3] # w}

\* Mutation: the client goes back to the pool without a rollback.
AbortKeepingLocks(w, answer) ==
    /\ Answer(w, answer)
    /\ UNCHANGED <<registry, accounts, locks>>

\* The handler throws after a rollback.
Abort(w, answer) ==
    /\ Release(w)
    /\ Answer(w, answer)
    /\ UNCHANGED <<registry, accounts>>

-----------------------------------------------------------------------------

\* POST /schools/register with a valid form.
Register(w, s) ==
    /\ s \notin Registered
    /\ ~\E v \in Workers : school[v] = s /\ pc[v] \in {"checkSlug", "createBundle"}
    /\ Arrive(w, s, None, "checkSlug")

\* The slugs that findBySlug finds, for the availability page as well.
VisibleSlugs ==
    {Slug[s] : s \in {t \in Registered :
        profiles[t].status \in {"pending_review", "approved", "suspended"}}}

CheckSlug(w) ==
    /\ pc[w] = "checkSlug"
    /\ IF Slug[school[w]] \in VisibleSlugs
       THEN Answer(w, "refused") ELSE Goto(w, "createBundle")
    /\ UNCHANGED <<registry, accounts, locks>>

\* One transaction writes the school, its progress, its invitation and an audit
\* event.  The slug is unique over all schools, the rejected ones included.
\* The answer to the commit may be lost.
CreateBundle(w) ==
    LET s == school[w] IN
    /\ pc[w] = "createBundle"
    /\ IF Slug[s] \in {Slug[t] : t \in Registered}
       THEN Answer(w, "failed") /\ UNCHANGED registry
       ELSE /\ profiles' = Put(profiles, s, [status |-> "pending_review", setup |-> 0])
            /\ progress' = Put(progress, s, 10)
            /\ invitations' = Put(invitations, s, "pending")
            /\ Goto(w, "notify") \/ Answer(w, "failed")
    /\ UNCHANGED <<accounts, locks>>

\* The confirmation email, whose error is not caught, and the event, whose
\* error is.
Notify(w) ==
    /\ pc[w] = "notify"
    /\ \E answer \in {"ok", "failed"} : Answer(w, answer)
    /\ UNCHANGED <<registry, accounts, locks>>

-----------------------------------------------------------------------------

\* POST /platform/schools/:id/{approve,reject,suspend,reactivate}.
Review(w, s, a) == Arrive(w, s, a, "findSchool")

FindSchool(w) ==
    /\ pc[w] = "findSchool"
    /\ IF school[w] \in Registered THEN Goto(w, "reviewProfile") ELSE Answer(w, "refused")
    /\ UNCHANGED <<registry, accounts, locks>>

\* update institution_profiles, then update onboarding_progress: each waits for
\* the row.  The writes are seen by others when the transaction commits.
ReviewProfile(w) == pc[w] = "reviewProfile" /\ Lock(w, "reviewProgress")
ReviewProgress(w) == pc[w] = "reviewProgress" /\ Lock(w, "commitReview")

\* Mutation: setup_progress follows the step instead of growing.
reviewedResetting(row, a) == [status |-> reviewStatus[a], setup |-> progressForStep[a]]

\* Mutation: the steps are added up.
reviewedAdding(row, a) ==
    [status |-> reviewStatus[a], setup |-> row.setup + progressForStep[a]]

\* A review sets the status whatever the status was; setup_progress only grows.
reviewed(row, a) ==
    [status |-> reviewStatus[a], setup |-> Greatest(row.setup, progressForStep[a])]

CommitReview(w) ==
    LET s == school[w] IN
    /\ pc[w] = "commitReview"
    /\ profiles' = Put(profiles, s, reviewed(profiles[s], action[w]))
    /\ progress' = Put(progress, s, progressForStep[action[w]])
    /\ Release(w)
    /\ \E answer \in {"ok", "failed"} : Answer(w, answer)
    /\ UNCHANGED <<invitations, accounts>>

-----------------------------------------------------------------------------

\* POST /schools/activate-owner with the token of the school's invitation.
Activate(w, s) == Arrive(w, s, None, "findInvitation")

\* The invitation must be pending; whether its 14 days are over is left open.
FindInvitation(w) ==
    LET s == school[w] IN
    /\ pc[w] = "findInvitation"
    /\ \/ s \in Registered /\ invitations[s] = "pending" /\ Goto(w, "takeInvitation")
       \/ Answer(w, "refused")
    /\ UNCHANGED <<registry, accounts, locks>>

\* Mutation: the token is read and checked, but the row is not taken.
TakeInvitationUnlocked(w) ==
    /\ pc[w] = "takeInvitation"
    /\ IF invitations[school[w]] = "pending" THEN Goto(w, "createAccount")
                                           ELSE Answer(w, "refused")
    /\ UNCHANGED <<registry, accounts, locks>>

\* update school_owner_invitations ... where status = 'pending': a request that
\* waited for the row looks at the status again.
TakeInvitation(w) ==
    /\ pc[w] = "takeInvitation"
    /\ \/ invitations[school[w]] = "pending" /\ Lock(w, "createAccount")
       \/ /\ invitations[school[w]] # "pending" /\ Blockers(w) = {}
          /\ Abort(w, "refused")

\* Mutation: the registry commits first, the identity database afterwards.
CreateAccountLast(w) ==
    /\ pc[w] = "createAccount"
    /\ Goto(w, "ownerProgress")
    /\ UNCHANGED <<registry, accounts, locks>>

\* The identity database inserts the account, unique by email, and commits.
\* If the answer is lost the account stays and the request fails.
CreateAccount(w) ==
    LET account == <<Email[school[w]], school[w]>> IN
    /\ pc[w] = "createAccount"
    /\ IF \E a \in accounts : a[1] = account[1]
       THEN Abort(w, "failed")
       ELSE /\ accounts' = accounts \cup {account}
            /\ \/ Goto(w, "ownerProgress") /\ UNCHANGED locks
               \/ Answer(w, "failed") /\ Release(w)
            /\ UNCHANGED registry

\* update onboarding_progress, then update institution_profiles: the other way
\* round than a review.
OwnerProgressRow(w) == pc[w] = "ownerProgress" /\ Lock(w, "ownerProfile")
OwnerProfileRow(w) == pc[w] = "ownerProfile" /\ Lock(w, "commitOwner")

CommitOwner(w) ==
    LET s == school[w] IN
    /\ pc[w] = "commitOwner"
    /\ invitations' = Put(invitations, s, "accepted")
    /\ progress' = Put(progress, s, Greatest(progress[s], OwnerProgress))
    /\ profiles' = Put(profiles, s, [profiles[s] EXCEPT !.setup = Greatest(@, OwnerProgress)])
    /\ Release(w)
    /\ \E answer \in {"ok", "failed"} : Answer(w, answer)
    /\ UNCHANGED accounts

-----------------------------------------------------------------------------

\* PostgreSQL breaks a cycle of transactions that wait for each other by an
\* error in one of them.
BreakDeadlock(w) ==
    /\ \E v \in Blockers(w) : w \in Blockers(v)
    /\ Abort(w, "failed")

\* A statement fails, or the process stops: open transactions roll back.
Fail(w) ==
    /\ pc[w] \in InFlight
    /\ Abort(w, "failed")

\* What the servers do for a request that has arrived.
Serve(w) ==
    \/ CheckSlug(w) \/ CreateBundle(w) \/ Notify(w)
    \/ FindSchool(w) \/ ReviewProfile(w) \/ ReviewProgress(w) \/ CommitReview(w)
    \/ FindInvitation(w) \/ TakeInvitation(w) \/ CreateAccount(w)
    \/ OwnerProgressRow(w) \/ OwnerProfileRow(w) \/ CommitOwner(w)

Next ==
    \E w \in Workers :
        \/ \E s \in Schools : Register(w, s) \/ Activate(w, s)
        \/ \E s \in Schools, a \in Reviews : Review(w, s, a)
        \/ Serve(w)
        \/ BreakDeadlock(w)
        \/ Fail(w)

Spec == Init /\ [][Next]_vars

\* Handlers resume when their query is answered, and the deadlock detector
\* runs.  A row lock is given to its waiters in turn, so a step that can be
\* taken again and again is taken.
FairSpec ==
    Spec /\ \A w \in Workers : SF_vars(Serve(w)) /\ WF_vars(BreakDeadlock(w))

-----------------------------------------------------------------------------

\* Whatever fails between the two commits of acceptOwnerInvitation, the
\* registry never says "accepted" of a school whose owner cannot log in.
AcceptedHasOwner ==
    \A s \in Registered : invitations[s] = "accepted" => <<Email[s], s>> \in accounts

\* setup_progress of a school is 60 exactly when its invitation was accepted, in
\* whatever order reviews and the activation write it, and the progress of the
\* other table, which a review may lower, never runs ahead of it.
SetupTellsActivation ==
    \A s \in Registered :
        /\ profiles[s].setup = OwnerProgress <=> invitations[s] = "accepted"
        /\ progress[s] <= Greatest(profiles[s].setup, 10)

\* A school is activated by one owner, and no two requests are between taking
\* the invitation and committing it.
OneActivationAtATime ==
    \A v, w \in Workers :
        /\ v # w /\ school[v] = school[w]
        /\ pc[v] \in {"createAccount", "ownerProgress", "ownerProfile", "commitOwner"}
        => pc[w] \notin {"createAccount", "ownerProgress", "ownerProfile", "commitOwner"}

\* No review, activation or failure undoes an accepted invitation or lowers the
\* setup progress that the dashboard shows.
MilestonesKept ==
    [][\A s \in Registered :
          /\ s \in Registered'
          /\ profiles'[s].setup >= profiles[s].setup
          /\ invitations[s] = "accepted" => invitations'[s] = "accepted"]_vars

\* No request waits for ever: transactions that lock the rows of a school in
\* opposite orders are told apart by the deadlock detector.
EveryRequestAnswered == \A w \in Workers : pc[w] \in InFlight ~> pc[w] \in Idle

\* What the service answers for a slug it does not show as taken: the school can
\* be registered.  The unique index disagrees once a school was rejected.
FreeSlugCanBeRegistered ==
    {Slug[s] : s \in Registered} \subseteq VisibleSlugs
=============================================================================
