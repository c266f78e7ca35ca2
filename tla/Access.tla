-------------------------------- MODULE Access --------------------------------
(***************************************************************************)
(* Who a request acts for.  An account logs in and gets a token with one   *)
(* role and one school, taken from the rows of four tables; a request then *)
(* names its school by host, by header and by token, and those have to     *)
(* agree.  Owner activations, memberships and the review of schools change *)
(* the tables meanwhile, and a token stays as it was signed.               *)
(***************************************************************************)
EXTENDS Requests

CONSTANTS
    Emails,
    Campuses,       \* schools: institution_profiles rows, by id or by slug
    MaxTokens       \* bound: tokens that are signed

ASSUME MaxTokensType == MaxTokens \in Nat

AccessTables == [
    accounts |-> {},                        \* portal_accounts
    superAdmins |-> {},                     \* super_admins
    owners |-> [e \in Emails |-> None],     \* school_owner_accounts: the school of each
    members |-> [e \in Emails |-> [s \in Campuses |-> None]], \* active memberships: their role
    open |-> Campuses,                      \* schools whose status is approved or active
    tokens |-> {}]

Platform == "super_admin"

-----------------------------------------------------------------------------
(* Accounts *)

\* AuthController.signUp
signUp(w) == service = "access" /\ \E e \in Emails :
    /\ Take("access", w, <<"findAccount", "insertAccount", "insertSuperAdmin">>, e)
    /\ UNCHANGED db

\* findAccountByEmail: an account of that email is a conflict.
FindAccount(w) ==
    /\ At(w, "findAccount")
    /\ IF arg[w] \in db.accounts THEN Answer(w) ELSE Proceed(w)
    /\ UNCHANGED db

\* createPortalAccount; the email is unique.
InsertAccount(w) ==
    /\ At(w, "insertAccount")
    /\ arg[w] \notin db.accounts
    /\ db' = [db EXCEPT !.accounts = @ \cup {arg[w]}]
    /\ Proceed(w)

\* Its second statement, whose error is dropped.
InsertSuperAdmin(w) ==
    /\ At(w, "insertSuperAdmin")
    /\ db' \in {db, [db EXCEPT !.superAdmins = @ \cup {arg[w]}]}
    /\ Proceed(w)

\* The schools of the rows that the account joins with: a left join.
joined(e) ==
    LET schools == {s \in Campuses : db.members[e][s] # None}
    IN  IF schools = {} THEN {None} ELSE schools

\* coalesce(sa.role, soa.role, tum.role, 'super_admin')
roleOf(e, s) ==
    CASE e \in db.superAdmins -> Platform
      [] e \notin db.superAdmins /\ db.owners[e] # None -> "school_owner"
      [] e \notin db.superAdmins /\ db.owners[e] = None /\ s # None -> db.members[e][s]
      [] OTHER -> Platform

\* Mutation: the school of the membership comes first.
institutionOfMember(e, s) == IF s # None THEN s ELSE db.owners[e]

\* coalesce(soa.institution_id, tum.institution_id)
institutionOf(e, s) == IF db.owners[e] # None THEN db.owners[e] ELSE s

\* What an account may do, and where, by the tables as they are.
Grants(e) ==
    {<<db.members[e][s], s>> : s \in {s \in Campuses : db.members[e][s] # None}}
        \cup (IF db.owners[e] = None THEN {} ELSE {<<"school_owner", db.owners[e]>>})

\* AuthService.login: the query has one row for each membership and takes the
\* first, whichever it is.
login(w) ==
    /\ Serve("access", w)
    /\ Cardinality(db.tokens) < MaxTokens
    /\ \E e \in db.accounts : \E s \in joined(e) :
          db' = [db EXCEPT !.tokens = @ \cup
              {[role |-> roleOf(e, s), school |-> institutionOf(e, s), grants |-> Grants(e)]}]

-----------------------------------------------------------------------------
(* What other services write *)

Elsewhere(tables) ==
    /\ service = "access"
    /\ db' = tables
    /\ UNCHANGED <<service, configured, todo, arg>>

\* An activation inserts the account and the owner in one transaction.
ActivateOwner == \E e \in Emails \ db.accounts, s \in Campuses :
    /\ db.owners[e] = None
    /\ Elsewhere([db EXCEPT !.accounts = @ \cup {e}, !.owners[e] = s])

\* Memberships begin, change their role and end.
ChangeMembership == \E e \in Emails, s \in Campuses, role \in {"professor", None} :
    Elsewhere([db EXCEPT !.members[e][s] = role])

\* A review opens or closes a school.
ReviewCampus == \E s \in Campuses :
    Elsewhere([db EXCEPT !.open = IF s \in @ THEN @ \ {s} ELSE @ \cup {s}])

-----------------------------------------------------------------------------
(* Requests *)

\* The roles that the controllers let in: for students, for professors, for
\* the school's administration and for the platform.
SCHOOL_ADMIN_ROLES == {"school_owner", "school_admin", "registrar", Platform}
AllowedRoles == {{"student", Platform}, {"professor", Platform}, SCHOOL_ADMIN_ROLES, {Platform}}

\* A request as the middleware's resolveTenantContext reads it.  It names a
\* school by id in a header, or by slug in a header or its host, or it is for
\* the platform: health checks always are, other paths without a slug.
\* Bound: one such request at a time, for they write nothing.
routeRequest(w) == service = "access" /\ \E token \in db.tokens, roles \in AllowedRoles,
                        id, slug \in Campuses \cup {None}, platform \in BOOLEAN :
    /\ Take("access", w, <<"resolveTenant", "authorize", "act">>,
           [token |-> token, roles |-> roles, id |-> id, slug |-> slug, context |-> None, acts |-> None,
            platform |-> platform])
    /\ platform => slug = None
    /\ \A v \in Workers : Idle(v) \/ arg[v] \in Emails
    /\ UNCHANGED db

\* findInstitutionForTenant: the row of the slug and of the id.
institutionsFor(request) ==
    {s \in Campuses : (request.slug # None => s = request.slug) /\ (request.id # None => s = request.id)}

\* TenantResolutionService.resolveTenantContext
ResolveContext(w) ==
    /\ At(w, "resolveTenant")
    /\ IF arg[w].platform \/ (arg[w].slug = None /\ arg[w].id = None)
       THEN Proceed(w)
       ELSE \E s \in institutionsFor(arg[w]) \cap db.open :
                ProceedWith(w, [arg[w] EXCEPT !.context = s])
    /\ UNCHANGED db

\* authorizeRoute, with the identity headers that belong to the token; the
\* school administration acts on the token's school, others on the header's.
authorizeRoute(w) ==
    /\ At(w, "authorize")
    /\ arg[w].token.role \in arg[w].roles
    /\ arg[w].token.school # None /\ arg[w].id # None => arg[w].token.school = arg[w].id
    /\ ProceedWith(w, [arg[w] EXCEPT !.acts =
           IF arg[w].roles = SCHOOL_ADMIN_ROLES /\ arg[w].token.school # None
           THEN arg[w].token.school ELSE arg[w].id])
    /\ UNCHANGED db

Act(w) ==
    /\ At(w, "act")
    /\ Proceed(w)
    /\ UNCHANGED db

AccessInit == Start("access", {}, AccessTables)

AccessNext ==
    \/ ActivateOwner \/ ChangeMembership \/ ReviewCampus
    \/ \E w \in Workers :
        \/ signUp(w) \/ FindAccount(w) \/ InsertAccount(w) \/ InsertSuperAdmin(w)
        \/ login(w) \/ routeRequest(w) \/ ResolveContext(w) \/ authorizeRoute(w) \/ Act(w)
        \/ service = "access" /\ Fail(w)

\* Whichever rows the login's joins put together and whatever changes between
\* login and request, a request acts on a school only by a role that its
\* account had in that very school when it logged in, unless it is the
\* platform's; and when it names a school by id, that school is the one that it
\* was resolved to and the one it acts on.
ActsByGrant == service = "access" => \A w \in Workers : At(w, "act") =>
    LET request == arg[w]
    IN  /\ request.acts # None /\ request.token.role # Platform =>
              <<request.token.role, request.acts>> \in request.token.grants
        /\ request.id # None => request.acts = request.id
        /\ request.context # None /\ request.id # None => request.context = request.acts
        /\ request.slug # None => request.context = request.slug
=============================================================================
