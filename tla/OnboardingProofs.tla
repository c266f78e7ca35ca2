-------------------------- MODULE OnboardingProofs --------------------------
(***************************************************************************)
(* Proofs about Onboarding for every set of schools and every number of    *)
(* requests in flight.  Between the two commits of an activation stands    *)
(* the row lock of the invitation: the invariant says which request holds  *)
(* it in which steps, that a row is locked by one request at a time, and   *)
(* what a request past the first commit may rely on.                       *)
(***************************************************************************)
EXTENDS Onboarding, TLAPS

\* The steps between taking the invitation and committing it.
Activating == {"createAccount", "ownerProgress", "ownerProfile", "commitOwner"}

\* The steps of a review.
Reviewing == {"findSchool", "reviewProfile", "reviewProgress", "commitReview"}

\* The steps of a request that has found its school, or made it.
Found == (Reviewing \ {"findSchool"}) \cup {"notify", "takeInvitation"} \cup Activating

\* What a request knows in each step.
StepFacts ==
    \A w \in Workers :
        /\ pc[w] \in Found => school[w] \in Registered
        /\ pc[w] \in Reviewing => action[w] \in Reviews

\* An activation holds the lock of the invitation until it ends, and past its
\* first commit the account is there.
ActivationFacts ==
    \A w \in Workers : pc[w] \in Activating =>
        /\ <<"invitation", school[w], w>> \in locks
        /\ pc[w] # "createAccount" => <<Email[school[w]], school[w]>> \in accounts

\* A row is locked by one request at a time.
LocksExclusive ==
    \A t \in Tables, s \in Schools, v, w \in Workers :
        <<t, s, v>> \in locks /\ <<t, s, w>> \in locks => v = w

IInv ==
    /\ TypeOK
    /\ StepFacts
    /\ ActivationFacts
    /\ LocksExclusive
    /\ AcceptedHasOwner
    /\ SetupTellsActivation

-----------------------------------------------------------------------------

\* Every review operation has a status and a progress below the owner's.
LEMMA ReviewValues ==
  \A a \in Reviews : /\ reviewStatus[a] \in Statuses
                     /\ progressForStep[a] \in {0, 20, 40}
  BY DEF Reviews, reviewStatus, progressForStep, Statuses

\* Every step that takes a lock is one of a request in flight.
LEMMA LockSteps ==
  /\ DOMAIN LockStep = {"reviewProfile", "reviewProgress", "takeInvitation",
                        "ownerProgress", "ownerProfile"}
  /\ LockStep["reviewProfile"] = "profile" /\ LockStep["reviewProgress"] = "progress"
  /\ LockStep["takeInvitation"] = "invitation"
  /\ LockStep["ownerProgress"] = "progress" /\ LockStep["ownerProfile"] = "profile"
  /\ \A step \in DOMAIN LockStep : LockStep[step] \in Tables
  BY DEF LockStep, Tables

\* What TypeOK says of the requests.
RequestsOK ==
    /\ pc \in [Workers -> Idle \cup InFlight]
    /\ school \in [Workers -> Schools \cup {None}]
    /\ action \in [Workers -> Reviews \cup {None}]
    /\ \A w \in Workers : pc[w] \in InFlight <=> school[w] # None

\* The three ways in which a step moves a request on keep the requests' types
\* and leave all other requests alone.
OnlyRequest(w) ==
    /\ RequestsOK'
    /\ \A v \in Workers \ {w} : pc'[v] = pc[v] /\ school'[v] = school[v] /\ action'[v] = action[v]

\* What a request that goes on leaves alone,
LEMMA GotoEffect ==
  ASSUME RequestsOK, NEW w \in Workers, pc[w] \in InFlight,
         NEW step \in InFlight, Goto(w, step)
  PROVE  /\ OnlyRequest(w)
         /\ pc'[w] = step /\ school'[w] = school[w] /\ action'[w] = action[w]
  BY DEF RequestsOK, Goto, request, OnlyRequest

\* what one that answers does
LEMMA AnswerEffect ==
  ASSUME RequestsOK, NEW w \in Workers, NEW answer \in Idle, Answer(w, answer)
  PROVE  /\ OnlyRequest(w)
         /\ pc'[w] = answer /\ school'[w] = None /\ action'[w] = None
<1>1. answer \notin InFlight
  BY LockSteps DEF Idle, InFlight
<1> QED
  BY <1>1 DEF RequestsOK, Answer, OnlyRequest

\* and what one that arrives does.
LEMMA ArriveEffect ==
  ASSUME RequestsOK, NEW w \in Workers, NEW s \in Schools, NEW a \in Reviews \cup {None},
         NEW step \in InFlight, Arrive(w, s, a, step)
  PROVE  /\ OnlyRequest(w)
         /\ pc'[w] = step /\ school'[w] = s /\ action'[w] = a
         /\ UNCHANGED <<profiles, progress, invitations, accounts, locks>>
<1>1. s # None
  BY NoneType
<1> QED
  BY <1>1 DEF RequestsOK, Arrive, registry, OnlyRequest

\* A request in flight has a school.
LEMMA InFlightHasSchool ==
  ASSUME RequestsOK, NEW w \in Workers, pc[w] \in InFlight
  PROVE  school[w] \in Schools
  BY DEF RequestsOK

\* The steps by name.
LEMMA StepNames ==
  /\ Found \subseteq InFlight /\ Reviewing \subseteq InFlight /\ Activating \subseteq Found
  /\ {"checkSlug", "createBundle", "findInvitation"} \cap (Found \cup Reviewing) = {}
  /\ Idle \cap InFlight = {}
  /\ Reviewing \cap Activating = {} /\ {"notify", "takeInvitation"} \cap (Activating \cup Reviewing) = {}
  /\ {"checkSlug", "createBundle", "findInvitation", "notify", "findSchool"} \subseteq InFlight
  BY LockSteps DEF Found, Reviewing, Activating, InFlight, Idle

-----------------------------------------------------------------------------

\* What every step of a request does: it keeps its request's types and facts,
\* loses no school and no account, and takes or gives back its own locks only.
Progresses(w) ==
    /\ OnlyRequest(w)
    /\ Registered \subseteq Registered' /\ accounts \subseteq accounts'
    /\ pc'[w] \in Found => school'[w] \in Registered'
    /\ pc'[w] \in Reviewing => action'[w] \in Reviews
    /\ pc'[w] \in Activating =>
          /\ <<"invitation", school'[w], w>> \in locks'
          /\ pc'[w] # "createAccount" => <<Email[school'[w]], school'[w]>> \in accounts'
    /\ locks' \subseteq Tables \X Schools \X Workers
    /\ \A t \in Tables, s \in Schools, v \in Workers \ {w} :
          <<t, s, v>> \in locks' <=> <<t, s, v>> \in locks
    /\ \A t \in Tables, s \in Schools, v \in Workers \ {w} :
          <<t, s, w>> \in locks' /\ <<t, s, w>> \notin locks => <<t, s, v>> \notin locks

\* Such a step keeps what the requests know and hold.
LEMMA ProgressKeeps ==
  ASSUME IInv, NEW w \in Workers, Progresses(w)
  PROVE  StepFacts' /\ ActivationFacts' /\ LocksExclusive'
<1>1. StepFacts'
  BY DEF IInv, StepFacts, Progresses, OnlyRequest
<1>2. ActivationFacts'
  <2> SUFFICES ASSUME NEW v \in Workers, pc'[v] \in Activating
               PROVE  /\ <<"invitation", school'[v], v>> \in locks'
                      /\ pc'[v] # "createAccount" => <<Email[school'[v]], school'[v]>> \in accounts'
    BY DEF ActivationFacts
  <2>1. CASE v = w
    BY <2>1 DEF Progresses
  <2>2. CASE v # w
    <3>1. pc'[v] = pc[v] /\ school'[v] = school[v]
      BY <2>2 DEF Progresses, OnlyRequest
    <3>2. school[v] \in Schools
      BY <3>1, StepNames, InFlightHasSchool DEF IInv, TypeOK, RequestsOK
    <3>3. <<"invitation", school[v], v>> \in locks
      BY <3>1 DEF IInv, ActivationFacts
    <3> QED
      BY <2>2, <3>1, <3>2, <3>3 DEF Progresses, Tables, IInv, ActivationFacts
  <2> QED
    BY <2>1, <2>2
<1>3. LocksExclusive'
  <2> SUFFICES ASSUME NEW t \in Tables, NEW s \in Schools, NEW u \in Workers, NEW v \in Workers,
                      <<t, s, u>> \in locks', <<t, s, v>> \in locks', u # v
               PROVE  FALSE
    BY DEF LocksExclusive
  <2>1. CASE u # w /\ v # w
    BY <2>1 DEF Progresses, IInv, LocksExclusive
  <2>2. CASE u = w
    BY <2>2 DEF Progresses, IInv, LocksExclusive
  <2>3. CASE v = w
    BY <2>3 DEF Progresses, IInv, LocksExclusive
  <2> QED
    BY <2>1, <2>2, <2>3
<1> QED
  BY <1>1, <1>2, <1>3

\* What may become of the tables: their types, the two invariants about them,
\* and the milestones of every school.
Milestones ==
    \A s \in Registered :
        /\ s \in Registered'
        /\ profiles'[s].setup >= profiles[s].setup
        /\ invitations[s] = "accepted" => invitations'[s] = "accepted"

RegistryOK ==
    /\ Registered \subseteq Schools
    /\ profiles \in [Registered -> [status : Statuses, setup : {0, 20, 40, 60}]]
    /\ progress \in [Registered -> {0, 10, 20, 40, 60}]
    /\ invitations \in [Registered -> {"pending", "accepted"}]
    /\ accounts \subseteq {<<Email[s], s>> : s \in Schools}

TablesStep == RegistryOK' /\ AcceptedHasOwner' /\ SetupTellsActivation' /\ Milestones

\* A step that writes no table of the registry and loses no account.
LEMMA TablesAlone ==
  ASSUME IInv, UNCHANGED <<profiles, progress, invitations>>, accounts \subseteq accounts',
         accounts' \subseteq {<<Email[s], s>> : s \in Schools}
  PROVE  TablesStep /\ Registered' = Registered
<1>1. Registered' = Registered
  BY DEF Registered
<1>2. RegistryOK' /\ SetupTellsActivation'
  BY <1>1 DEF IInv, TypeOK, RegistryOK, SetupTellsActivation
<1>3. AcceptedHasOwner'
  BY <1>1 DEF IInv, AcceptedHasOwner
<1>4. Milestones
  BY <1>1 DEF IInv, TypeOK, Milestones
<1> QED
  BY <1>1, <1>2, <1>3, <1>4 DEF TablesStep

-----------------------------------------------------------------------------

\* A request arrives at a step where it has found no school yet.
LEMMA ArriveStep ==
  ASSUME IInv, NEW w \in Workers, NEW s \in Schools,
         NEW a \in Reviews \cup {None}, NEW step \in {"checkSlug", "findSchool", "findInvitation"},
         step = "findSchool" => a \in Reviews, Arrive(w, s, a, step)
  PROVE  Progresses(w) /\ TablesStep
<1>1. RequestsOK /\ step \in InFlight /\ step \notin Found
  BY StepNames DEF IInv, TypeOK, RequestsOK, Found, Reviewing, Activating
<1>2. /\ OnlyRequest(w) /\ pc'[w] = step /\ action'[w] = a
      /\ UNCHANGED <<profiles, progress, invitations, accounts, locks>>
  BY <1>1, ArriveEffect
<1>3. TablesStep /\ Registered' = Registered
  BY <1>2, TablesAlone DEF IInv, TypeOK
<1>4. step \in Reviewing => a \in Reviews
  BY DEF Reviewing
<1> QED
  BY <1>1, <1>2, <1>3, <1>4, StepNames DEF Progresses, IInv, TypeOK

\* A request that goes on and writes nothing but its position.
LEMMA GotoStep ==
  ASSUME IInv, NEW w \in Workers, pc[w] \in InFlight, NEW step \in InFlight, Goto(w, step),
         UNCHANGED <<profiles, progress, invitations, accounts, locks>>,
         step \in Found => school[w] \in Registered,
         step \in Reviewing => action[w] \in Reviews,
         step \notin Activating
  PROVE  Progresses(w) /\ TablesStep
<1>1. /\ OnlyRequest(w)
      /\ pc'[w] = step /\ school'[w] = school[w] /\ action'[w] = action[w]
  BY GotoEffect DEF IInv, TypeOK, RequestsOK
<1>2. TablesStep /\ Registered' = Registered
  BY TablesAlone DEF IInv, TypeOK
<1> QED
  BY <1>1, <1>2 DEF Progresses, IInv, TypeOK

\* A request that ends, with or without giving back its locks.
LEMMA AnswerStep ==
  ASSUME IInv, NEW w \in Workers, NEW answer \in Idle, Answer(w, answer),
         locks' = locks \/ Release(w), TablesStep, Registered \subseteq Registered',
         accounts \subseteq accounts'
  PROVE  Progresses(w)
<1>1. OnlyRequest(w) /\ pc'[w] = answer
  BY AnswerEffect DEF IInv, TypeOK, RequestsOK
<1>2. answer \notin Found \cup Reviewing \cup Activating
  BY StepNames
<1>3. /\ locks' \subseteq locks
      /\ \A t \in Tables, s \in Schools, v \in Workers \ {w} :
            <<t, s, v>> \in locks' <=> <<t, s, v>> \in locks
  BY DEF Release
<1>4. locks \subseteq Tables \X Schools \X Workers
  BY DEF IInv, TypeOK
<1> QED
  BY <1>1, <1>2, <1>3, <1>4 DEF Progresses

\* A request that ends and writes no table.
LEMMA AbortStep ==
  ASSUME IInv, NEW w \in Workers, NEW answer \in Idle, Answer(w, answer),
         locks' = locks \/ Release(w), UNCHANGED <<profiles, progress, invitations, accounts>>
  PROVE  Progresses(w) /\ TablesStep
<1>1. TablesStep /\ Registered' = Registered
  BY TablesAlone DEF IInv, TypeOK
<1> QED
  BY <1>1, AnswerStep

\* A request that locks the row it waits for: nobody else holds it.
LEMMA LockKeeps ==
  ASSUME IInv, NEW w \in Workers, pc[w] \in DOMAIN LockStep, NEW step \in InFlight, Lock(w, step),
         step \in Found => school[w] \in Registered,
         step \in Reviewing => action[w] \in Reviews,
         step \in Activating =>
            /\ pc[w] \in Activating \cup {"takeInvitation"}
            /\ step = "createAccount" <=> pc[w] = "takeInvitation",
         pc[w] \in Activating => pc[w] # "createAccount"
  PROVE  Progresses(w) /\ TablesStep
<1>1. pc[w] \in InFlight /\ LockStep[pc[w]] \in Tables
  BY LockSteps DEF InFlight
<1>2. school[w] \in Schools
  BY <1>1, InFlightHasSchool DEF IInv, TypeOK, RequestsOK
<1>3. /\ OnlyRequest(w)
      /\ pc'[w] = step /\ school'[w] = school[w] /\ action'[w] = action[w]
  BY <1>1, GotoEffect DEF IInv, TypeOK, RequestsOK, Lock
<1>4. TablesStep /\ Registered' = Registered
  BY TablesAlone DEF IInv, TypeOK, Lock, registry
<1>5. /\ locks' = locks \cup {<<LockStep[pc[w]], school[w], w>>}
      /\ \A v \in Workers \ {w} : <<LockStep[pc[w]], school[w], v>> \notin locks
      /\ UNCHANGED accounts
  BY DEF Lock, Blockers
<1>6. /\ locks' \subseteq Tables \X Schools \X Workers
      /\ \A t \in Tables, s \in Schools, v \in Workers \ {w} :
            <<t, s, v>> \in locks' <=> <<t, s, v>> \in locks
      /\ \A t \in Tables, s \in Schools, v \in Workers \ {w} :
            <<t, s, w>> \in locks' /\ <<t, s, w>> \notin locks => <<t, s, v>> \notin locks
  <2>1. locks' \subseteq Tables \X Schools \X Workers
    BY <1>1, <1>2, <1>5 DEF IInv, TypeOK
  <2> QED
    BY <1>5, <2>1
<1>7. step \in Activating =>
          /\ <<"invitation", school[w], w>> \in locks'
          /\ step # "createAccount" => <<Email[school[w]], school[w]>> \in accounts'
  BY <1>5, LockSteps DEF IInv, ActivationFacts
<1> QED
  BY <1>3, <1>4, <1>5, <1>6, <1>7 DEF Progresses

-----------------------------------------------------------------------------

\* A registration puts in a school that was not there: the slug is unique, so
\* that no school is overwritten.
LEMMA BundleTables ==
  ASSUME IInv, NEW s \in Schools, s \notin Registered,
         profiles' = Put(profiles, s, [status |-> "pending_review", setup |-> 0]),
         progress' = Put(progress, s, 10),
         invitations' = Put(invitations, s, "pending"),
         UNCHANGED accounts
  PROVE  TablesStep /\ Registered' = Registered \cup {s}
<1>1. /\ Registered' = Registered \cup {s}
      /\ DOMAIN progress = Registered /\ DOMAIN invitations = Registered
  BY DEF Put, Registered, IInv, TypeOK
<1>2. RegistryOK'
  BY <1>1 DEF IInv, TypeOK, RegistryOK, Put, Registered, Statuses
<1>3. /\ profiles'[s].setup = 0 /\ progress'[s] = 10 /\ invitations'[s] = "pending"
      /\ \A t \in Registered : /\ profiles'[t] = profiles[t] /\ progress'[t] = progress[t]
                               /\ invitations'[t] = invitations[t]
  BY <1>1 DEF Put, Registered
<1>4. AcceptedHasOwner' /\ SetupTellsActivation'
  BY <1>1, <1>3 DEF IInv, AcceptedHasOwner, SetupTellsActivation, OwnerProgress, Greatest
<1>5. Milestones
  BY <1>1, <1>3 DEF Milestones, IInv, TypeOK
<1> QED
  BY <1>1, <1>2, <1>4, <1>5 DEF TablesStep

\* A review sets the status and the progress of the other table; the setup
\* progress only grows, and reaches the owner's only when it had.
LEMMA ReviewTables ==
  ASSUME IInv, NEW s \in Registered, NEW a \in Reviews,
         profiles' = Put(profiles, s, reviewed(profiles[s], a)),
         progress' = Put(progress, s, progressForStep[a]),
         UNCHANGED <<invitations, accounts>>
  PROVE  TablesStep /\ Registered' = Registered
<1>1. Registered' = Registered /\ DOMAIN progress = Registered
  BY DEF Put, Registered, IInv, TypeOK
<1>2. /\ reviewStatus[a] \in Statuses /\ progressForStep[a] \in {0, 20, 40}
      /\ profiles[s].setup \in {0, 20, 40, 60}
  BY ReviewValues DEF IInv, TypeOK
<1>3. /\ profiles'[s].setup = Greatest(profiles[s].setup, progressForStep[a])
      /\ profiles'[s].status = reviewStatus[a]
      /\ profiles'[s] \in [status : Statuses, setup : {0, 20, 40, 60}]
      /\ progress'[s] = progressForStep[a]
      /\ \A t \in Registered \ {s} : profiles'[t] = profiles[t] /\ progress'[t] = progress[t]
  BY <1>1, <1>2 DEF Put, Registered, reviewed, Greatest
<1>4. RegistryOK'
  <2>1. profiles' \in [Registered' -> [status : Statuses, setup : {0, 20, 40, 60}]]
    BY <1>1, <1>3 DEF IInv, TypeOK, Put, Registered
  <2>2. progress' \in [Registered' -> {0, 10, 20, 40, 60}]
    BY <1>1, <1>2 DEF IInv, TypeOK, Put
  <2> QED
    BY <1>1, <2>1, <2>2 DEF RegistryOK, IInv, TypeOK
<1>5. AcceptedHasOwner'
  BY <1>1 DEF IInv, AcceptedHasOwner
<1>6. SetupTellsActivation'
  BY <1>1, <1>2, <1>3 DEF IInv, SetupTellsActivation, OwnerProgress, Greatest
<1>7. Milestones
  BY <1>1, <1>2, <1>3 DEF Milestones, Greatest, IInv, TypeOK
<1> QED
  BY <1>1, <1>4, <1>5, <1>6, <1>7 DEF TablesStep

\* The second commit of an activation, whose account is there.
LEMMA OwnerTables ==
  ASSUME IInv, NEW s \in Registered, <<Email[s], s>> \in accounts,
         invitations' = Put(invitations, s, "accepted"),
         progress' = Put(progress, s, Greatest(progress[s], OwnerProgress)),
         profiles' = Put(profiles, s, [profiles[s] EXCEPT !.setup = Greatest(@, OwnerProgress)]),
         UNCHANGED accounts
  PROVE  TablesStep /\ Registered' = Registered
<1>1. /\ Registered' = Registered
      /\ DOMAIN progress = Registered /\ DOMAIN invitations = Registered
  BY DEF Put, Registered, IInv, TypeOK
<1>2. /\ progress[s] \in {0, 10, 20, 40, 60} /\ profiles[s].setup \in {0, 20, 40, 60}
      /\ profiles[s] \in [status : Statuses, setup : {0, 20, 40, 60}]
  BY DEF IInv, TypeOK
<1>3. /\ profiles'[s].setup = 60 /\ progress'[s] = 60 /\ invitations'[s] = "accepted"
      /\ profiles'[s] \in [status : Statuses, setup : {0, 20, 40, 60}]
      /\ \A t \in Registered \ {s} : /\ profiles'[t] = profiles[t] /\ progress'[t] = progress[t]
                                     /\ invitations'[t] = invitations[t]
  BY <1>1, <1>2 DEF Put, Registered, Greatest, OwnerProgress
<1>4. RegistryOK'
  <2>1. profiles' \in [Registered' -> [status : Statuses, setup : {0, 20, 40, 60}]]
    BY <1>1, <1>3 DEF IInv, TypeOK, Put, Registered
  <2>2. progress' \in [Registered' -> {0, 10, 20, 40, 60}]
    BY <1>1, <1>3 DEF IInv, TypeOK, Put
  <2>3. invitations' \in [Registered' -> {"pending", "accepted"}]
    BY <1>1, <1>3 DEF IInv, TypeOK, Put
  <2> QED
    BY <1>1, <2>1, <2>2, <2>3 DEF RegistryOK, IInv, TypeOK
<1>5. AcceptedHasOwner' /\ SetupTellsActivation'
  BY <1>1, <1>3 DEF IInv, AcceptedHasOwner, SetupTellsActivation, OwnerProgress, Greatest
<1>6. Milestones
  BY <1>1, <1>2, <1>3 DEF Milestones, IInv, TypeOK
<1> QED
  BY <1>1, <1>4, <1>5, <1>6 DEF TablesStep

-----------------------------------------------------------------------------

\* Registration: the slug is looked up, the school is made, the mail is sent.
LEMMA RegisterSteps ==
  ASSUME IInv, NEW w \in Workers,
         (\E s \in Schools : Register(w, s)) \/ CheckSlug(w) \/ CreateBundle(w) \/ Notify(w)
  PROVE  Progresses(w) /\ TablesStep
<1>1. ASSUME NEW s \in Schools, Register(w, s) PROVE Progresses(w) /\ TablesStep
  BY <1>1, ArriveStep DEF Register
<1>2. CASE CheckSlug(w)
  <2>1. CASE Answer(w, "refused")
    BY <1>2, <2>1, AbortStep DEF CheckSlug, Idle, registry
  <2>2. CASE Goto(w, "createBundle")
    <3>1. pc[w] \in InFlight /\ "createBundle" \in InFlight
          /\ "createBundle" \notin Found \cup Reviewing \cup Activating
      BY <1>2, StepNames DEF CheckSlug
    <3> QED
      BY <1>2, <2>2, <3>1, GotoStep DEF CheckSlug, registry
  <2> QED
    BY <1>2, <2>1, <2>2 DEF CheckSlug
<1>3. CASE CreateBundle(w)
  <2> DEFINE s == school[w]
  <2>1. pc[w] \in InFlight /\ s \in Schools /\ {"failed", "ok"} \subseteq Idle
    BY <1>3, StepNames, InFlightHasSchool DEF CreateBundle, IInv, TypeOK, RequestsOK, Idle
  <2>2. CASE Answer(w, "failed") /\ UNCHANGED registry
    BY <1>3, <2>1, <2>2, AbortStep DEF CreateBundle, registry
  <2>3. CASE Slug[s] \notin {Slug[t] : t \in Registered}
    <3>1. /\ profiles' = Put(profiles, s, [status |-> "pending_review", setup |-> 0])
          /\ progress' = Put(progress, s, 10)
          /\ invitations' = Put(invitations, s, "pending")
          /\ Goto(w, "notify") \/ Answer(w, "failed")
          /\ UNCHANGED <<accounts, locks>>
      BY <1>3, <2>3 DEF CreateBundle
    <3>2. s \notin Registered
      BY <2>3
    <3>3. TablesStep /\ Registered' = Registered \cup {s}
      BY <2>1, <3>1, <3>2, BundleTables
    <3>4. CASE Answer(w, "failed")
      BY <2>1, <3>1, <3>3, <3>4, AnswerStep
    <3>5. CASE Goto(w, "notify")
      <4>1. "notify" \in InFlight /\ "notify" \notin Reviewing \cup Activating
        BY StepNames
      <4>2. OnlyRequest(w) /\ pc'[w] = "notify" /\ school'[w] = s
        BY <2>1, <3>5, <4>1, GotoEffect DEF IInv, TypeOK, RequestsOK
      <4> QED
        BY <3>1, <3>3, <4>1, <4>2 DEF Progresses, IInv, TypeOK
    <3> QED
      BY <3>1, <3>4, <3>5
  <2> QED
    BY <1>3, <2>2, <2>3 DEF CreateBundle
<1>4. CASE Notify(w)
  BY <1>4, AbortStep DEF Notify, Idle, registry
<1> QED
  BY <1>1, <1>2, <1>3, <1>4

\* A review finds the school, waits for two rows, and commits.
LEMMA ReviewSteps ==
  ASSUME IInv, NEW w \in Workers,
         \/ \E s \in Schools, a \in Reviews : Review(w, s, a)
         \/ FindSchool(w) \/ ReviewProfile(w) \/ ReviewProgress(w) \/ CommitReview(w)
  PROVE  Progresses(w) /\ TablesStep
<1>1. ASSUME NEW s \in Schools, NEW a \in Reviews, Review(w, s, a)
      PROVE  Progresses(w) /\ TablesStep
  BY <1>1, ArriveStep DEF Review
<1>2. CASE FindSchool(w)
  <2>1. CASE Answer(w, "refused")
    BY <1>2, <2>1, AbortStep DEF FindSchool, Idle, registry
  <2>2. CASE Goto(w, "reviewProfile") /\ school[w] \in Registered
    <3>1. /\ pc[w] \in InFlight /\ "reviewProfile" \in InFlight /\ action[w] \in Reviews
          /\ "reviewProfile" \notin Activating
      BY <1>2, StepNames DEF FindSchool, IInv, StepFacts, Reviewing
    <3> QED
      BY <1>2, <2>2, <3>1, GotoStep DEF FindSchool, registry
  <2> QED
    BY <1>2, <2>1, <2>2 DEF FindSchool
<1>3. CASE ReviewProfile(w) \/ ReviewProgress(w)
  <2>1. PICK step \in {"reviewProgress", "commitReview"} : Lock(w, step)
    BY <1>3 DEF ReviewProfile, ReviewProgress
  <2>2. pc[w] \in {"reviewProfile", "reviewProgress"}
    BY <1>3 DEF ReviewProfile, ReviewProgress
  <2>3. /\ pc[w] \in DOMAIN LockStep /\ step \in InFlight
        /\ school[w] \in Registered /\ action[w] \in Reviews
        /\ step \notin Activating /\ pc[w] \notin Activating
    BY <2>2, StepNames, LockSteps DEF IInv, StepFacts, Found, Reviewing
  <2> QED
    BY <2>1, <2>3, LockKeeps
<1>4. CASE CommitReview(w)
  <2>1. school[w] \in Registered /\ action[w] \in Reviews
    BY <1>4 DEF CommitReview, IInv, StepFacts, Found, Reviewing
  <2>2. TablesStep /\ Registered' = Registered
    BY <1>4, <2>1, ReviewTables DEF CommitReview
  <2> QED
    BY <1>4, <2>2, AnswerStep DEF CommitReview, Idle
<1> QED
  BY <1>1, <1>2, <1>3, <1>4

\* An activation takes the invitation, commits the account, and then the
\* invitation; until then it keeps the lock.
LEMMA ActivationSteps ==
  ASSUME IInv, NEW w \in Workers,
         \/ \E s \in Schools : Activate(w, s)
         \/ FindInvitation(w) \/ TakeInvitation(w) \/ CreateAccount(w)
         \/ OwnerProgressRow(w) \/ OwnerProfileRow(w) \/ CommitOwner(w)
  PROVE  Progresses(w) /\ TablesStep
<1>0. {"refused", "failed", "ok"} \subseteq Idle
  BY DEF Idle
<1>1. ASSUME NEW s \in Schools, Activate(w, s) PROVE Progresses(w) /\ TablesStep
  BY <1>1, ArriveStep DEF Activate
<1>2. CASE FindInvitation(w)
  <2>1. CASE Answer(w, "refused")
    BY <1>0, <1>2, <2>1, AbortStep DEF FindInvitation, registry
  <2>2. CASE Goto(w, "takeInvitation") /\ school[w] \in Registered
    <3>1. /\ pc[w] \in InFlight /\ "takeInvitation" \in InFlight
          /\ "takeInvitation" \notin Activating \cup Reviewing
      BY <1>2, StepNames DEF FindInvitation, Found
    <3> QED
      BY <1>2, <2>2, <3>1, GotoStep DEF FindInvitation, registry
  <2> QED
    BY <1>2, <2>1, <2>2 DEF FindInvitation
<1>3. CASE TakeInvitation(w)
  <2>1. /\ pc[w] \in DOMAIN LockStep /\ pc[w] = "takeInvitation"
        /\ school[w] \in Registered /\ pc[w] \notin Activating
        /\ "createAccount" \in InFlight /\ "createAccount" \notin Reviewing
    BY <1>3, StepNames, LockSteps DEF TakeInvitation, IInv, StepFacts, Found, Activating
  <2>2. CASE Lock(w, "createAccount")
    BY <2>1, <2>2, LockKeeps
  <2>3. CASE Abort(w, "refused")
    BY <1>0, <2>3, AbortStep DEF Abort, registry
  <2> QED
    BY <1>3, <2>2, <2>3 DEF TakeInvitation
<1>4. CASE CreateAccount(w)
  <2> DEFINE account == <<Email[school[w]], school[w]>>
  <2>1. /\ pc[w] = "createAccount" /\ pc[w] \in InFlight /\ pc[w] \in Activating
        /\ school[w] \in Registered /\ school[w] \in Schools
    BY <1>4, StepNames DEF CreateAccount, Activating, IInv, StepFacts, TypeOK
  <2>2. CASE Abort(w, "failed")
    BY <1>0, <2>2, AbortStep DEF Abort, registry
  <2>3. CASE /\ accounts' = accounts \cup {account} /\ UNCHANGED registry
             /\ \/ Goto(w, "ownerProgress") /\ UNCHANGED locks
                \/ Answer(w, "failed") /\ Release(w)
    <3>1. TablesStep /\ Registered' = Registered /\ accounts \subseteq accounts'
      BY <2>1, <2>3, TablesAlone DEF IInv, TypeOK, registry
    <3>2. CASE Answer(w, "failed") /\ Release(w)
      BY <1>0, <3>1, <3>2, AnswerStep
    <3>3. CASE Goto(w, "ownerProgress") /\ UNCHANGED locks
      <4>1. "ownerProgress" \in InFlight /\ "ownerProgress" \notin Reviewing
        BY StepNames DEF Activating
      <4>2. OnlyRequest(w) /\ pc'[w] = "ownerProgress" /\ school'[w] = school[w]
        BY <2>1, <3>3, <4>1, GotoEffect DEF IInv, TypeOK, RequestsOK
      <4>3. <<"invitation", school[w], w>> \in locks
        BY <2>1 DEF IInv, ActivationFacts
      <4> QED
        BY <2>1, <2>3, <3>1, <3>3, <4>1, <4>2, <4>3 DEF Progresses, IInv, TypeOK
    <3> QED
      BY <2>3, <3>2, <3>3
  <2> QED
    BY <1>4, <2>2, <2>3 DEF CreateAccount
<1>5. CASE OwnerProgressRow(w) \/ OwnerProfileRow(w)
  <2>1. PICK step \in {"ownerProfile", "commitOwner"} : Lock(w, step)
    BY <1>5 DEF OwnerProgressRow, OwnerProfileRow
  <2>2. pc[w] \in {"ownerProgress", "ownerProfile"}
    BY <1>5 DEF OwnerProgressRow, OwnerProfileRow
  <2>3. /\ pc[w] \in DOMAIN LockStep /\ step \in InFlight
        /\ school[w] \in Registered /\ step \notin Reviewing
        /\ pc[w] \in Activating /\ pc[w] # "createAccount" /\ step # "createAccount"
    BY <2>2, StepNames, LockSteps DEF IInv, StepFacts, Found, Activating
  <2> QED
    BY <2>1, <2>2, <2>3, LockKeeps
<1>6. CASE CommitOwner(w)
  <2>1. school[w] \in Registered /\ <<Email[school[w]], school[w]>> \in accounts
    BY <1>6 DEF CommitOwner, IInv, StepFacts, ActivationFacts, Found, Activating
  <2>2. TablesStep /\ Registered' = Registered
    BY <1>6, <2>1, OwnerTables DEF CommitOwner
  <2> QED
    BY <1>0, <1>6, <2>2, AnswerStep DEF CommitOwner
<1> QED
  BY <1>1, <1>2, <1>3, <1>4, <1>5, <1>6

-----------------------------------------------------------------------------

\* Every step of a request keeps the invariant and the milestones.
LEMMA NextKeeps ==
  ASSUME IInv, [Next]_vars
  PROVE  IInv' /\ (Milestones \/ UNCHANGED vars)
<1>1. ASSUME NEW w \in Workers, Progresses(w), TablesStep PROVE IInv' /\ Milestones
  <2>1. TypeOK'
    BY <1>1 DEF Progresses, OnlyRequest, RequestsOK, TablesStep, RegistryOK, TypeOK
  <2> QED
    BY <1>1, <2>1, ProgressKeeps DEF IInv, TablesStep
<1>2. ASSUME NEW w \in Workers, BreakDeadlock(w) \/ Fail(w) PROVE IInv' /\ Milestones
  BY <1>1, <1>2, AbortStep DEF BreakDeadlock, Fail, Abort, Idle, registry
<1>3. CASE UNCHANGED vars
  <2>1. TypeOK' /\ StepFacts' /\ ActivationFacts' /\ LocksExclusive'
    BY <1>3 DEF vars, IInv, TypeOK, StepFacts, ActivationFacts, LocksExclusive, Registered
  <2>2. AcceptedHasOwner' /\ SetupTellsActivation'
    BY <1>3 DEF vars, IInv, AcceptedHasOwner, SetupTellsActivation, Registered
  <2> QED
    BY <1>3, <2>1, <2>2 DEF IInv
<1> QED
  BY <1>1, <1>2, <1>3, RegisterSteps, ReviewSteps, ActivationSteps DEF Next, Serve

\* The invariant holds in every state.
THEOREM OnboardingInvariant == Spec => []IInv
<1>1. Init => IInv
  BY DEF Init, IInv, TypeOK, StepFacts, ActivationFacts, LocksExclusive, AcceptedHasOwner,
         SetupTellsActivation, Registered, Idle, Found, Reviewing, Activating, InFlight, LockStep
<1>2. IInv /\ [Next]_vars => IInv'
  BY NextKeeps
<1> QED
  BY <1>1, <1>2, PTL DEF Spec

\* Tables, locks and requests of the onboarding keep their types.
THEOREM TypeCorrect == Spec => []TypeOK
<1>1. IInv => TypeOK
  BY DEF IInv
<1> QED
  BY <1>1, OnboardingInvariant, PTL

\* Whatever fails between the two commits of an activation, a school whose
\* invitation is accepted has its owner's account.
THEOREM AcceptedOwnersExist == Spec => []AcceptedHasOwner
<1>1. IInv => AcceptedHasOwner
  BY DEF IInv
<1> QED
  BY <1>1, OnboardingInvariant, PTL

\* The setup progress is the owner's exactly when the invitation is accepted,
\* however reviews and the activation are ordered.
THEOREM SetupIsTruthful == Spec => []SetupTellsActivation
<1>1. IInv => SetupTellsActivation
  BY DEF IInv
<1> QED
  BY <1>1, OnboardingInvariant, PTL

\* No two requests are between taking and committing one invitation: both
\* would hold its lock.
THEOREM ActivationsExclude == Spec => []OneActivationAtATime
<1>1. IInv => OneActivationAtATime
  <2> SUFFICES ASSUME IInv, NEW v \in Workers, NEW w \in Workers, v # w, school[v] = school[w],
                      pc[v] \in Activating, pc[w] \in Activating
               PROVE  FALSE
    BY DEF OneActivationAtATime, Activating
  <2>1. school[v] \in Schools
    BY StepNames, InFlightHasSchool DEF IInv, TypeOK, RequestsOK
  <2>2. <<"invitation", school[v], v>> \in locks /\ <<"invitation", school[v], w>> \in locks
    BY DEF IInv, ActivationFacts
  <2> QED
    BY <2>1, <2>2 DEF IInv, LocksExclusive, Tables
<1> QED
  BY <1>1, OnboardingInvariant, PTL

\* No step loses a school, lowers its setup progress or takes its accepted
\* invitation back.
THEOREM MilestonesAreKept == Spec => MilestonesKept
<1>1. IInv /\ [Next]_vars => [Milestones]_vars
  BY NextKeeps
<1> QED
  BY <1>1, OnboardingInvariant, PTL DEF Spec, MilestonesKept, Milestones
=============================================================================
