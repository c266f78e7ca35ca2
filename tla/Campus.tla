-------------------------------- MODULE Campus --------------------------------
(***************************************************************************)
(* The services of the campus together: a behaviour is about one of them,  *)
(* over PostgreSQL or over Supabase.  Registrations and graduations share  *)
(* their tables, and the alumni desk, the grades and the announcements     *)
(* notify through the notification service.                                *)
(***************************************************************************)
EXTENDS Graduations, Resources, Registrar, Professors, Applications, Tenants, Billing

Init ==
    \/ NotificationsInit \/ AlumniInit \/ GraduationsInit \/ ResourcesInit \/ RegistrarInit
    \/ ProfessorsInit \/ ApplicationsInit \/ TenantsInit \/ BillingInit

Next ==
    \/ service \in {"notifications", "alumni", "grades", "announcements"} /\ NotificationsNext
    \/ service \in {"alumni", "graduations"} /\ AlumniNext
    \/ service = "graduations" /\ GraduationsNext
    \/ service = "resources" /\ ResourcesNext
    \/ service \in {"registrar", "petitions"} /\ RegistrarNext
    \/ service \in {"grades", "announcements"} /\ ProfessorsNext
    \/ service \in {"forms", "decisions"} /\ ApplicationsNext
    \/ service = "tenants" /\ TenantsNext
    \/ service = "billing" /\ BillingNext

Spec == Init /\ [][Next]_vars

\* The tables of the service hold what their columns allow.
TypeOK ==
    /\ service = "notifications" => NoticeTablesOK
    /\ service \in {"alumni", "graduations"} => AlumniTablesOK
    /\ service = "resources" => ResourceTablesOK
    /\ service \in {"registrar", "petitions"} => RegistrarTablesOK
    /\ service \in {"grades", "announcements"} => GradeTablesOK
    /\ service = "forms" => FormTablesOK
    /\ service = "decisions" => DecisionTablesOK
    /\ service = "tenants" => TenantTablesOK
    /\ service = "billing" => BillingTablesOK
    /\ \A w \in Workers : Idle(w) => arg[w] = None
=============================================================================
