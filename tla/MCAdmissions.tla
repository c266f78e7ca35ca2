---------------------------- MODULE MCAdmissions ----------------------------
(***************************************************************************)
(* Admissions of small instances.  Of the statuses that do not accept, one *)
(* stands for all; two numbers let one applicant be accepted twice, or two *)
(* applicants be accepted.                                                 *)
(***************************************************************************)
EXTENDS Admissions, TLC

MCDecisions == {"Passed", "Rejected"}

Symmetry == Permutations(Workers) \cup Permutations(Numbers)
              \cup Permutations(Programs) \cup Permutations(Applicants)
=============================================================================
