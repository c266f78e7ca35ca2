---------------------------- MODULE MCOnboarding ----------------------------
(***************************************************************************)
(* Onboarding of small sets of schools.  "first" and "rival" want the same *)
(* slug; "second" has another one and the same contact email as "first".   *)
(***************************************************************************)
EXTENDS Onboarding, TLC

MCSchools == {"first", "rival", "second"}
MCSlug == [first |-> "sanbeda", rival |-> "sanbeda", second |-> "demo"]
MCEmail == [first |-> "owner", rival |-> "other", second |-> "owner"]

\* The progress run: two requests about one school, where all waiting happens.
MCOneSchool == {"first"}

Symmetry == Permutations(Workers)
=============================================================================
