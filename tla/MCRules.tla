------------------------------- MODULE MCRules -------------------------------
(***************************************************************************)
(* The rules on small instances: two schools and an account that can be a  *)
(* member of both and own one; two owners and two names that normalise to  *)
(* one path; three courses, one without units and outside the terms, and   *)
(* grades on both scales next to their limits.                             *)
(***************************************************************************)
EXTENDS Rules, TLC

MCTenantOf == [ana |-> "north", ben |-> "south"]
MCOwnerPath == [ana |-> "school-a/applicant/1", ben |-> "school-a/applicant/1"]
MCSafeName == [upper |-> "form-137.pdf", lower |-> "form-137.pdf"]
MCSizeOf == [tor |-> 3, scan |-> 3, film |-> 12, empty |-> 0]

MCUnits == [algebra |-> 3, biology |-> 2, nstp |-> 0]
MCTerm == [algebra |-> "first", biology |-> "second", nstp |-> None]

Symmetry == Permutations(Workers) \cup Permutations(Campuses)
=============================================================================
