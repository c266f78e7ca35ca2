---------------------------- MODULE MCEnrollment ----------------------------
(***************************************************************************)
(* Enrollment on small instances.  "biology" overlaps both "algebra" and   *)
(* "chem" on Wednesday, under another spelling of the day; "chem" starts   *)
(* when "algebra" ends.  Every class has one seat, so that any two         *)
(* requests compete.                                                       *)
(***************************************************************************)
EXTENDS Enrollment, TLC

MCClasses == {"algebra", "biology", "chem"}

MCSchedules ==
    [algebra |-> [days |-> {"mon", "wed"}, start |-> 480, end |-> 540],
     biology |-> [days |-> {"wednesday", "TTh"}, start |-> 510, end |-> 600],
     chem    |-> [days |-> {"m", "w"}, start |-> 540, end |-> 600]]

MCMaxStudents == [c \in MCClasses |-> 1]

Symmetry == Permutations(Students) \cup Permutations(Workers)

\* The progress run leaves out the class no other one can be combined with.
MCFewClasses == {"algebra", "chem"}
MCFewMaxStudents == [c \in MCFewClasses |-> 1]
=============================================================================
