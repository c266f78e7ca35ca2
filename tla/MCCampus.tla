------------------------------- MODULE MCCampus -------------------------------
(***************************************************************************)
(* The services on small instances.  One class of the registrar has a seat *)
(* and two have none, so that a request that a failed read lets in shows   *)
(* at once; one of the two overlaps it, and the other begins at its end.   *)
(***************************************************************************)
EXTENDS Campus, TLC

MCMaxRows == [records |-> 1, cards |-> 1, logs |-> 3]

MCCapacity == [algebra |-> 1, biology |-> 0, chem |-> 0]

MCTimetable ==
    [algebra |-> [days |-> {"mon", "wed"}, start |-> 1, end |-> 3],
     biology |-> [days |-> {"wednesday", "TTh"}, start |-> 2, end |-> 4],
     chem    |-> [days |-> {"m", "w"}, start |-> 3, end |-> 4]]

\* Fewer permutations than there could be: more would cost more than they save.
Symmetry == Permutations(Workers) \cup Permutations(Records) \cup Permutations(Values)
        \cup Permutations(Pupils)
=============================================================================
