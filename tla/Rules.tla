-------------------------------- MODULE Rules --------------------------------
(***************************************************************************)
(* The services whose rules decide what others may do and are shown: who a *)
(* request acts for, where a file is kept, and what a report says.  As in  *)
(* Campus, a behaviour is about one of them.                               *)
(***************************************************************************)
EXTENDS Access, Files, Reports

Init == AccessInit \/ FilesInit \/ ReportsInit

Next ==
    \/ service = "access" /\ AccessNext
    \/ service = "files" /\ FilesNext
    \/ service \in {"reports", "students"} /\ ReportsNext

Spec == Init /\ [][Next]_vars
=============================================================================
