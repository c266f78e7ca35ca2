------------------------------ MODULE SeatBook ------------------------------
(***************************************************************************)
(* What the enrollment tables promise, whatever the requests in flight do: *)
(* a seat is given to a student once, one seat at a time, it is never      *)
(* taken away, and no class gives out more than its limit of seats.        *)
(***************************************************************************)
EXTENDS Naturals, FiniteSets

CONSTANTS Students, Classes, Limit

VARIABLE seats

Holders(c) == {s \in Students : <<s, c>> \in seats}

Init == seats = {}

Take(s, c) ==
    /\ <<s, c>> \notin seats
    /\ Cardinality(Holders(c)) < Limit[c]
    /\ seats' = seats \cup {<<s, c>>}

Next == \E s \in Students, c \in Classes : Take(s, c)

Spec == Init /\ [][Next]_seats
=============================================================================
