------------------------------- MODULE Billing -------------------------------
(***************************************************************************)
(* A student's account: fees and payments.  Payments are recorded by hand  *)
(* and wait for reconciliation; fees are assessed and payments are posted  *)
(* by a system outside this repository.  The balance is computed from two  *)
(* queries that run in parallel.                                           *)
(***************************************************************************)
EXTENDS Requests

CONSTANTS
    Amounts,        \* amounts of fees and payments
    MaxFees,        \* bound: fees that are assessed
    MaxPayments     \* bound: payments that are recorded

ASSUME BillingBounds == Amounts \subseteq Nat /\ MaxFees \in Nat /\ MaxPayments \in Nat

BillingTables == [
    fees |-> <<>>,      \* student_fee_assessments: their amounts
    payments |-> <<>>,  \* student_payments: [amount, status]
    received |-> {}]    \* payment.received events: positions of payments

\* The sum of a sequence of amounts.
total(amounts) ==
    LET sum[n \in 0 .. Len(amounts)] == IF n = 0 THEN 0 ELSE sum[n - 1] + amounts[n]
    IN  sum[Len(amounts)]

\* Mutation: payments that wait for reconciliation count as well.
totalPaidPending(payments) ==
    total([i \in 1 .. Len(payments) |-> payments[i].amount])

totalPaid(payments) ==
    total([i \in 1 .. Len(payments) |->
        IF payments[i].status \in {"posted", "paid"} THEN payments[i].amount ELSE 0])

balanceDue(assessed, paid) == IF assessed > paid THEN assessed - paid ELSE 0

getPaymentStatus(assessed, paid) ==
    IF assessed <= 0 \/ paid <= 0 THEN "unpaid"
    ELSE IF paid >= assessed THEN "paid" ELSE "partial"

\* recordManualPayment; the controller refuses an amount that is not positive.
recordManualPayment(w) == service = "billing" /\ \E amount \in Amounts :
    /\ Take("billing", w, <<"publishPayment">>, [payment |-> Len(db.payments) + 1])
    /\ amount > 0
    /\ Len(db.payments) < MaxPayments
    /\ db' = [db EXCEPT !.payments = Append(@, [amount |-> amount, status |-> "pending_reconciliation"])]

PublishPayment(w) ==
    /\ At(w, "publishPayment")
    /\ Proceed(w)
    /\ db' \in {db, [db EXCEPT !.received = @ \cup {arg[w].payment}]}

\* What is posted or paid, as the payments themselves say it.
Settled ==
    total([i \in 1 .. Len(db.payments) |->
        IF db.payments[i].status = "pending_reconciliation" THEN 0 ELSE db.payments[i].amount])

\* getStudentBalance.  fees and settled are the account when the request came,
\* which the handler does not know.
getStudentBalance(w) == service = "billing" /\
    /\ Take("billing", w, <<"readAccount", "readAccount">>,
           [fees |-> total(db.fees), settled |-> Settled, assessed |-> None, paid |-> None])
    /\ UNCHANGED db

\* The two queries answer in any order.
ReadFees(w) ==
    /\ At(w, "readAccount") /\ arg[w].assessed = None
    /\ GoOn(w, Tail(todo[w]) \o (IF arg[w].paid = None THEN <<>> ELSE <<"showBalance">>),
           [arg[w] EXCEPT !.assessed = total(db.fees)])
    /\ UNCHANGED db

ReadPayments(w) ==
    /\ At(w, "readAccount") /\ arg[w].paid = None
    /\ GoOn(w, Tail(todo[w]) \o (IF arg[w].assessed = None THEN <<>> ELSE <<"showBalance">>),
           [arg[w] EXCEPT !.paid = totalPaid(db.payments)])
    /\ UNCHANGED db

ShowBalance(w) ==
    /\ At(w, "showBalance")
    /\ Proceed(w)
    /\ UNCHANGED db

\* The other system.
Assess == \E amount \in Amounts :
    /\ service = "billing" /\ Len(db.fees) < MaxFees
    /\ db' = [db EXCEPT !.fees = Append(@, amount)]
    /\ UNCHANGED <<service, configured, todo, arg>>

Post ==
    /\ service = "billing"
    /\ \E i \in 1 .. Len(db.payments), status \in {"posted", "paid"} :
          /\ db.payments[i].status = "pending_reconciliation"
          /\ db' = [db EXCEPT !.payments[i].status = status]
    /\ UNCHANGED <<service, configured, todo, arg>>

\* getReconciliationQueue: pending payments and those that are paid.
getReconciliationQueue ==
    {i \in 1 .. Len(db.payments) : db.payments[i].status \in {"pending_reconciliation", "pending", "paid"}}

BillingInit == Start("billing", {}, BillingTables)

BillingNext ==
    \/ Assess \/ Post
    \/ \E w \in Workers :
        \/ recordManualPayment(w) \/ PublishPayment(w)
        \/ getStudentBalance(w) \/ ReadFees(w) \/ ReadPayments(w) \/ ShowBalance(w)
        \/ service = "billing" /\ Fail(w)

BillingTablesOK ==
    /\ db.received \subseteq 1 .. Len(db.payments)
    /\ \A i \in 1 .. Len(db.payments) :
          db.payments[i].status \in {"pending_reconciliation", "posted", "paid"}

\* The two reads may see the account at two moments, but the balance that is
\* shown lies between the one with the fees of the beginning and the payments
\* of the end, and the one the other way round: a payment that waits for
\* reconciliation lowers nobody's balance, and a student is shown as paid only
\* with the fees at the beginning settled by the end.
BalanceBetween == service = "billing" => \A w \in Workers : At(w, "showBalance") =>
    LET shown == balanceDue(arg[w].assessed, arg[w].paid)
    IN  /\ balanceDue(arg[w].fees, Settled) <= shown
        /\ shown <= balanceDue(total(db.fees), arg[w].settled)
        /\ getPaymentStatus(arg[w].assessed, arg[w].paid) = "paid" => Settled >= arg[w].fees
=============================================================================
