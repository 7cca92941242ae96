------------------------------ MODULE Payments ------------------------------
(***************************************************************************)
(* Payment orders (api/subscription.rs, api/admin.rs).  An order is known  *)
(* by its number, which is the second it was created in.                   *)
(***************************************************************************)
EXTENDS Naturals

CONSTANTS
    Buyers,
    LastSecond      \* bound: seconds that pass

ASSUME PaymentAssumption == LastSecond \in Nat

Seconds == 0..LastSecond
Statuses == {"pending", "paid", "cancelled", "failed"}

VARIABLES
    second,     \* the clock of the API server
    orders,     \* order numbers in use
    buyer,      \* user_id of an order
    status,
    paidAt      \* orders with paid_at set

paymentVars == <<second, orders, buyer, status, paidAt>>

NoBuyer == "nobody"

PaymentInit ==
    /\ second = 0
    /\ orders = {}
    /\ buyer = [o \in Seconds |-> NoBuyer]
    /\ status = [o \in Seconds |-> "pending"]
    /\ paidAt = {}

\* create_payment: the number is unique in the table, so a second order of the
\* same second is refused with an error, whoever creates it.
CreatePayment(u) ==
    /\ second \notin orders
    /\ orders' = orders \cup {second}
    /\ buyer' = [buyer EXCEPT ![second] = u]
    /\ status' = [status EXCEPT ![second] = "pending"]
    /\ UNCHANGED <<second, paidAt>>

\* Mutant: the owner may cancel an order whatever its status.
CancelAny(u, o) ==
    /\ o \in orders
    /\ buyer[o] = u
    /\ status' = [status EXCEPT ![o] = "cancelled"]
    /\ UNCHANGED <<second, orders, buyer, paidAt>>

\* cancel_payment: one UPDATE that looks at owner and status.
CancelPayment(u, o) ==
    /\ o \in orders
    /\ buyer[o] = u
    /\ status[o] = "pending"
    /\ status' = [status EXCEPT ![o] = "cancelled"]
    /\ UNCHANGED <<second, orders, buyer, paidAt>>

\* update_payment_status, with any status the administrator sends.
UpdatePayment(o, to) ==
    /\ o \in orders
    /\ status' = [status EXCEPT ![o] = to]
    /\ paidAt' = IF to = "paid" THEN paidAt \cup {o} ELSE paidAt \ {o}
    /\ UNCHANGED <<second, orders, buyer>>

Second ==
    /\ second < LastSecond
    /\ second' = second + 1
    /\ UNCHANGED <<orders, buyer, status, paidAt>>

PaymentNext ==
    \/ \E u \in Buyers : CreatePayment(u)
    \/ \E u \in Buyers, o \in Seconds : CancelPayment(u, o)
    \/ \E o \in Seconds, to \in Statuses : UpdatePayment(o, to)
    \/ Second

PaymentSpec == PaymentInit /\ [][PaymentNext]_paymentVars

-----------------------------------------------------------------------------
PaymentTypeOK ==
    /\ second \in Seconds
    /\ orders \in SUBSET Seconds
    /\ buyer \in [Seconds -> Buyers \cup {NoBuyer}]
    /\ status \in [Seconds -> Statuses]
    /\ paidAt \in SUBSET orders

\* The revenue counts orders by status, the order's own record says when it was
\* paid: whatever a user's cancellation and an administrator's update do in
\* between each other, the two agree.
PaidIsDated ==
    /\ PaymentTypeOK
    /\ \A o \in orders : o \in paidAt <=> status[o] = "paid"
=============================================================================
