---------------------------- MODULE PaymentLedger ----------------------------
(***************************************************************************)
(* What the payment records promise, without rows, forms and transactions: *)
(* a receipt or an invoice is paid by nobody or by one payment record,     *)
(* which gives it its status.  Module Payments implements it as long as    *)
(* its requests do not overlap.                                            *)
(***************************************************************************)
CONSTANTS
    Records,   \* receipts and invoices
    Payers,    \* reimbursements and bank statements
    Unpaid,    \* the payer of a record nobody pays
    Statuses

VARIABLES payer, status

ledger == <<payer, status>>

Init ==
    /\ payer = [x \in Records |-> Unpaid]
    /\ status \in [Records -> Statuses]

\* Records that nobody pays are created and edited freely, the others keep their
\* status.
EditUnpaid ==
    /\ status' \in [Records -> Statuses]
    /\ \A x \in Records : payer[x] # Unpaid => status'[x] = status[x]
    /\ UNCHANGED payer

\* The payment record p is saved with the records R, in one step: it takes only
\* what is free, gives everything it covers the status s, lets go of the rest, and
\* touches nothing that another payment record covers.
Pay(p, R, s) ==
    /\ \A x \in R : payer[x] \in {Unpaid, p}
    /\ payer' = [x \in Records |->
           IF x \in R THEN p ELSE IF payer[x] = p THEN Unpaid ELSE payer[x]]
    /\ status' \in [Records -> Statuses]
    /\ \A x \in R : status'[x] = s
    /\ \A x \in Records : payer[x] \notin {Unpaid, p} => status'[x] = status[x]

Next ==
    \/ EditUnpaid
    \/ \E p \in Payers, R \in SUBSET Records, s \in Statuses : Pay(p, R, s)

Spec == Init /\ [][Next]_ledger
=============================================================================
