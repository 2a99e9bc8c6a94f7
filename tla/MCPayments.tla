----------------------------- MODULE MCPayments -----------------------------
(* Values and symmetry for the small instances of Payments.                           *)
EXTENDS Payments, TLC

\* One amount that the lock reads as another.
MCSameMoney == LET old == CHOOSE c \in Contents : TRUE
               IN  {old} \X (Contents \ {old})

Symmetry ==
    Permutations(Receipts) \cup Permutations(Invoices) \cup
    Permutations(Reimbursements) \cup Permutations(Statements) \cup
    Permutations(Lines) \cup Permutations(RPos) \cup Permutations(BPos) \cup Permutations(Sessions)

=============================================================================
