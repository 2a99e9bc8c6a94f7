---------------------------- MODULE MCCashCounts ----------------------------
(* Two registers over three days of two moments each.  One payment may be of half a     *)
(* cent; two of 1.44 cents come to 2 when each is rounded, and to 3 when their sum is.  *)
EXTENDS CashCounts, TLC

Paid(id, day, hundredths) == [id |-> id, day |-> day, amount |-> hundredths * (Parts \div 100)]

MCPaymentForms == {Paid(1, 1, -100), Paid(1, 2, 144), Paid(2, 1, 150), Paid(2, 2, 144)}

\* Half a cent on top of two cents or more is rounded up.
MCHalvesUp == (2 .. 20) \X {150 * (Parts \div 100)}

Counted(before, after) == [before |-> before, after |-> after]

MCCountForms ==
  {[at |-> 0, amounts |-> <<Counted(0, 3), Counted(0, 1)>>],
   [at |-> 1, amounts |-> (1 :> Counted(2, 2))],
   [at |-> 2, amounts |-> <<Counted(2, 2), Counted(1, 4)>>],
   [at |-> 3, amounts |-> (1 :> Counted(4, 4))],
   [at |-> 4, amounts |-> <<Counted(2, 3), Counted(4, 4)>>]}
=============================================================================
