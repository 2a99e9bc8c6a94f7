----------------------------- MODULE CashCounts -----------------------------
(***************************************************************************)
(* The requests that change the cash counts and confirm their differences: *)
(* POST /api/cash_counts/create, PUT /api/cash_counts/[id], and POST and   *)
(* DELETE /api/cash_counts/[id]/discrepancies (src/server/api/cash_counts).*)
(*                                                                         *)
(* What a count found missing is computed by CashLedger from all counts    *)
(* and cash payments, which change under an open request: a payment comes  *)
(* and goes by the requests of module Payments, here by CashPayment.  A    *)
(* count whose difference is confirmed is locked; only a holder of         *)
(* cash_counts.unlock who asks for it (`unlock`) may change it.            *)
(*                                                                         *)
(* A PUT is a transaction that reads, then writes.  A confirmation reads   *)
(* the lock, then the books, then writes, each on a connection of its own. *)
(* Left out: the file (a PUT that leaves none is rolled back: Fail), the   *)
(* members, the cost centre of a confirmation, and two edits of one count  *)
(* at a time, whose positions would be merged row by row (OneEditor).      *)
(***************************************************************************)
EXTENDS CashLedger

CONSTANTS
  Sessions,      \* open requests that edit or confirm
  CountForms,    \* counts a client sends, after normalizeCashCountBody
  PaymentForms,  \* cash payments there may be
  MaxCounts,     \* bound: counts created
  MaxConfirmed   \* bound: counts confirmed at a time

VARIABLES counts, payments, booking, plan
vars == <<counts, payments, booking, plan>>

ASSUME CashAssumption == MaxCounts \in Nat /\ MaxConfirmed \in Nat

\* Moments, days and ids are numbers, counted amounts are cents, payments parts of a
\* cent, and a count names finitely many registers.
ASSUME FormsAssumption ==
  /\ \A form \in CountForms :
       /\ form.at \in Nat
       /\ DOMAIN form.amounts \subseteq Nat /\ IsFiniteSet(DOMAIN form.amounts)
       /\ \A reg \in DOMAIN form.amounts :
            form.amounts[reg].before \in Int /\ form.amounts[reg].after \in Int
  /\ \A p \in PaymentForms : p.id \in Nat /\ p.day \in Nat /\ p.amount \in Int

Idle == [kind |-> "idle"]

Init ==
  /\ counts = <<>>
  /\ payments = {}
  /\ booking = <<>>
  /\ plan = [s \in Sessions |-> Idle]

isCashCountLocked(c) == c \in DOMAIN booking
lockError_never(c, unlock) == FALSE
lockError(c, unlock) == isCashCountLocked(c) /\ ~unlock

\* Assumed: nobody edits the count yet.
OneEditor(c) == \A s \in Sessions : ~(plan[s].kind = "put" /\ plan[s].count = c)

\* A cash payment is booked, moved to another day or amount, or taken back.
CashPayment(p) ==
  /\ payments' = IF p \in payments THEN payments \ {p}
                 ELSE {q \in payments : q.id # p.id} \cup {p}
  /\ UNCHANGED <<counts, booking, plan>>

\* POST /api/cash_counts/create: one transaction whose checks read no count.
CreateCount(form) ==
  /\ Len(counts) < MaxCounts
  /\ counts' = Append(counts, form)
  /\ UNCHANGED <<payments, booking, plan>>

\* PUT /api/cash_counts/[id], up to the last check.
ReadCountPut(s, c, form, unlock) ==
  /\ plan[s] = Idle
  /\ OneEditor(c)
  /\ ~lockError(c, unlock)
  /\ plan' = [plan EXCEPT ![s] = [kind |-> "put", count |-> c, unlock |-> unlock, form |-> form]]
  /\ UNCHANGED <<counts, payments, booking>>

WriteCountPut(s) ==
  /\ plan[s].kind = "put"
  /\ counts' = [counts EXCEPT ![plan[s].count] = plan[s].form]
  /\ plan' = [plan EXCEPT ![s] = Idle]
  /\ UNCHANGED <<payments, booking>>

\* POST .../discrepancies: the lock, then the books, then the booking.
AskConfirm(s, c, unlock) ==
  /\ plan[s] = Idle
  /\ ~lockError(c, unlock)
  /\ plan' = [plan EXCEPT ![s] = [kind |-> "look", count |-> c, unlock |-> unlock]]
  /\ UNCHANGED <<counts, payments, booking>>

ToConfirm_anything(s, amount) ==
  [kind |-> "confirm", count |-> plan[s].count, unlock |-> plan[s].unlock, amount |-> amount]

\* Differences that cancel out across the registers leave nothing to confirm.
ToConfirm(s, amount) ==
  IF amount = 0 THEN Idle
  ELSE [kind |-> "confirm", count |-> plan[s].count, unlock |-> plan[s].unlock, amount |-> amount]

ReadDifference(s) ==
  /\ plan[s].kind = "look"
  /\ plan' = [plan EXCEPT ![s] =
                ToConfirm(s, loadCashCountDiscrepancies(counts, payments, plan[s].count))]
  /\ UNCHANGED <<counts, payments, booking>>

upsertCashDiscrepancyBooking(s) ==
  /\ plan[s].kind = "confirm"
  /\ Cardinality(DOMAIN booking \cup {plan[s].count}) <= MaxConfirmed
  /\ booking' = [c \in DOMAIN booking \cup {plan[s].count} |->
                   IF c = plan[s].count THEN plan[s].amount ELSE booking[c]]
  /\ plan' = [plan EXCEPT ![s] = Idle]
  /\ UNCHANGED <<counts, payments>>

\* DELETE .../discrepancies
AskWithdraw(s, c, unlock) ==
  /\ plan[s] = Idle
  /\ ~lockError(c, unlock)
  /\ plan' = [plan EXCEPT ![s] = [kind |-> "withdraw", count |-> c, unlock |-> unlock]]
  /\ UNCHANGED <<counts, payments, booking>>

deleteCashDiscrepancyBooking(s) ==
  /\ plan[s].kind = "withdraw"
  /\ booking' = [c \in DOMAIN booking \ {plan[s].count} |-> booking[c]]
  /\ plan' = [plan EXCEPT ![s] = Idle]
  /\ UNCHANGED <<counts, payments>>

\* A check or a query fails, or the process dies: nothing was written yet.
Fail(s) ==
  /\ plan[s] # Idle
  /\ plan' = [plan EXCEPT ![s] = Idle]
  /\ UNCHANGED <<counts, payments, booking>>

Next ==
  \/ \E p \in PaymentForms : CashPayment(p)
  \/ \E form \in CountForms : CreateCount(form)
  \/ \E s \in Sessions :
       \/ \E c \in DOMAIN counts, form \in CountForms, u \in BOOLEAN : ReadCountPut(s, c, form, u)
       \/ WriteCountPut(s)
       \/ \E c \in DOMAIN counts, u \in BOOLEAN : AskConfirm(s, c, u)
       \/ ReadDifference(s)
       \/ upsertCashDiscrepancyBooking(s)
       \/ \E c \in DOMAIN counts, u \in BOOLEAN : AskWithdraw(s, c, u)
       \/ deleteCashDiscrepancyBooking(s)
       \/ Fail(s)

Spec == Init /\ [][Next]_vars

-----------------------------------------------------------------------------
\* An open request speaks of a count there is.
WellFormed(p) ==
  \/ p = Idle
  \/ \E c \in DOMAIN counts, u \in BOOLEAN :
       \/ \E form \in CountForms : p = [kind |-> "put", count |-> c, unlock |-> u, form |-> form]
       \/ \E kind \in {"look", "withdraw"} : p = [kind |-> kind, count |-> c, unlock |-> u]
       \/ /\ p.kind = "confirm"
          /\ p = [kind |-> "confirm", count |-> c, unlock |-> u, amount |-> p.amount]
          /\ p.amount # 0

\* Every table and every plan is well-formed, and only a difference that reaches
\* the reports is ever confirmed (discrepancies.post.ts).
TypeOK ==
  /\ counts \in Seq(CountForms) /\ Len(counts) <= MaxCounts
  /\ payments \subseteq PaymentForms
  /\ DOMAIN booking \subseteq DOMAIN counts
  /\ \A c \in DOMAIN booking : booking[c] # 0
  /\ DOMAIN plan = Sessions
  /\ \A s \in Sessions : WellFormed(plan[s])

\* The requests do not overlap.
NoOverlap == \A s, t \in Sessions : plan[s] # Idle /\ plan[t] # Idle => s = t

\* No request changes a confirmed count or its confirmation unless it asked for the
\* unlock (recordLocks.ts).  Only claimed for requests that do not overlap.
ConfirmedOnlyUnlocked ==
  [][\A c \in DOMAIN booking :
       (counts'[c] # counts[c] \/ c \notin DOMAIN booking' \/ booking'[c] # booking[c]) =>
         \E s \in Sessions : plan[s] # Idle /\ plan[s].count = c /\ plan[s].unlock]_vars

\* The books are compared between requests: an open one has changed nothing yet.
Settled == \A s \in Sessions : plan[s] = Idle

Days == {DayOf(form.at) : form \in CountForms} \cup {p.day : p \in PaymentForms}

RegistersApart(day) ==
  \E c, d \in DOMAIN CountsUntil(counts, day) : DOMAIN counts[c].amounts # DOMAIN counts[d].amounts

\* Two counts of a register on one day, entered in the other order than counted.
EnteredOutOfOrder ==
  \E c, d \in DOMAIN counts :
    /\ c < d /\ counts[d].at < counts[c].at
    /\ DayOf(counts[c].at) = DayOf(counts[d].at)
    /\ DOMAIN counts[c].amounts \cap DOMAIN counts[d].amounts # {}

\* A payment on the day the only register was last counted.
PaidOnLastCountDay(day) ==
  LET until == CountsUntil(counts, day) IN
  \E reg \in CountedRegisters(until), p \in payments :
    CountedRegisters(until) = {reg} /\ p.day = Last(loadRegisterAnchors(until, reg)).day

\* The payments that are no whole number of cents.
Broken(paid) == {p \in paid : p.amount % Parts # 0}

\* What a register was paid after its last count.
PaidSinceLastCount(until, to, reg) ==
  {p \in DOMAIN to : to[p] = reg /\ p.day > Last(loadRegisterAnchors(until, reg)).day}

\* How far rounding may take the two balances apart: half a cent for each payment that
\* is no whole number of cents, as the ledger rounds each of them, and half a cent for
\* the total's rounding of their sum.
RoundedApart(until, to) ==
  SumOver([r \in CountedRegisters(until) |->
             (Cardinality(Broken(PaidSinceLastCount(until, to, r))) + 1) \div 2],
          CountedRegisters(until))

\* The two computations of the cash balance agree on every day up to rounding, and to
\* the cent if no payment after a register's last count is broken, so that the balance
\* after the last row of the liquidity report is the total printed under it
\* (liquidity.ts:52), up to the cases in which they order one day differently.
ClosingTotalsAgree ==
  Settled /\ ~EnteredOutOfOrder =>
    \A day \in Days :
      LET until == CountsUntil(counts, day)
          to == assignTransactions(until, PaymentsUntil(payments, day)).to IN
      ~PaidOnLastCountDay(day) =>
        Abs(finalCash(buildCashLedger(counts, payments, day))
            - computeTotalMoney(counts, payments, day)) <= RoundedApart(until, to)

\* The counts the ledger meets before another, and the last of them.
BookedBefore(until, c, d) ==
  DayOf(until[c].at) < DayOf(until[d].at) \/ (DayOf(until[c].at) = DayOf(until[d].at) /\ c < d)

EarlierCounts(until, c, reg) == {d \in CountsOf(until, reg) : BookedBefore(until, d, c)}

PreviousCount(until, c, reg) ==
  CHOOSE d \in EarlierCounts(until, c, reg) :
    \A e \in EarlierCounts(until, c, reg) : e = d \/ BookedBefore(until, e, d)

\* What the ledger gives to a register between the count before and a count.
PaidBetweenCounts(until, to, c, reg) ==
  {p \in DOMAIN to : /\ to[p] = reg
                     /\ p.day > DayOf(until[PreviousCount(until, c, reg)].at)
                     /\ p.day <= DayOf(until[c].at)}

\* The change of the money between the two counts, in cents.
Change(until, c, reg) ==
  until[c].amounts[reg].before - until[PreviousCount(until, c, reg)].amounts[reg].after

\* What a count finds missing is what lies between the money left at the count before
\* it, the payments since that the ledger gives to its register, and the money found,
\* up to half a cent for each of these payments that is no whole number of cents: no
\* payment is charged twice, to two registers or to no count (cashPosition.ts).
DifferencesExplained ==
  Settled => \A day \in Days :
    LET until == CountsUntil(counts, day)
        to == assignTransactions(until, PaymentsUntil(payments, day)).to
        differences == buildCashLedger(counts, payments, day).differences IN
    \A c \in DOMAIN until : \A reg \in DOMAIN until[c].amounts :
      LET found == {d.amount : d \in {d \in differences : d.count = c /\ d.register = reg}}
          paid == PaidBetweenCounts(until, to, c, reg) IN
      IF EarlierCounts(until, c, reg) = {} THEN found = {}
      ELSE \E missing \in found \cup {0} :
             /\ found = {missing} \ {0}
             /\ 2 * Abs(Parts * (Change(until, c, reg) - missing) - Amount(paid))
                  <= Parts * Cardinality(Broken(paid))

\* A report shows for a count the difference its own page shows and lets confirm,
\* whatever later day the report ends on, when all counts cover the same registers:
\* nothing that happens later makes a confirmation stale (cashDiscrepancies.ts).
ReportAgreesWithPage ==
  Settled => \A day \in Days : \A c \in DOMAIN CountsUntil(counts, day) :
    ~RegistersApart(day) =>
      buildCashDiscrepancyItems(counts, payments, day, c) =
        loadCashCountDiscrepancies(counts, payments, c)
=============================================================================
