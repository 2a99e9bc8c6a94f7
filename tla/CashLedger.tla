----------------------------- MODULE CashLedger -----------------------------
(***************************************************************************)
(* The cash ledger: from the cash counts and the cash payments of the      *)
(* association it computes how much money each register holds, and what    *)
(* every count found missing or left over.                                 *)
(*                                                                         *)
(* Source: src/server/utils/cashPosition.ts, which computes the balance    *)
(* twice, once as a total (computeTotalMoney) and once as a chronological  *)
(* ledger (buildCashLedger), and financeAnalysis/cashDiscrepancies.ts.     *)
(*                                                                         *)
(* `counts` is a function from the ids of the counts to                    *)
(* [at |-> counted_after_at, amounts |-> [register |-> [before, after]]],  *)
(* `payments` a set of [id, day, amount].  A payment stands for a paid     *)
(* receipt, a paid invoice or a cash reimbursement outside the bank; their *)
(* order within a day is the order of the ids.  The ledger's bank column   *)
(* is left out: both computations sum the same rows for it.                *)
(*                                                                         *)
(* The database keeps what is counted, and the positions of a receipt, in  *)
(* whole cents; an invoice is quantity * price * (1 + tax / 100), each a   *)
(* number of two decimals, and so in millionths of a cent.  Counts, books  *)
(* and differences are in cents here, payments and their sums in such      *)
(* parts: the ledger rounds its books after every payment, the total       *)
(* rounds the sum once.                                                    *)
(***************************************************************************)
EXTENDS Integers, Sequences, FiniteSets, FiniteSetsExt, SequencesExt, Functions

CONSTANTS
  MomentsPerDay, NoRegister,
  HalvesUp  \* the <<cents, parts>> of exactly half a cent whose double lies above it

ASSUME LedgerAssumption == MomentsPerDay \in Nat \ {0} /\ NoRegister \notin Nat

\* The parts of a cent.
Parts == 1000000

RoundsUp(cents, parts) ==
  \/ 2 * (parts % Parts) > Parts
  \/ 2 * (parts % Parts) = Parts /\ <<cents, parts>> \in HalvesUp

\* Cents plus parts of a cent, to the nearest cent; of half a cent it is the double
\* that decides (0.595 becomes 0.59, 2.595 becomes 2.60).
rc(cents, parts) == cents + parts \div Parts + IF RoundsUp(cents, parts) THEN 1 ELSE 0

DayOf(at) == at \div MomentsPerDay
Abs(x) == IF x < 0 THEN -x ELSE x

\* The elements of a set in ascending order, from the elements before each of them.
InOrder(earlier) ==
  LET ranked == {<<Cardinality(earlier[x]), x>> : x \in DOMAIN earlier} IN
  [k \in 1 .. Cardinality(DOMAIN earlier) |-> (CHOOSE pair \in ranked : pair[1] = k - 1)[2]]

\* The sum of f over a set, and of the amounts of some records.
SumOver(f, S) == MapThenSumSet(LAMBDA x : f[x], S)

Amount(S) == SumOver([x \in S |-> x.amount], S)

\* ORDER BY counted_after_at, id
CountedBefore(counts, c, d) ==
  counts[c].at < counts[d].at \/ (counts[c].at = counts[d].at /\ c < d)

PaidBefore(p, q) == p.day < q.day \/ (p.day = q.day /\ p.id < q.id)

PaymentsInOrder(payments) ==
  InOrder([p \in payments |-> {q \in payments : PaidBefore(q, p)}])

CountsUntil_before(counts, day) ==
  Restrict(counts, {c \in DOMAIN counts : DayOf(counts[c].at) < day})
CountsUntil(counts, day) == Restrict(counts, {c \in DOMAIN counts : DayOf(counts[c].at) <= day})
PaymentsUntil(payments, day) == {p \in payments : p.day <= day}

CountedIn(counts, c, reg) == reg \in DOMAIN counts[c].amounts

CountsOf(counts, reg) == {c \in DOMAIN counts : CountedIn(counts, c, reg)}

\* The counts of a register, oldest first.
AnchorOf(count, reg) ==
  [day |-> DayOf(count.at),
   before |-> count.amounts[reg].before, after |-> count.amounts[reg].after]

CountsInOrder(counts, reg) ==
  InOrder([c \in CountsOf(counts, reg) |->
             {d \in CountsOf(counts, reg) : CountedBefore(counts, d, c)}])

loadRegisterAnchors(counts, reg) ==
  LET ids == CountsInOrder(counts, reg) IN [k \in DOMAIN ids |-> AnchorOf(counts[ids[k]], reg)]

CountedRegisters(counts) == UNION {DOMAIN counts[c].amounts : c \in DOMAIN counts}

FirstCountOf(counts, reg) ==
  CHOOSE c \in CountsOf(counts, reg) :
    \A d \in CountsOf(counts, reg) : d = c \/ CountedBefore(counts, c, d)

EntersBefore(counts, r, s, c, d) == CountedBefore(counts, c, d) \/ (c = d /\ r < s)

\* The order in which the registers enter the anchors' map.
registerNumbers(counts) ==
  InOrder([r \in CountedRegisters(counts) |->
             {s \in CountedRegisters(counts) :
                EntersBefore(counts, s, r, FirstCountOf(counts, s), FirstCountOf(counts, r))}])

-----------------------------------------------------------------------------
(* assignTransactions: which register paid.  The intervals of a register   *)
(* with n counts are 0 (before the first), 1 .. n - 1 (between two) and n  *)
(* (after the last: pending).                                              *)

getIntervalForDate(anchors, day, placeBefore) ==
  LET n == Len(anchors)
      closing == {i \in 2 .. n : /\ day > anchors[i - 1].day
                                 /\ \/ day < anchors[i].day
                                    \/ day = anchors[i].day /\ placeBefore} IN
  IF day > anchors[n].day \/ (day = anchors[n].day /\ ~placeBefore) THEN n
  ELSE IF closing = {} THEN 0 ELSE Min(closing) - 1

measuredChange(anchors, i) ==
  IF i = 0 THEN 0 ELSE Parts * (anchors[i + 1].before - anchors[i].after)

\* How much more money an interval misses with the payment than without it.
discrepancyDelta(anchors, i, amount, sum) ==
  Abs(measuredChange(anchors, i) - (sum + amount)) - Abs(measuredChange(anchors, i) - sum)

\* The only register pays; on the day of its last count the payment is put after
\* the count if it would make more money go missing before it.
OnlyInterval(anchors, sums, p) ==
  LET n == Len(anchors) IN
  IF p.day # anchors[n].day THEN getIntervalForDate(anchors, p.day, TRUE)
  ELSE IF discrepancyDelta(anchors, n - 1, p.amount, sums[n - 1]) <= 0 THEN n - 1 ELSE n

\* What a register has to offer: the smallest delta, where a payment before its
\* first and after its last count costs nothing.  The place after a count is only
\* tried on the day of that count.
LeastDelta(anchors, sums, p) ==
  LET n == Len(anchors)
      i == getIntervalForDate(anchors, p.day, TRUE)
      places == {TRUE} \cup IF p.day = anchors[Min({n, i + 1})].day THEN {FALSE} ELSE {}
      delta(j) == IF j \in {0, n} THEN 0 ELSE discrepancyDelta(anchors, j, p.amount, sums[j]) IN
  Min({delta(getIntervalForDate(anchors, p.day, b)) : b \in places})

\* With several registers the one with the least delta pays, the first of equals.
Cheapest(regs, delta) ==
  regs[Min({k \in DOMAIN regs : \A l \in DOMAIN regs : delta[k] <= delta[l]})]

PayingRegister(regs, anchors, sums, p) ==
  IF Len(regs) = 1 THEN regs[1]
  ELSE Cheapest(regs, [k \in DOMAIN regs |-> LeastDelta(anchors[regs[k]], sums[regs[k]], p)])

IntervalOf(regs, anchors, sums, p) ==
  IF Len(regs) = 1 THEN OnlyInterval(anchors, sums, p)
  ELSE getIntervalForDate(anchors, p.day, TRUE)

AssignTo(regs, anchors, books, p, r) ==
  LET i == IntervalOf(regs, anchors[r], books.sums[r], p) IN
  [sums |-> [books.sums EXCEPT ![r] = [books.sums[r] EXCEPT ![i] = books.sums[r][i] + p.amount]],
   to |-> [books.to EXCEPT ![p] = r]]

\* The assignment so far: per register and interval the sum of what it paid, per
\* payment its register.
AssignAll(regs, anchors, payments) ==
  FoldLeft(LAMBDA books, p :
             IF regs = <<>> THEN books
             ELSE AssignTo(regs, anchors, books, p, PayingRegister(regs, anchors, books.sums, p)),
           [sums |-> [r \in ToSet(regs) |-> [i \in 0 .. Len(anchors[r]) |-> 0]],
            to |-> [p \in payments |-> NoRegister]],
           PaymentsInOrder(payments))

assignTransactions(counts, payments) ==
  AssignAll(registerNumbers(counts),
            [r \in CountedRegisters(counts) |-> loadRegisterAnchors(counts, r)], payments)

\* The registers' balances, from the last counts and what is pending: cashTotal.
BalanceAfter(anchors, sums) == rc(Last(anchors).after, sums[Len(anchors)])

TotalCash(counts, sums) ==
  SumOver([r \in DOMAIN sums |-> BalanceAfter(loadRegisterAnchors(counts, r), sums[r])],
          DOMAIN sums)

computeTotalMoney(counts, payments, day) ==
  TotalCash(CountsUntil(counts, day),
    assignTransactions(CountsUntil(counts, day), PaymentsUntil(payments, day)).sums)

-----------------------------------------------------------------------------
(* buildCashLedger: the same story event by event.                         *)

NothingBooked == [expected |-> <<>>, differences |-> {}]

Expected(books, r) == IF r \in DOMAIN books.expected THEN books.expected[r] ELSE 0

BookPayment(books, r, p) ==
  IF r = NoRegister THEN books
  ELSE [expected |-> [s \in DOMAIN books.expected \cup {r} |->
                        IF s = r THEN rc(Expected(books, r), p.amount) ELSE books.expected[s]],
        differences |-> books.differences]

\* `counted` are the registers that were counted before: a register's first count
\* finds no difference.  Then the books are snapped to what was counted, and the
\* event's revenue is added.
BookCount_keepsBooks(books, counted, c, amounts) ==
  [expected |-> [s \in DOMAIN books.expected \cup DOMAIN amounts |->
                   IF s \in DOMAIN books.expected /\ s \in DOMAIN amounts
                   THEN books.expected[s] + amounts[s].after - amounts[s].before
                   ELSE IF s \in DOMAIN amounts THEN amounts[s].after ELSE books.expected[s]],
   differences |-> books.differences \cup
     {[count |-> c, register |-> s, amount |-> amounts[s].before - books.expected[s]] :
        s \in {t \in DOMAIN amounts \cap counted : amounts[t].before # books.expected[t]}}]

BookCount(books, counted, c, amounts) ==
  [expected |-> [s \in DOMAIN books.expected \cup DOMAIN amounts |->
                   IF s \in DOMAIN amounts THEN amounts[s].after ELSE books.expected[s]],
   differences |-> books.differences \cup
     {[count |-> c, register |-> s, amount |-> amounts[s].before - books.expected[s]] :
        s \in {t \in DOMAIN amounts \cap counted : amounts[t].before # books.expected[t]}}]

Events(counts, payments) ==
  {[day |-> p.day, order |-> 1, id |-> p.id, payment |-> p] : p \in payments} \cup
  {[day |-> DayOf(counts[c].at), order |-> 2, id |-> c] : c \in DOMAIN counts}

HappensBefore_countsFirst(e, f) ==
  \/ e.day < f.day
  \/ e.day = f.day /\ e.order > f.order
  \/ e.day = f.day /\ e.order = f.order /\ e.id < f.id

\* Payments come before the counts of their day, counts in the order of their ids.
HappensBefore(e, f) ==
  \/ e.day < f.day
  \/ e.day = f.day /\ e.order < f.order
  \/ e.day = f.day /\ e.order = f.order /\ e.id < f.id

LedgerEvents(counts, payments) ==
  LET events == Events(counts, payments) IN
  InOrder([e \in events |-> {f \in events : HappensBefore(f, e)}])

\* The registers counted before a count, on the ledger's order of events.
CountedEarlier(counts, e) ==
  UNION {DOMAIN counts[d].amounts :
           d \in {d \in DOMAIN counts : \/ DayOf(counts[d].at) < e.day
                                        \/ DayOf(counts[d].at) = e.day /\ d < e.id}}

BookEvent(books, e, counts, to) ==
  IF e.order = 1 THEN BookPayment(books, to[e.payment], e.payment)
  ELSE BookCount(books, CountedEarlier(counts, e), e.id, counts[e.id].amounts)

BookAll(counts, payments, to) ==
  FoldLeft(LAMBDA books, e : BookEvent(books, e, counts, to),
           NothingBooked, LedgerEvents(counts, payments))

LedgerOf(counts, payments) == BookAll(counts, payments, assignTransactions(counts, payments).to)

buildCashLedger(counts, payments, day) ==
  LedgerOf(CountsUntil(counts, day), PaymentsUntil(payments, day))

\* cashSum: the cash balance after the ledger's last row.
finalCash(ledger) == SumOver(ledger.expected, DOMAIN ledger.expected)

\* The net difference of a count in a report that ends on `day`; 0: nothing to
\* report.
buildCashDiscrepancyItems(counts, payments, day, c) ==
  Amount({d \in buildCashLedger(counts, payments, day).differences : d.count = c})

\* The same on the count's own page.
loadCashCountDiscrepancies(counts, payments, c) ==
  buildCashDiscrepancyItems(counts, payments, DayOf(counts[c].at), c)
=============================================================================
