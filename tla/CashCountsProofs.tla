-------------------------- MODULE CashCountsProofs --------------------------
(***************************************************************************)
(* Theorems about CashCounts for every set of counts, payments, sessions   *)
(* and bounds: the types, the lock of confirmed counts, and what the cash  *)
(* ledger of module CashLedger promises of every day.                      *)
(*                                                                         *)
(* The ledger and the assignment are folds over lists whose order is       *)
(* computed.  InOrderLists and InOrderPrefix say what such a list holds;   *)
(* BookWalk and AssignWalk turn a fold into a walk, one event or payment   *)
(* at a time; LedgerInv and AssignInv are kept by every step of their      *)
(* walk (LedgerTellsStory, AssignTellsStory).  The theorems follow from    *)
(* what the two tell at the end.                                           *)
(***************************************************************************)
EXTENDS CashCounts, SequenceTheorems, FiniteSetTheorems, WellFoundedInduction, TLAPS

\* A request that is open names a count there is.
LEMMA PlanNamesCount ==
    ASSUME TypeOK, NEW s \in Sessions, plan[s] # Idle
    PROVE  plan[s].count \in DOMAIN counts /\ plan[s].unlock \in BOOLEAN
  BY DEF TypeOK, WellFormed

\* A step that keeps the tables and gives one session a well-formed plan keeps the
\* types.
LEMMA PlanType ==
    ASSUME TypeOK, UNCHANGED <<counts, payments, booking>>,
           NEW s \in Sessions, NEW p, WellFormed(p), plan' = [plan EXCEPT ![s] = p]
    PROVE  TypeOK'
<1>1. DOMAIN plan' = Sessions
  BY DEF TypeOK
<1>2. ASSUME NEW t \in Sessions PROVE WellFormed(plan[t])'
  <2>1. plan'[t] = IF t = s THEN p ELSE plan[t]
    BY DEF TypeOK
  <2>2. WellFormed(plan'[t])
    BY <2>1 DEF TypeOK
  <2>3. QED
    BY <2>2 DEF WellFormed
<1>3. QED
  BY <1>1, <1>2 DEF TypeOK

\* The plans and tables of CashCounts are well-formed at every step.
THEOREM CashTypeCorrect == Spec => []TypeOK
<1>1. Init => TypeOK
  <2>1. <<>> \in Seq(CountForms) /\ Len(<<>>) = 0 /\ DOMAIN <<>> = {}
    OBVIOUS
  <2>2. Init => /\ counts \in Seq(CountForms) /\ Len(counts) <= MaxCounts
                /\ DOMAIN booking = {} /\ payments = {}
    BY <2>1, CashAssumption DEF Init
  <2>3. Init => DOMAIN plan = Sessions /\ \A s \in Sessions : WellFormed(plan[s])
    BY DEF Init, WellFormed
  <2>4. QED
    BY <2>2, <2>3 DEF TypeOK
<1>2. TypeOK /\ [Next]_vars => TypeOK'
  <2> SUFFICES ASSUME TypeOK, [Next]_vars PROVE TypeOK'
    OBVIOUS
  <2>1. ASSUME NEW p \in PaymentForms, CashPayment(p) PROVE TypeOK'
    BY <2>1 DEF CashPayment, TypeOK, WellFormed
  <2>2. ASSUME NEW form \in CountForms, CreateCount(form) PROVE TypeOK'
    <3>1. counts' \in Seq(CountForms) /\ Len(counts') = Len(counts) + 1
      BY <2>2 DEF CreateCount, TypeOK
    <3>2. Len(counts') <= MaxCounts
      BY <2>2, <3>1, CashAssumption DEF CreateCount, TypeOK
    <3>3. DOMAIN counts \subseteq DOMAIN counts'
      BY <3>1 DEF TypeOK
    <3>4. \A t \in Sessions : WellFormed(plan[t])'
      BY <2>2, <3>3 DEF CreateCount, TypeOK, WellFormed
    <3>5. QED
      BY <2>2, <3>1, <3>2, <3>3, <3>4 DEF CreateCount, TypeOK
  <2>3. ASSUME NEW s \in Sessions, NEW c \in DOMAIN counts, NEW form \in CountForms,
               NEW u \in BOOLEAN, ReadCountPut(s, c, form, u)
        PROVE  TypeOK'
    BY <2>3, PlanType DEF ReadCountPut, WellFormed
  <2>4. ASSUME NEW s \in Sessions, WriteCountPut(s) PROVE TypeOK'
    <3>1. plan[s].form \in CountForms /\ plan[s].count \in DOMAIN counts
      BY <2>4 DEF WriteCountPut, TypeOK, WellFormed, Idle
    <3>2. counts' \in Seq(CountForms) /\ Len(counts') = Len(counts)
      BY <2>4, <3>1, ExceptSeq DEF WriteCountPut, TypeOK
    <3>3. DOMAIN counts' = DOMAIN counts
      BY <2>4 DEF WriteCountPut
    <3>4. \A t \in Sessions : WellFormed(plan[t])'
      BY <2>4, <3>3 DEF WriteCountPut, TypeOK, WellFormed
    <3>5. QED
      BY <2>4, <3>2, <3>3, <3>4 DEF WriteCountPut, TypeOK
  <2>5. ASSUME NEW s \in Sessions, NEW c \in DOMAIN counts, NEW u \in BOOLEAN,
               AskConfirm(s, c, u) \/ AskWithdraw(s, c, u)
        PROVE  TypeOK'
    BY <2>5, PlanType DEF AskConfirm, AskWithdraw, WellFormed
  <2>6. ASSUME NEW s \in Sessions, ReadDifference(s) PROVE TypeOK'
    <3> DEFINE amount == loadCashCountDiscrepancies(counts, payments, plan[s].count)
    <3>1. plan[s] # Idle
      BY <2>6 DEF ReadDifference, Idle
    <3>2. WellFormed(ToConfirm(s, amount))
      <4> HIDE DEF amount
      <4>1. QED BY <3>1, PlanNamesCount DEF WellFormed, ToConfirm
    <3>3. QED
      BY <2>6, <3>2, PlanType DEF ReadDifference
  <2>7. ASSUME NEW s \in Sessions,
               upsertCashDiscrepancyBooking(s) \/ deleteCashDiscrepancyBooking(s)
        PROVE  TypeOK'
    <3>1. plan[s] # Idle /\ (plan[s].kind = "confirm" => plan[s].amount # 0)
      BY <2>7 DEF upsertCashDiscrepancyBooking, deleteCashDiscrepancyBooking, TypeOK,
                  WellFormed, Idle
    <3>2. /\ DOMAIN booking' \subseteq DOMAIN counts
          /\ \A c \in DOMAIN booking' : booking'[c] # 0
      BY <2>7, <3>1, PlanNamesCount
         DEF upsertCashDiscrepancyBooking, deleteCashDiscrepancyBooking, TypeOK
    <3>3. \A t \in Sessions : WellFormed(plan[t])'
      BY <2>7 DEF upsertCashDiscrepancyBooking, deleteCashDiscrepancyBooking, TypeOK, WellFormed
    <3>4. QED
      BY <2>7, <3>2, <3>3
         DEF upsertCashDiscrepancyBooking, deleteCashDiscrepancyBooking, TypeOK
  <2>8. ASSUME NEW s \in Sessions, Fail(s) PROVE TypeOK'
    BY <2>8, PlanType DEF Fail, WellFormed
  <2>9. ASSUME UNCHANGED vars PROVE TypeOK'
    BY <2>9 DEF vars, TypeOK, WellFormed
  <2>10. QED
    BY <2>1, <2>2, <2>3, <2>4, <2>5, <2>6, <2>7, <2>8, <2>9 DEF Next
<1>3. QED
  BY <1>1, <1>2, PTL DEF Spec

-----------------------------------------------------------------------------
(* Requests that do not overlap.                                           *)

\* What an open request without the unlock found unconfirmed still is.
LockInv ==
  \A s \in Sessions :
    plan[s] # Idle /\ ~plan[s].unlock => plan[s].count \notin DOMAIN booking

\* LockInv is inductive as long as no two requests overlap.
THEOREM SerialLock == Spec /\ []NoOverlap => []LockInv
<1>1. Init => LockInv
  BY DEF Init, LockInv
<1>2. TypeOK /\ NoOverlap /\ LockInv /\ [Next]_vars => LockInv'
  <2> SUFFICES ASSUME TypeOK, NoOverlap, LockInv, [Next]_vars, NEW t \in Sessions,
                      plan'[t] # Idle, ~plan'[t].unlock
               PROVE  plan'[t].count \notin DOMAIN booking'
    BY DEF LockInv
  <2>1. ASSUME NEW s \in Sessions, NEW c \in DOMAIN counts,
               \/ \E form \in CountForms, u \in BOOLEAN : ReadCountPut(s, c, form, u)
               \/ \E u \in BOOLEAN : AskConfirm(s, c, u) \/ AskWithdraw(s, c, u)
        PROVE  plan'[t].count \notin DOMAIN booking'
    <3>1. CASE t = s
      BY <2>1, <3>1 DEF TypeOK, ReadCountPut, AskConfirm, AskWithdraw, lockError, isCashCountLocked
    <3>2. CASE t # s
      BY <2>1, <3>2 DEF TypeOK, LockInv, ReadCountPut, AskConfirm, AskWithdraw
    <3>3. QED
      BY <3>1, <3>2
  <2>2. ASSUME NEW s \in Sessions, ReadDifference(s)
        PROVE  plan'[t].count \notin DOMAIN booking'
    <3> DEFINE amount == loadCashCountDiscrepancies(counts, payments, plan[s].count)
    <3> HIDE DEF amount
    <3>1. /\ plan' = [plan EXCEPT ![s] = ToConfirm(s, amount)]
          /\ booking' = booking
          /\ plan[s] # Idle
      BY <2>2 DEF ReadDifference, amount, Idle
    <3>2. plan'[t].count = plan[t].count /\ plan'[t].unlock = plan[t].unlock /\ plan[t] # Idle
      BY <3>1 DEF TypeOK, ToConfirm
    <3>3. QED
      BY <3>1, <3>2 DEF LockInv
  <2>3. ASSUME NEW s \in Sessions,
               \/ WriteCountPut(s) \/ Fail(s)
               \/ upsertCashDiscrepancyBooking(s) \/ deleteCashDiscrepancyBooking(s)
        PROVE  plan'[t].count \notin DOMAIN booking'
    <3>1. plan[s] # Idle
      BY <2>3 DEF WriteCountPut, Fail, upsertCashDiscrepancyBooking,
                  deleteCashDiscrepancyBooking, Idle
    <3>2. t # s /\ plan'[t] = plan[t]
      BY <2>3 DEF TypeOK, WriteCountPut, Fail, upsertCashDiscrepancyBooking,
                  deleteCashDiscrepancyBooking
    <3>3. FALSE
      BY <3>1, <3>2 DEF NoOverlap
    <3>4. QED
      BY <3>3
  <2>4. CASE (\E p \in PaymentForms : CashPayment(p)) \/ (\E form \in CountForms : CreateCount(form))
    BY <2>4 DEF CashPayment, CreateCount, LockInv
  <2>5. CASE UNCHANGED vars
    BY <2>5 DEF vars, LockInv
  <2>6. QED
    BY <2>1, <2>2, <2>3, <2>4, <2>5 DEF Next
<1>3. QED
  BY <1>1, <1>2, CashTypeCorrect, PTL DEF Spec

\* Without overlapping requests only an unlocked request changes a confirmed count or
\* its confirmation.
THEOREM SerialConfirmedOnlyUnlocked == Spec /\ []NoOverlap => ConfirmedOnlyUnlocked
<1> DEFINE Unlocked ==
      \A c \in DOMAIN booking :
        (counts'[c] # counts[c] \/ c \notin DOMAIN booking' \/ booking'[c] # booking[c]) =>
          \E s \in Sessions : plan[s] # Idle /\ plan[s].count = c /\ plan[s].unlock
<1>1. TypeOK /\ LockInv /\ [Next]_vars => [Unlocked]_vars
  <2> SUFFICES ASSUME TypeOK, LockInv, Next, NEW c \in DOMAIN booking,
                      counts'[c] # counts[c] \/ c \notin DOMAIN booking' \/ booking'[c] # booking[c]
               PROVE  \E s \in Sessions : plan[s] # Idle /\ plan[s].count = c /\ plan[s].unlock
    OBVIOUS
  <2>1. ASSUME NEW s \in Sessions, plan[s] # Idle, plan[s].count = c
        PROVE  plan[s].unlock
    BY <2>1, PlanNamesCount DEF LockInv
  <2>2. ASSUME NEW form \in CountForms, CreateCount(form) PROVE FALSE
    BY <2>2 DEF CreateCount, TypeOK
  <2>3. ASSUME NEW s \in Sessions,
               \/ WriteCountPut(s)
               \/ upsertCashDiscrepancyBooking(s) \/ deleteCashDiscrepancyBooking(s)
        PROVE  plan[s] # Idle /\ plan[s].count = c
    BY <2>3 DEF WriteCountPut, upsertCashDiscrepancyBooking, deleteCashDiscrepancyBooking,
                TypeOK, Idle
  <2>4. ASSUME NEW s \in Sessions,
               \/ \E d \in DOMAIN counts, form \in CountForms, u \in BOOLEAN :
                    ReadCountPut(s, d, form, u)
               \/ \E d \in DOMAIN counts, u \in BOOLEAN : AskConfirm(s, d, u) \/ AskWithdraw(s, d, u)
               \/ ReadDifference(s) \/ Fail(s)
        PROVE  FALSE
    BY <2>4 DEF ReadCountPut, AskConfirm, AskWithdraw, ReadDifference, Fail
  <2>5. ASSUME NEW p \in PaymentForms, CashPayment(p) PROVE FALSE
    BY <2>5 DEF CashPayment
  <2>6. QED
    BY <2>1, <2>2, <2>3, <2>4, <2>5 DEF Next
<1>2. QED
  BY <1>1, CashTypeCorrect, SerialLock, PTL DEF Spec, ConfirmedOnlyUnlocked

-----------------------------------------------------------------------------
(* Induction, about a set instead of a predicate.                          *)

Below == {ss \in Nat \X Nat : ss[1] < ss[2]}

\* The order of the natural numbers is well-founded.
LEMMA BelowWF == IsWellFoundedOn(Below, Nat)
  BY NatLessThanWellFounded DEF OpToRel, Below

\* Some numbers have a least one.
LEMMA Least ==
  ASSUME NEW T, T \subseteq Nat, T # {}
  PROVE  \E n \in T : \A m \in T : n <= m
<1>1. PICK n \in T : \A m \in T : <<m, n>> \notin Below
  BY BelowWF, WFMin
<1>2. ASSUME NEW m \in T PROVE n <= m
  <2>1. m \in Nat /\ n \in Nat
    OBVIOUS
  <2>2. ~(m < n)
    BY <1>1, <2>1 DEF Below
  <2>3. QED
    BY <2>1, <2>2
<1>3. QED
  BY <1>2

\* Induction over the natural numbers.
LEMMA Induct ==
  ASSUME NEW S, S \subseteq Nat, 0 \in S, \A n \in Nat : n \in S => n + 1 \in S
  PROVE  Nat \subseteq S
<1> SUFFICES ASSUME Nat \ S # {} PROVE FALSE
  OBVIOUS
<1>1. PICK n \in Nat \ S : \A m \in Nat \ S : n <= m
  BY Least
<1>2. n # 0 /\ n - 1 \in Nat
  BY <1>1
<1>3. n - 1 \in S
  BY <1>1, <1>2
<1>4. QED
  BY <1>1, <1>2, <1>3

\* Induction over the subsets of a finite set, one element less at a time.
LEMMA SubsetInduct ==
  ASSUME NEW S, IsFiniteSet(S), NEW Good,
         \A T \in SUBSET S : (\A x \in T : T \ {x} \in Good) => T \in Good
  PROVE  SUBSET S \subseteq Good
<1> DEFINE K == {n \in Nat : \A T \in SUBSET S : Cardinality(T) = n => T \in Good}
<1>1. \A T \in SUBSET S : IsFiniteSet(T) /\ Cardinality(T) \in Nat
  BY FS_Subset, FS_CardinalityType
<1>2. 0 \in K
  <2>1. \A T \in SUBSET S : Cardinality(T) = 0 => T = {}
    BY <1>1, FS_EmptySet
  <2>2. \A T \in SUBSET S : Cardinality(T) = 0 => T \in Good
    BY <2>1
  <2>3. QED
    BY <2>2
<1>3. ASSUME NEW n \in Nat, n \in K PROVE n + 1 \in K
  <2>1. ASSUME NEW T \in SUBSET S, Cardinality(T) = n + 1, NEW x \in T
        PROVE  T \ {x} \in Good
    <3>1. IsFiniteSet(T)
      BY <1>1
    <3>2. Cardinality(T \ {x}) = Cardinality(T) - 1
      BY <3>1, FS_RemoveElement
    <3>3. Cardinality(T \ {x}) = n /\ T \ {x} \in SUBSET S
      BY <2>1, <3>2
    <3>4. QED
      BY <1>3, <3>3
  <2>2. \A T \in SUBSET S : Cardinality(T) = n + 1 => T \in Good
    BY <2>1
  <2>3. QED
    BY <2>2
<1> HIDE DEF K
<1>4. Nat \subseteq K
  BY <1>2, <1>3, Induct DEF K
<1>5. ASSUME NEW T \in SUBSET S PROVE T \in Good
  <2>1. Cardinality(T) \in K
    BY <1>1, <1>4
  <2>2. QED
    BY <2>1 DEF K
<1>6. QED
  BY <1>5

-----------------------------------------------------------------------------
(* Sums over finite sets.                                                  *)

Pick(s) == CHOOSE x \in s : TRUE

SumStep(f, g, s) == IF s = {} THEN 0 ELSE f[Pick(s)] + g[s \ {Pick(s)}]

SumIter(f, S) == CHOOSE g : g = [s \in SUBSET S |-> SumStep(f, g, s)]

\* The sum of the model is that recursion, at the whole set.
LEMMA SumIs ==
  ASSUME NEW f, NEW S
  PROVE  SumOver(f, S) = SumIter(f, S)[S]
  BY DEF SumOver, MapThenSumSet, MapThenFoldSet, SumIter, SumStep, Pick

\* The recursion that adds up a finite set can be followed to its end.
LEMMA SumReaches ==
  ASSUME NEW f, NEW S, IsFiniteSet(S)
  PROVE  \A s \in SUBSET S : SumIter(f, S)[s] = SumStep(f, SumIter(f, S), s)
<1> DEFINE Reaches(g, n) ==
             \A s \in SUBSET S : Cardinality(s) < n => g[s] = SumStep(f, g, s)
           K == {n \in Nat : \E g : Reaches(g, n)}
<1>1. \A s \in SUBSET S : IsFiniteSet(s) /\ Cardinality(s) \in Nat
  BY FS_Subset, FS_CardinalityType
<1>2. 0 \in K
  BY <1>1
<1>3. ASSUME NEW n \in Nat, n \in K PROVE n + 1 \in K
  <2>1. PICK g : Reaches(g, n)
    BY <1>3
  <2> DEFINE h == [s \in SUBSET S |-> SumStep(f, g, s)]
  <2>2. ASSUME NEW s \in SUBSET S, Cardinality(s) < n + 1
        PROVE  h[s] = SumStep(f, h, s)
    <3>1. CASE s = {}
      BY <3>1 DEF SumStep
    <3>2. CASE s # {}
      <4>1. Pick(s) \in s
        BY <3>2 DEF Pick
      <4>2. s \ {Pick(s)} \in SUBSET S /\ Cardinality(s \ {Pick(s)}) < n
        BY <1>1, <2>2, <4>1, FS_RemoveElement
      <4>3. h[s \ {Pick(s)}] = g[s \ {Pick(s)}]
        BY <2>1, <4>2
      <4>4. h[s] = SumStep(f, g, s)
        OBVIOUS
      <4> HIDE DEF h
      <4>5. QED
        BY <4>3, <4>4 DEF SumStep
    <3>3. QED
      BY <3>1, <3>2
  <2>3. Reaches(h, n + 1)
    BY <2>2
  <2> HIDE DEF h, Reaches
  <2>4. QED
    BY <2>3
<1> HIDE DEF K
<1>4. Cardinality(S) + 1 \in K
  <2>1. Nat \subseteq K
    BY <1>2, <1>3, Induct DEF K
  <2>2. QED
    BY <1>1, <2>1
<1>5. PICK g : \A s \in SUBSET S : g[s] = SumStep(f, g, s)
  <2>1. PICK g : Reaches(g, Cardinality(S) + 1)
    BY <1>4 DEF K
  <2>2. \A s \in SUBSET S : Cardinality(s) < Cardinality(S) + 1
    BY <1>1, FS_Subset
  <2>3. QED
    BY <2>1, <2>2
<1> DEFINE h == [s \in SUBSET S |-> g[s]]
<1>6. h = [s \in SUBSET S |-> SumStep(f, h, s)]
  <2>1. ASSUME NEW s \in SUBSET S PROVE h[s] = SumStep(f, h, s)
    <3>1. s \ {Pick(s)} \in SUBSET S /\ h[s] = g[s]
      OBVIOUS
    <3>2. h[s \ {Pick(s)}] = g[s \ {Pick(s)}]
      BY <3>1
    <3>3. g[s] = SumStep(f, g, s)
      BY <1>5
    <3> HIDE DEF h
    <3>4. QED
      BY <3>1, <3>2, <3>3 DEF SumStep
  <2>2. h = [s \in SUBSET S |-> h[s]]
    OBVIOUS
  <2> HIDE DEF h
  <2>3. QED
    BY <2>1, <2>2
<1> HIDE DEF h
<1>7. SumIter(f, S) = [s \in SUBSET S |-> SumStep(f, SumIter(f, S), s)]
  BY <1>6 DEF SumIter
<1> DEFINE k == SumIter(f, S)
<1> HIDE DEF k
<1>8. k = [s \in SUBSET S |-> SumStep(f, k, s)]
  BY <1>7 DEF k
<1>9. QED
  BY <1>8 DEF k

\* Adding up a set takes one element after the other.
LEMMA SumPicks ==
  ASSUME NEW f, NEW S, IsFiniteSet(S)
  PROVE  /\ SumOver(f, {}) = 0
         /\ S # {} => /\ Pick(S) \in S
                      /\ SumOver(f, S) = f[Pick(S)] + SumOver(f, S \ {Pick(S)})
<1>1. ASSUME NEW A, NEW B, IsFiniteSet(B), A \subseteq B
      PROVE  SumIter(f, A)[A] = SumIter(f, B)[A]
  <2> DEFINE Good == {s \in SUBSET A : SumIter(f, A)[s] = SumIter(f, B)[s]}
  <2>1. IsFiniteSet(A)
    BY <1>1, FS_Subset
  <2>2. ASSUME NEW s \in SUBSET A, \A x \in s : s \ {x} \in Good
        PROVE  s \in Good
    <3>1. s \in SUBSET B
      BY <1>1
    <3>2. /\ SumIter(f, A)[s] = SumStep(f, SumIter(f, A), s)
          /\ SumIter(f, B)[s] = SumStep(f, SumIter(f, B), s)
      BY <1>1, <2>1, <3>1, SumReaches
    <3>3. s # {} => SumIter(f, A)[s \ {Pick(s)}] = SumIter(f, B)[s \ {Pick(s)}]
      BY <2>2 DEF Pick
    <3>4. QED
      BY <3>2, <3>3 DEF SumStep
  <2> HIDE DEF Good
  <2>3. A \in Good
    BY <2>1, <2>2, SubsetInduct
  <2>4. QED
    BY <2>3 DEF Good
<1>2. ASSUME NEW T, IsFiniteSet(T)
      PROVE  SumIter(f, T)[T] = SumStep(f, SumIter(f, T), T)
  BY <1>2, SumReaches
<1>3. SumOver(f, {}) = 0
  BY <1>2, SumIs, FS_EmptySet DEF SumStep
<1>4. ASSUME S # {}
      PROVE  Pick(S) \in S /\ SumOver(f, S) = f[Pick(S)] + SumOver(f, S \ {Pick(S)})
  <2>1. Pick(S) \in S
    BY <1>4 DEF Pick
  <2>2. SumOver(f, S) = f[Pick(S)] + SumIter(f, S)[S \ {Pick(S)}]
    BY <1>2, <1>4, SumIs DEF SumStep
  <2>3. SumIter(f, S)[S \ {Pick(S)}] = SumOver(f, S \ {Pick(S)})
    BY <1>1, SumIs
  <2>4. QED
    BY <2>1, <2>2, <2>3
<1>5. QED
  BY <1>3, <1>4

\* A sum of numbers is a number.
LEMMA SumType ==
  ASSUME NEW f, NEW S, IsFiniteSet(S), \A x \in S : f[x] \in Int
  PROVE  SumOver(f, S) \in Int
<1> DEFINE Good == {T \in SUBSET S : SumOver(f, T) \in Int}
<1>1. ASSUME NEW T \in SUBSET S, \A x \in T : T \ {x} \in Good
      PROVE  T \in Good
  <2>1. IsFiniteSet(T)
    BY FS_Subset
  <2>2. CASE T = {}
    <3>1. SumOver(f, T) = 0
      BY <2>1, <2>2, SumPicks
    <3>2. QED
      BY <3>1
  <2>3. CASE T # {}
    <3>1. PICK y \in T : SumOver(f, T) = f[y] + SumOver(f, T \ {y})
      BY <2>1, <2>3, SumPicks
    <3>2. f[y] \in Int /\ SumOver(f, T \ {y}) \in Int
      BY <1>1
    <3>3. SumOver(f, T) \in Int
      BY <3>1, <3>2
    <3>4. QED
      BY <3>3
  <2>4. QED
    BY <2>2, <2>3
<1> HIDE DEF Good
<1>2. S \in Good
  BY <1>1, SubsetInduct
<1>3. QED
  BY <1>2 DEF Good

\* The numbers may be added in any order.
LEMMA SumRemoves ==
  ASSUME NEW f, NEW S, IsFiniteSet(S), \A x \in S : f[x] \in Int
  PROVE  \A x \in S : SumOver(f, S) = f[x] + SumOver(f, S \ {x})
<1> DEFINE Good == {T \in SUBSET S : \A x \in T : SumOver(f, T) = f[x] + SumOver(f, T \ {x})}
<1>1. ASSUME NEW T \in SUBSET S, \A x \in T : T \ {x} \in Good
      PROVE  T \in Good
  <2> SUFFICES ASSUME NEW x \in T PROVE SumOver(f, T) = f[x] + SumOver(f, T \ {x})
    OBVIOUS
  <2>1. IsFiniteSet(T)
    BY FS_Subset
  <2>2. PICK y \in T : SumOver(f, T) = f[y] + SumOver(f, T \ {y})
    BY <2>1, SumPicks
  <2>3. ASSUME x # y PROVE SumOver(f, T) = f[x] + SumOver(f, T \ {x})
    <3> DEFINE R == (T \ {y}) \ {x}
    <3>1. x \in T \ {y} /\ y \in T \ {x} /\ R = (T \ {x}) \ {y} /\ R \in SUBSET S
      BY <2>3
    <3>2. SumOver(f, T \ {y}) = f[x] + SumOver(f, R)
      BY <1>1, <3>1
    <3>3. SumOver(f, T \ {x}) = f[y] + SumOver(f, R)
      BY <1>1, <3>1
    <3>4. f[x] \in Int /\ f[y] \in Int
      OBVIOUS
    <3>5. SumOver(f, R) \in Int
      <4>1. IsFiniteSet(R) /\ \A z \in R : f[z] \in Int
        BY <3>1, FS_Subset
      <4>2. QED
        BY <4>1, SumType
    <3> HIDE DEF R
    <3>6. QED
      BY <2>2, <3>2, <3>3, <3>4, <3>5
  <2>4. QED
    BY <2>2, <2>3
<1> HIDE DEF Good
<1>2. S \in Good
  BY <1>1, SubsetInduct
<1>3. QED
  BY <1>2 DEF Good

\* One more element adds its number to a sum.
LEMMA SumAdds ==
  ASSUME NEW f, NEW S, NEW x, IsFiniteSet(S), x \notin S, \A y \in S \cup {x} : f[y] \in Int
  PROVE  SumOver(f, S \cup {x}) = SumOver(f, S) + f[x] /\ SumOver(f, S) \in Int
<1>1. PICK T : T = S \cup {x}
  OBVIOUS
<1>2. IsFiniteSet(T) /\ x \in T /\ T \ {x} = S /\ \A y \in T : f[y] \in Int
  BY <1>1, FS_AddElement
<1>3. SumOver(f, T) = f[x] + SumOver(f, S)
  BY <1>2, SumRemoves
<1>4. SumOver(f, S) \in Int /\ f[x] \in Int
  BY SumType
<1>5. QED
  BY <1>1, <1>3, <1>4

\* A sum depends on the numbers that are added only.
LEMMA SumSame ==
  ASSUME NEW f, NEW g, NEW S, IsFiniteSet(S), \A x \in S : f[x] \in Int /\ f[x] = g[x]
  PROVE  SumOver(f, S) = SumOver(g, S)
<1> DEFINE Good == {T \in SUBSET S : SumOver(f, T) = SumOver(g, T)}
<1>1. ASSUME NEW T \in SUBSET S, \A x \in T : T \ {x} \in Good
      PROVE  T \in Good
  <2>1. IsFiniteSet(T)
    BY FS_Subset
  <2>2. CASE T = {}
    BY <2>1, <2>2, SumPicks
  <2>3. CASE T # {}
    <3>1. PICK x \in T : TRUE
      BY <2>3
    <3>2. \A y \in T : f[y] \in Int /\ g[y] \in Int
      OBVIOUS
    <3>3. SumOver(f, T) = f[x] + SumOver(f, T \ {x}) /\ SumOver(g, T) = g[x] + SumOver(g, T \ {x})
      BY <2>1, <3>2, SumRemoves
    <3>4. SumOver(f, T \ {x}) = SumOver(g, T \ {x})
      BY <1>1
    <3>5. QED
      BY <3>3, <3>4
  <2>4. QED
    BY <2>2, <2>3
<1> HIDE DEF Good
<1>2. S \in Good
  BY <1>1, SubsetInduct
<1>3. QED
  BY <1>2 DEF Good

\* Sums add up number by number.
LEMMA SumOfBoth ==
  ASSUME NEW f, NEW g, NEW h, NEW S, IsFiniteSet(S),
         \A x \in S : f[x] \in Int /\ g[x] \in Int /\ h[x] = f[x] + g[x]
  PROVE  SumOver(h, S) = SumOver(f, S) + SumOver(g, S)
<1> DEFINE Good == {T \in SUBSET S : SumOver(h, T) = SumOver(f, T) + SumOver(g, T)}
<1>1. ASSUME NEW T \in SUBSET S, \A x \in T : T \ {x} \in Good
      PROVE  T \in Good
  <2>1. IsFiniteSet(T)
    BY FS_Subset
  <2>2. CASE T = {}
    <3>1. SumOver(f, T) = 0 /\ SumOver(g, T) = 0 /\ SumOver(h, T) = 0
      BY <2>1, <2>2, SumPicks
    <3>2. QED
      BY <3>1
  <2>3. CASE T # {}
    <3>1. PICK x \in T : TRUE
      BY <2>3
    <3>2. \A y \in T : f[y] \in Int /\ g[y] \in Int /\ h[y] \in Int
      OBVIOUS
    <3>3. /\ SumOver(f, T) = f[x] + SumOver(f, T \ {x})
          /\ SumOver(g, T) = g[x] + SumOver(g, T \ {x})
          /\ SumOver(h, T) = h[x] + SumOver(h, T \ {x})
      BY <2>1, <3>2, SumRemoves
    <3>4. SumOver(h, T \ {x}) = SumOver(f, T \ {x}) + SumOver(g, T \ {x})
      BY <1>1
    <3>5. IsFiniteSet(T \ {x})
      BY <2>1, FS_RemoveElement
    <3>6. SumOver(f, T \ {x}) \in Int /\ SumOver(g, T \ {x}) \in Int
      BY <3>2, <3>5, SumType
    <3>7. h[x] = f[x] + g[x] /\ f[x] \in Int /\ g[x] \in Int
      OBVIOUS
    <3>8. QED
      BY <3>3, <3>4, <3>6, <3>7
  <2>4. QED
    BY <2>2, <2>3
<1> HIDE DEF Good
<1>2. S \in Good
  BY <1>1, SubsetInduct
<1>3. QED
  BY <1>2 DEF Good

\* Amounts of records, added up.
Amounts(S) == IsFiniteSet(S) /\ \A x \in S : x.amount \in Int

\* What records come to is a number, and nothing comes to 0.
LEMMA AmountType ==
  ASSUME NEW S, Amounts(S)
  PROVE  Amount(S) \in Int /\ Amount({}) = 0
<1> DEFINE f == [x \in S |-> x.amount]
<1>1. \A x \in S : f[x] \in Int
  BY DEF Amounts
<1>2. Amount(S) = SumOver(f, S)
  BY DEF Amount
<1>3. SumOver([x \in {} |-> x.amount], {}) = 0
  BY SumPicks, FS_EmptySet
<1> HIDE DEF f
<1>4. SumOver(f, S) \in Int
  BY <1>1, SumType DEF Amounts
<1>5. QED
  BY <1>2, <1>3, <1>4 DEF Amount

\* One more record adds its amount.
LEMMA AmountAdds ==
  ASSUME NEW S, NEW x, Amounts(S), x \notin S, x.amount \in Int
  PROVE  Amount(S \cup {x}) = Amount(S) + x.amount /\ Amounts(S \cup {x})
<1> DEFINE f == [y \in S |-> y.amount]
           g == [y \in S \cup {x} |-> y.amount]
<1>1. Amount(S) = SumOver(f, S) /\ Amount(S \cup {x}) = SumOver(g, S \cup {x})
  BY DEF Amount
<1>2. /\ \A y \in S \cup {x} : g[y] \in Int
      /\ \A y \in S : f[y] \in Int /\ f[y] = g[y]
      /\ g[x] = x.amount
  BY DEF Amounts
<1>3. IsFiniteSet(S) /\ IsFiniteSet(S \cup {x}) /\ Amounts(S \cup {x})
  BY FS_AddElement DEF Amounts
<1> HIDE DEF f, g
<1>4. SumOver(g, S \cup {x}) = SumOver(g, S) + g[x]
  BY <1>2, <1>3, SumAdds
<1>5. SumOver(f, S) = SumOver(g, S)
  BY <1>2, <1>3, SumSame
<1>6. QED
  BY <1>1, <1>2, <1>3, <1>4, <1>5

\* What two sets apart have in all.
LEMMA SumSplits ==
  ASSUME NEW f, NEW A, NEW B, IsFiniteSet(A), IsFiniteSet(B), A \cap B = {},
         \A x \in A \cup B : f[x] \in Int
  PROVE  SumOver(f, A \cup B) = SumOver(f, A) + SumOver(f, B)
<1> DEFINE Good == {T \in SUBSET B : SumOver(f, A \cup T) = SumOver(f, A) + SumOver(f, T)}
<1>1. SumOver(f, A) \in Int
  BY SumType
<1>2. ASSUME NEW T \in SUBSET B, \A x \in T : T \ {x} \in Good
      PROVE  T \in Good
  <2>1. CASE T = {}
    <3>1. A \cup T = A
      BY <2>1
    <3>2. SumOver(f, T) = 0
      BY <2>1, SumPicks, FS_EmptySet
    <3>3. QED
      BY <1>1, <3>1, <3>2
  <2>2. CASE T # {}
    <3>1. PICK x \in T : TRUE
      BY <2>2
    <3>2. PICK U \in SUBSET B : U = T \ {x}
      OBVIOUS
    <3>3. PICK V : V = A \cup U
      OBVIOUS
    <3>4. IsFiniteSet(U) /\ IsFiniteSet(V)
      BY <3>2, <3>3, FS_Subset, FS_Union
    <3>5. /\ x \notin U /\ x \notin V /\ f[x] \in Int
          /\ \A y \in U \cup {x} : f[y] \in Int
          /\ \A y \in V \cup {x} : f[y] \in Int
      BY <3>2, <3>3
    <3>6. /\ SumOver(f, U \cup {x}) = SumOver(f, U) + f[x] /\ SumOver(f, U) \in Int
          /\ SumOver(f, V \cup {x}) = SumOver(f, V) + f[x]
      BY <3>4, <3>5, SumAdds
    <3>7. SumOver(f, V) = SumOver(f, A) + SumOver(f, U)
      BY <1>2, <3>2, <3>3
    <3>8. U \cup {x} = T /\ V \cup {x} = A \cup T
      BY <3>2, <3>3
    <3>9. SumOver(f, T) = SumOver(f, U) + f[x] /\ SumOver(f, A \cup T) = SumOver(f, V) + f[x]
      BY <3>6, <3>8
    <3>10. SumOver(f, A \cup T) = SumOver(f, A) + SumOver(f, T)
      BY <1>1, <3>5, <3>6, <3>7, <3>9
    <3>11. QED
      BY <3>10
  <2>3. QED
    BY <2>1, <2>2
<1> HIDE DEF Good
<1>3. B \in Good
  BY <1>2, SubsetInduct
<1>4. QED
  BY <1>3 DEF Good

\* Payments, added up register by register.
LEMMA SumByRegister ==
  ASSUME NEW f, NEW Q, IsFiniteSet(Q), \A p \in Q : f[p] \in Int,
         NEW to, NEW R, IsFiniteSet(R), \A p \in Q : to[p] \in R
  PROVE  SumOver(f, Q) = SumOver([r \in R |-> SumOver(f, {p \in Q : to[p] = r})], R)
<1> DEFINE g == [r \in R |-> SumOver(f, {p \in Q : to[p] = r})]
           Paid(T) == {p \in Q : to[p] \in T}
           Good == {T \in SUBSET R : SumOver(f, Paid(T)) = SumOver(g, T)}
<1>1. \A P \in SUBSET Q : IsFiniteSet(P) /\ SumOver(f, P) \in Int
  <2> SUFFICES ASSUME NEW P \in SUBSET Q PROVE IsFiniteSet(P) /\ SumOver(f, P) \in Int
    OBVIOUS
  <2>1. IsFiniteSet(P)
    BY FS_Subset
  <2>2. QED
    BY <2>1, SumType
<1>2. \A r \in R : g[r] = SumOver(f, {p \in Q : to[p] = r}) /\ g[r] \in Int
  BY <1>1
<1> HIDE DEF g
<1>3. ASSUME NEW T \in SUBSET R, \A r \in T : T \ {r} \in Good
      PROVE  T \in Good
  <2>1. IsFiniteSet(T)
    BY FS_Subset
  <2>2. CASE T = {}
    <3>1. Paid(T) = {} /\ SumOver(g, T) = 0
      BY <2>1, <2>2, SumPicks
    <3>2. SumOver(f, {}) = 0
      BY SumPicks, FS_EmptySet
    <3>3. QED
      BY <3>1, <3>2
  <2>3. CASE T # {}
    <3>1. PICK r \in T : TRUE
      BY <2>3
    <3> DEFINE A == Paid(T \ {r})
               B == {p \in Q : to[p] = r}
    <3>2. A \in SUBSET Q /\ B \in SUBSET Q /\ A \cap B = {} /\ Paid(T) = A \cup B
      OBVIOUS
    <3>3. SumOver(f, A) = SumOver(g, T \ {r}) /\ SumOver(f, B) = g[r]
      BY <1>2, <1>3
    <3>4. SumOver(g, T) = g[r] + SumOver(g, T \ {r})
      <4>1. \A x \in T : g[x] \in Int
        BY <1>2
      <4>2. QED
        BY <2>1, <4>1, SumRemoves
    <3> HIDE DEF A, B, Paid
    <3>5. SumOver(f, Paid(T)) = SumOver(f, A) + SumOver(f, B)
      <4>1. \A x \in A \cup B : f[x] \in Int
        BY <3>2
      <4>2. QED
        BY <1>1, <3>2, <4>1, SumSplits
    <3>6. SumOver(f, A) \in Int /\ SumOver(f, B) \in Int
      BY <1>1, <3>2
    <3>7. QED
      BY <3>3, <3>4, <3>5, <3>6
  <2>4. QED
    BY <2>2, <2>3
<1>4. R \in Good
  <2> HIDE DEF Good
  <2>1. QED
    BY <1>3, SubsetInduct
<1>5. Paid(R) = Q
  OBVIOUS
<1>6. QED
  BY <1>4, <1>5 DEF g

\* Two sums lie no further apart than their numbers do in all.
LEMMA SumsApart ==
  ASSUME NEW f, NEW g, NEW h, NEW S, IsFiniteSet(S),
         \A x \in S : f[x] \in Int /\ g[x] \in Int /\ h[x] \in Int /\ Abs(f[x] - g[x]) <= h[x]
  PROVE  Abs(SumOver(f, S) - SumOver(g, S)) <= SumOver(h, S)
<1> DEFINE Good == {T \in SUBSET S : Abs(SumOver(f, T) - SumOver(g, T)) <= SumOver(h, T)}
<1>1. ASSUME NEW T \in SUBSET S, \A x \in T : T \ {x} \in Good
      PROVE  T \in Good
  <2>1. IsFiniteSet(T)
    BY FS_Subset
  <2>2. CASE T = {}
    <3>1. SumOver(f, T) = 0 /\ SumOver(g, T) = 0 /\ SumOver(h, T) = 0
      BY <2>1, <2>2, SumPicks
    <3>2. QED
      BY <3>1 DEF Abs
  <2>3. CASE T # {}
    <3>1. PICK x \in T : TRUE
      BY <2>3
    <3>2. \A y \in T : f[y] \in Int /\ g[y] \in Int /\ h[y] \in Int
      OBVIOUS
    <3>3. /\ SumOver(f, T) = f[x] + SumOver(f, T \ {x})
          /\ SumOver(g, T) = g[x] + SumOver(g, T \ {x})
          /\ SumOver(h, T) = h[x] + SumOver(h, T \ {x})
      BY <2>1, <3>2, SumRemoves
    <3>4. Abs(SumOver(f, T \ {x}) - SumOver(g, T \ {x})) <= SumOver(h, T \ {x})
      BY <1>1
    <3>5. IsFiniteSet(T \ {x})
      BY <2>1, FS_RemoveElement
    <3>6. /\ SumOver(f, T \ {x}) \in Int /\ SumOver(g, T \ {x}) \in Int
          /\ SumOver(h, T \ {x}) \in Int
      BY <3>2, <3>5, SumType
    <3>7. f[x] \in Int /\ g[x] \in Int /\ h[x] \in Int /\ Abs(f[x] - g[x]) <= h[x]
      OBVIOUS
    <3>8. ASSUME NEW i \in Int, NEW j \in Int, NEW k \in Int, NEW l \in Int, NEW m \in Int,
                 NEW n \in Int, Abs(i - j) <= k, Abs(l - m) <= n
          PROVE  Abs((i + l) - (j + m)) <= k + n
      BY <3>8 DEF Abs
    <3>9. Abs((f[x] + SumOver(f, T \ {x})) - (g[x] + SumOver(g, T \ {x})))
            <= h[x] + SumOver(h, T \ {x})
      BY <3>4, <3>6, <3>7, <3>8
    <3>10. QED
      BY <3>3, <3>9
  <2>4. QED
    BY <2>2, <2>3
<1> HIDE DEF Good
<1>2. S \in Good
  BY <1>1, SubsetInduct
<1>3. QED
  BY <1>2 DEF Good

\* The differences of a count, added up: the registers without one add nothing.
Items(m, c, R) == {[count |-> c, register |-> r, amount |-> m[r]] : r \in {r \in R : m[r] # 0}}

\* They come to the sum over all registers.
LEMMA AmountOfItems ==
  ASSUME NEW m, NEW c, NEW R, IsFiniteSet(R), \A r \in R : m[r] \in Int
  PROVE  Amount(Items(m, c, R)) = SumOver(m, R)
<1> DEFINE Good == {T \in SUBSET R : /\ Amounts(Items(m, c, T))
                                    /\ Amount(Items(m, c, T)) = SumOver(m, T)}
<1>1. ASSUME NEW T \in SUBSET R, \A r \in T : T \ {r} \in Good
      PROVE  T \in Good
  <2>1. IsFiniteSet(T)
    BY FS_Subset
  <2>2. CASE T = {}
    <3>1. Items(m, c, T) = {} /\ SumOver(m, T) = 0
      BY <2>1, <2>2, SumPicks DEF Items
    <3>2. Amounts({})
      BY FS_EmptySet DEF Amounts
    <3>3. QED
      BY <3>1, <3>2, AmountType
  <2>3. CASE T # {}
    <3>1. PICK r \in T : TRUE
      BY <2>3
    <3>2. PICK U \in SUBSET R : U = T \ {r}
      OBVIOUS
    <3>3. Amounts(Items(m, c, U)) /\ Amount(Items(m, c, U)) = SumOver(m, U)
      BY <1>1, <3>2
    <3>4. SumOver(m, T) = m[r] + SumOver(m, U) /\ SumOver(m, U) \in Int /\ m[r] \in Int
      <4>1. \A s \in T : m[s] \in Int
        OBVIOUS
      <4>2. SumOver(m, T) = m[r] + SumOver(m, T \ {r})
        BY <2>1, <4>1, SumRemoves
      <4>3. IsFiniteSet(U) /\ \A s \in U : m[s] \in Int
        BY FS_Subset
      <4>4. SumOver(m, U) \in Int
        BY <4>3, SumType
      <4>5. QED
        BY <3>2, <4>2, <4>4
    <3>5. CASE m[r] = 0
      <4>1. Items(m, c, T) = Items(m, c, U)
        BY <3>2, <3>5 DEF Items
      <4>2. QED
        BY <3>3, <3>4, <3>5, <4>1
    <3>6. CASE m[r] # 0
      <4>1. PICK x : x = [count |-> c, register |-> r, amount |-> m[r]]
        OBVIOUS
      <4>2. Items(m, c, T) = Items(m, c, U) \cup {x}
        BY <3>2, <3>6, <4>1 DEF Items
      <4>3. x \notin Items(m, c, U)
        <5>1. ASSUME NEW s \in U, x = [count |-> c, register |-> s, amount |-> m[s]]
              PROVE  FALSE
          <6>1. x.register = r /\ x.register = s
            BY <4>1, <5>1
          <6>2. QED
            BY <3>2, <6>1
        <5>2. QED
          BY <5>1 DEF Items
      <4>4. x.amount = m[r]
        BY <4>1
      <4>5. /\ Amount(Items(m, c, U) \cup {x}) = Amount(Items(m, c, U)) + x.amount
            /\ Amounts(Items(m, c, U) \cup {x})
        BY <3>3, <3>4, <4>3, <4>4, AmountAdds
      <4>6. Amount(Items(m, c, T)) = SumOver(m, T)
        BY <3>3, <3>4, <4>2, <4>4, <4>5
      <4>7. Amounts(Items(m, c, T))
        BY <4>2, <4>5
      <4>8. QED
        BY <4>6, <4>7
    <3>7. QED
      BY <3>5, <3>6
  <2>4. QED
    BY <2>2, <2>3
<1> HIDE DEF Good
<1>2. R \in Good
  BY <1>1, SubsetInduct
<1>3. QED
  BY <1>2 DEF Good

-----------------------------------------------------------------------------
(* Rounding.                                                               *)

\* No payment is of exactly half a cent.
NoHalfCents == \A p \in PaymentForms : 2 * (p.amount % Parts) # Parts

\* Parts of a cent to the nearest cent, half a cent down.
Nearest(parts) == parts \div Parts + IF 2 * (parts % Parts) > Parts THEN 1 ELSE 0

\* Some payments, each to the nearest cent.
Cents(S) == SumOver([p \in S |-> Nearest(p.amount)], S)

\* What rounding makes of some payments: x cents are what they come to, up to half a cent
\* for each that is no whole number of cents; and if none is of half a cent it does not
\* matter which books they met.
Rounded(x, S) ==
  /\ x \in Int
  /\ 2 * Abs(Parts * x - Amount(S)) <= Parts * Cardinality(Broken(S))
  /\ NoHalfCents => x = Cents(S)

\* There are some parts of a cent.
LEMMA PartsType == Parts \in Nat \ {0}
  BY SMT DEF Parts

\* Whole cents and what is left.
LEMMA Division ==
  ASSUME NEW parts \in Int
  PROVE  /\ parts \div Parts \in Int /\ parts % Parts \in 0 .. Parts - 1
         /\ parts = Parts * (parts \div Parts) + (parts % Parts)
  BY PartsType

\* Rounding is off by half a cent at most, and by nothing for whole cents.
LEMMA RoundType ==
  ASSUME NEW cents \in Int, NEW parts \in Int
  PROVE  /\ rc(cents, parts) \in Int
         /\ 2 * Abs(Parts * (rc(cents, parts) - cents) - parts) <= Parts
         /\ parts % Parts = 0 => Parts * (rc(cents, parts) - cents) = parts
         /\ 2 * (parts % Parts) # Parts => rc(cents, parts) - cents = Nearest(parts)
<1>1. PICK q \in Int : q = parts \div Parts
  BY Division
<1>2. PICK k \in Nat : k = parts % Parts /\ k < Parts
  BY Division, PartsType
<1>3. Parts \in Nat \ {0}
  BY PartsType
<1>4. PICK n \in Int : n = Parts * q
  BY <1>3
<1>5. parts = n + k
  BY <1>1, <1>2, <1>4, Division
<1>6. PICK up \in {0, 1} : up = IF RoundsUp(cents, parts) THEN 1 ELSE 0
  OBVIOUS
<1>7. rc(cents, parts) = cents + q + up
  BY <1>1, <1>6 DEF rc
<1>8. rc(cents, parts) \in Int /\ rc(cents, parts) - cents = q + up
  BY <1>7
<1>9. Parts * (q + up) = n + IF up = 1 THEN Parts ELSE 0
  BY <1>3, <1>4
<1>10. /\ up = 1 => 2 * k >= Parts
       /\ up = 0 => 2 * k <= Parts
       /\ 2 * k # Parts => (up = 1 <=> 2 * k > Parts)
  BY <1>2, <1>3, <1>6 DEF RoundsUp
<1>11. 2 * Abs(Parts * (q + up) - parts) <= Parts
  BY <1>2, <1>3, <1>5, <1>9, <1>10 DEF Abs
<1>12. k = 0 => Parts * (q + up) = parts
  BY <1>3, <1>5, <1>9, <1>10
<1>13. 2 * k # Parts => q + up = Nearest(parts)
  BY <1>1, <1>2, <1>6, <1>10 DEF Nearest
<1>14. QED
  BY <1>2, <1>8, <1>11, <1>12, <1>13

\* Payments to the nearest cent are numbers that are added up one by one.
LEMMA CentsAdd ==
  ASSUME NEW S, Amounts(S)
  PROVE  /\ \A x \in S : Nearest(x.amount) \in Int
         /\ Cents(S) \in Int /\ Cents({}) = 0
         /\ \A Q : S \subseteq Q => Cents(S) = SumOver([x \in Q |-> Nearest(x.amount)], S)
<1>1. \A x \in S : Nearest(x.amount) \in Int
  BY Division DEF Amounts, Nearest
<1>2. IsFiniteSet(S)
  BY DEF Amounts
<1>3. ASSUME NEW Q, S \subseteq Q
      PROVE  Cents(S) = SumOver([x \in Q |-> Nearest(x.amount)], S)
  <2> DEFINE f == [x \in S |-> Nearest(x.amount)]
             g == [x \in Q |-> Nearest(x.amount)]
  <2>1. \A x \in S : f[x] \in Int /\ f[x] = g[x]
    BY <1>1, <1>3
  <2> HIDE DEF f, g
  <2>2. SumOver(f, S) = SumOver(g, S)
    BY <1>2, <2>1, SumSame
  <2>3. QED
    BY <2>2 DEF Cents, f, g
<1>4. Cents(S) \in Int
  <2> DEFINE f == [x \in S |-> Nearest(x.amount)]
  <2>1. \A x \in S : f[x] \in Int
    BY <1>1
  <2> HIDE DEF f
  <2>2. SumOver(f, S) \in Int
    BY <1>2, <2>1, SumType
  <2>3. QED
    BY <2>2 DEF Cents, f
<1>5. Cents({}) = 0
  BY SumPicks, FS_EmptySet DEF Cents
<1>6. QED
  BY <1>1, <1>3, <1>4, <1>5

\* Nothing is rounded to nothing.
LEMMA RoundedNothing == Rounded(0, {})
<1>1. Amounts({}) /\ Broken({}) = {}
  BY FS_EmptySet DEF Amounts, Broken
<1>2. Amount({}) = 0 /\ Cents({}) = 0 /\ Cardinality(Broken({})) = 0
  BY <1>1, AmountType, CentsAdd, FS_EmptySet
<1>3. Parts * 0 = 0
  BY PartsType
<1>4. QED
  BY <1>2, <1>3 DEF Rounded, Abs

\* Some payments are broken.
LEMMA BrokenType ==
  ASSUME NEW S, IsFiniteSet(S)
  PROVE  IsFiniteSet(Broken(S)) /\ Cardinality(Broken(S)) \in Nat
<1>1. Broken(S) \in SUBSET S
  BY DEF Broken
<1>2. QED
  BY <1>1, FS_Subset, FS_CardinalityType

\* Only the payments that are broken count.
LEMMA BrokenAdds ==
  ASSUME NEW S, IsFiniteSet(S), NEW x, x \notin S
  PROVE  /\ x.amount % Parts = 0 => Broken(S \cup {x}) = Broken(S)
         /\ x.amount % Parts # 0 =>
              Cardinality(Broken(S \cup {x})) = Cardinality(Broken(S)) + 1
<1>1. IsFiniteSet(Broken(S)) /\ x \notin Broken(S)
  BY BrokenType DEF Broken
<1>2. x.amount % Parts = 0 => Broken(S \cup {x}) = Broken(S)
  BY DEF Broken
<1>3. x.amount % Parts # 0 => Broken(S \cup {x}) = Broken(S) \cup {x}
  BY DEF Broken
<1>4. Cardinality(Broken(S) \cup {x}) = Cardinality(Broken(S)) + 1
  BY <1>1, FS_AddElement
<1>5. QED
  BY <1>1, <1>2, <1>3, <1>4

\* One more payment that is rounded when it is booked.
LEMMA RoundedAdds ==
  ASSUME NEW S, Amounts(S), S \subseteq PaymentForms, NEW p \in PaymentForms, p \notin S,
         NEW e \in Int, NEW left \in Int, Rounded(e - left, S)
  PROVE  Rounded(rc(e, p.amount) - left, S \cup {p})
<1>1. p.amount \in Int
  BY FormsAssumption
<1>2. PICK x \in Int : x = e - left
  OBVIOUS
<1>3. PICK z \in Int : z = rc(e, p.amount)
  <2>1. rc(e, p.amount) \in Int
    BY <1>1, RoundType
  <2>2. QED
    BY <2>1
<1>4. PICK y \in Int : y = rc(e, p.amount) - e /\ rc(e, p.amount) - left = x + y
  <2>1. z - e \in Int /\ z - left = x + (z - e)
    BY <1>2
  <2>2. QED
    BY <1>3, <2>1
<1>5. /\ 2 * Abs(Parts * y - p.amount) <= Parts
      /\ p.amount % Parts = 0 => Parts * y = p.amount
      /\ 2 * (p.amount % Parts) # Parts => y = Nearest(p.amount)
  BY <1>1, <1>4, RoundType
<1>6. Amount(S \cup {p}) = Amount(S) + p.amount /\ Amounts(S \cup {p}) /\ Amount(S) \in Int
  BY <1>1, AmountAdds, AmountType
<1>7. Parts \in Nat \ {0}
  BY PartsType
<1>8. PICK X \in Int : X = Parts * x
  BY <1>7
<1>9. PICK Y \in Int : Y = Parts * y
  BY <1>7
<1>10. Parts * (x + y) = X + Y
  BY <1>7, <1>8, <1>9
<1>11. PICK n \in Nat : n = Cardinality(Broken(S))
  BY BrokenType DEF Amounts
<1>12. PICK N \in Int : N = Parts * n /\ Parts * (n + 1) = N + Parts
  BY <1>7
<1>13. 2 * Abs(X - Amount(S)) <= N
  BY <1>2, <1>8, <1>11, <1>12 DEF Rounded
<1>14. 2 * Abs((X + Y) - (Amount(S) + p.amount)) <= Parts * Cardinality(Broken(S \cup {p}))
  <2>1. CASE p.amount % Parts = 0
    <3>1. Broken(S \cup {p}) = Broken(S) /\ Y = p.amount
      BY <1>5, <1>9, <2>1, BrokenAdds DEF Amounts
    <3>2. (X + Y) - (Amount(S) + p.amount) = X - Amount(S)
      BY <1>1, <1>6, <3>1
    <3>3. QED
      BY <1>11, <1>12, <1>13, <3>1, <3>2
  <2>2. CASE p.amount % Parts # 0
    <3>1. Cardinality(Broken(S \cup {p})) = n + 1
      BY <1>11, <2>2, BrokenAdds DEF Amounts
    <3>2. 2 * Abs(Y - p.amount) <= Parts
      BY <1>5, <1>9
    <3>3. 2 * Abs((X + Y) - (Amount(S) + p.amount)) <= N + Parts
      BY <1>1, <1>6, <1>7, <1>13, <3>2 DEF Abs
    <3>4. QED
      BY <1>12, <3>1, <3>3
  <2>3. QED
    BY <2>1, <2>2
<1>15. ASSUME NoHalfCents PROVE x + y = Cents(S \cup {p})
  <2>1. x = Cents(S) /\ y = Nearest(p.amount)
    BY <1>2, <1>5, <1>15 DEF Rounded, NoHalfCents
  <2> DEFINE f == [q \in S \cup {p} |-> Nearest(q.amount)]
  <2>2. Cents(S) = SumOver(f, S) /\ Cents(S \cup {p}) = SumOver(f, S \cup {p})
    <3>1. Cents(S) = SumOver(f, S)
      BY CentsAdd
    <3>2. QED
      BY <3>1 DEF Cents
  <2>3. f[p] = Nearest(p.amount) /\ \A q \in S \cup {p} : f[q] \in Int
    BY <1>6, CentsAdd
  <2> HIDE DEF f
  <2>4. SumOver(f, S \cup {p}) = SumOver(f, S) + f[p]
    BY <2>3, SumAdds DEF Amounts
  <2>5. QED
    BY <2>1, <2>2, <2>3, <2>4
<1>16. QED
  BY <1>4, <1>6, <1>10, <1>14, <1>15 DEF Rounded

-----------------------------------------------------------------------------
(* Orders.                                                                 *)

\* The elements before each of finitely many make a strict total order.
Ordered(earlier) ==
  /\ IsFiniteSet(DOMAIN earlier)
  /\ \A x \in DOMAIN earlier : earlier[x] \subseteq DOMAIN earlier /\ x \notin earlier[x]
  /\ \A x \in DOMAIN earlier : \A y \in earlier[x] : earlier[y] \subseteq earlier[x]
  /\ \A x, y \in DOMAIN earlier : x = y \/ x \in earlier[y] \/ y \in earlier[x]

\* An element has fewer before it than a later one.
LEMMA RankGrows ==
  ASSUME NEW earlier, Ordered(earlier), NEW x \in DOMAIN earlier
  PROVE  /\ Cardinality(earlier[x]) \in 0 .. Cardinality(DOMAIN earlier) - 1
         /\ \A y \in DOMAIN earlier :
              y \in earlier[x] <=> Cardinality(earlier[y]) < Cardinality(earlier[x])
<1>1. ASSUME NEW S, NEW T \in SUBSET S, IsFiniteSet(S), T # S
      PROVE  Cardinality(T) \in Nat /\ Cardinality(S) \in Nat /\ Cardinality(T) < Cardinality(S)
  <2>1. IsFiniteSet(T) /\ Cardinality(T) <= Cardinality(S) /\ Cardinality(T) # Cardinality(S)
    BY <1>1, FS_Subset
  <2>2. Cardinality(T) \in Nat /\ Cardinality(S) \in Nat
    BY <1>1, <2>1, FS_CardinalityType
  <2>3. QED
    BY <2>1, <2>2
<1>2. \A y \in DOMAIN earlier : earlier[y] \in SUBSET DOMAIN earlier /\ IsFiniteSet(earlier[y])
  BY FS_Subset DEF Ordered
<1>3. ASSUME NEW y \in DOMAIN earlier, NEW z \in DOMAIN earlier, y \in earlier[z]
      PROVE  /\ Cardinality(earlier[y]) \in Nat /\ Cardinality(earlier[z]) \in Nat
             /\ Cardinality(earlier[y]) < Cardinality(earlier[z])
  <2>1. earlier[y] \in SUBSET earlier[z] /\ earlier[y] # earlier[z]
    BY <1>3 DEF Ordered
  <2>2. QED
    BY <1>1, <1>2, <2>1
<1>4. ASSUME NEW y \in DOMAIN earlier, Cardinality(earlier[y]) < Cardinality(earlier[x])
      PROVE  y \in earlier[x]
  <2>1. y = x \/ x \in earlier[y] \/ y \in earlier[x]
    BY DEF Ordered
  <2>2. Cardinality(earlier[x]) \in Nat /\ Cardinality(earlier[y]) \in Nat
    BY <1>2, FS_CardinalityType
  <2>3. y # x /\ x \notin earlier[y]
    BY <1>3, <1>4, <2>2
  <2>4. QED
    BY <2>1, <2>3
<1>5. Cardinality(earlier[x]) \in 0 .. Cardinality(DOMAIN earlier) - 1
  <2>1. earlier[x] \in SUBSET DOMAIN earlier /\ earlier[x] # DOMAIN earlier
    BY DEF Ordered
  <2>2. Cardinality(earlier[x]) \in Nat /\ Cardinality(DOMAIN earlier) \in Nat
        /\ Cardinality(earlier[x]) < Cardinality(DOMAIN earlier)
    BY <1>1, <2>1 DEF Ordered
  <2>3. QED
    BY <2>2
<1>6. QED
  BY <1>3, <1>4, <1>5

\* InOrder lists every element once, after those before it.
LEMMA InOrderLists ==
  ASSUME NEW earlier, Ordered(earlier), NEW n, n = Cardinality(DOMAIN earlier)
  PROVE  /\ n \in Nat /\ DOMAIN InOrder(earlier) = 1 .. n
         /\ \A k \in 1 .. n : /\ InOrder(earlier)[k] \in DOMAIN earlier
                              /\ Cardinality(earlier[InOrder(earlier)[k]]) = k - 1
         /\ \A x \in DOMAIN earlier : /\ Cardinality(earlier[x]) + 1 \in 1 .. n
                                      /\ InOrder(earlier)[Cardinality(earlier[x]) + 1] = x
<1> DEFINE rank == [x \in DOMAIN earlier |-> Cardinality(earlier[x])]
           ranked == {<<Cardinality(earlier[x]), x>> : x \in DOMAIN earlier}
<1>1. n \in Nat /\ IsFiniteSet(0 .. n - 1) /\ Cardinality(0 .. n - 1) = n
  <2>1. n \in Nat
    BY FS_CardinalityType DEF Ordered
  <2>2. 0 \in Int /\ n - 1 \in Int
    BY <2>1
  <2>3. IsFiniteSet(0 .. n - 1) /\ Cardinality(0 .. n - 1) = IF 0 > n - 1 THEN 0 ELSE n - 1 - 0 + 1
    BY <2>2, FS_Interval
  <2>4. QED
    BY <2>1, <2>3
<1>2. \A x, y \in DOMAIN earlier : Cardinality(earlier[x]) = Cardinality(earlier[y]) => x = y
  <2> SUFFICES ASSUME NEW x \in DOMAIN earlier, NEW y \in DOMAIN earlier, x # y,
                      Cardinality(earlier[x]) = Cardinality(earlier[y])
               PROVE  FALSE
    OBVIOUS
  <2>1. x \in earlier[y] \/ y \in earlier[x]
    BY DEF Ordered
  <2>2. Cardinality(earlier[x]) < Cardinality(earlier[x])
    BY <2>1, RankGrows
  <2>3. Cardinality(earlier[x]) \in Int
    BY <1>1, RankGrows
  <2>4. QED
    BY <2>2, <2>3
<1>3. \A m \in 0 .. n - 1 : \E x \in DOMAIN earlier : Cardinality(earlier[x]) = m
  <2>1. rank \in [DOMAIN earlier -> 0 .. n - 1]
    BY RankGrows
  <2>2. rank \in Injection(DOMAIN earlier, 0 .. n - 1)
    BY <1>2, <2>1 DEF Injection, IsInjective
  <2>3. rank \in Surjection(DOMAIN earlier, 0 .. n - 1)
    BY <1>1, <2>2, FS_Injection
  <2>4. QED
    BY <2>3 DEF Surjection
<1>4. DOMAIN InOrder(earlier) = 1 .. n
  BY DEF InOrder
<1>5. ASSUME NEW k \in 1 .. n
      PROVE  /\ InOrder(earlier)[k] \in DOMAIN earlier
             /\ Cardinality(earlier[InOrder(earlier)[k]]) = k - 1
  <2>1. PICK x \in DOMAIN earlier : Cardinality(earlier[x]) = k - 1
    BY <1>1, <1>3
  <2>2. <<k - 1, x>> \in ranked /\ <<k - 1, x>>[1] = k - 1
    BY <2>1
  <2> DEFINE pair == CHOOSE pair \in ranked : pair[1] = k - 1
  <2>3. pair \in ranked /\ pair[1] = k - 1
    BY <2>2
  <2>4. InOrder(earlier)[k] = pair[2]
    BY DEF InOrder
  <2> HIDE DEF pair
  <2>5. PICK y \in DOMAIN earlier : pair = <<Cardinality(earlier[y]), y>>
    BY <2>3
  <2>6. QED
    BY <2>3, <2>4, <2>5
<1>6. ASSUME NEW x \in DOMAIN earlier
      PROVE  /\ Cardinality(earlier[x]) + 1 \in 1 .. n
             /\ InOrder(earlier)[Cardinality(earlier[x]) + 1] = x
  <2>1. Cardinality(earlier[x]) \in 0 .. n - 1
    BY RankGrows
  <2>2. PICK k \in 1 .. n : k = Cardinality(earlier[x]) + 1
    BY <1>1, <2>1
  <2>3. k - 1 = Cardinality(earlier[x])
    BY <1>1, <2>1, <2>2
  <2>4. InOrder(earlier)[k] = x
    BY <1>2, <1>5, <2>3
  <2>5. QED
    BY <2>2, <2>4
<1>7. QED
  BY <1>1, <1>4, <1>5, <1>6

\* The k-th element has the k - 1 elements listed before it before it.
LEMMA InOrderPrefix ==
  ASSUME NEW earlier, Ordered(earlier), NEW n, n = Cardinality(DOMAIN earlier)
  PROVE  /\ DOMAIN earlier = {InOrder(earlier)[j] : j \in 1 .. n}
         /\ \A k \in 1 .. n :
              earlier[InOrder(earlier)[k]] = {InOrder(earlier)[j] : j \in 1 .. k - 1}
<1> DEFINE seq == InOrder(earlier)
<1>1. /\ n \in Nat
      /\ \A k \in 1 .. n : seq[k] \in DOMAIN earlier /\ Cardinality(earlier[seq[k]]) = k - 1
      /\ \A x \in DOMAIN earlier : /\ Cardinality(earlier[x]) + 1 \in 1 .. n
                                   /\ seq[Cardinality(earlier[x]) + 1] = x
  BY InOrderLists
<1> HIDE DEF seq
<1>2. ASSUME NEW k \in 1 .. n
      PROVE  earlier[seq[k]] = {seq[j] : j \in 1 .. k - 1}
  <2>1. \A y \in DOMAIN earlier : y \in earlier[seq[k]] <=> Cardinality(earlier[y]) < k - 1
    BY <1>1, RankGrows
  <2>2. ASSUME NEW y \in earlier[seq[k]] PROVE \E j \in 1 .. k - 1 : y = seq[j]
    <3>1. y \in DOMAIN earlier
      BY <1>1 DEF Ordered
    <3>2. PICK j \in 1 .. n : j = Cardinality(earlier[y]) + 1 /\ seq[j] = y
      BY <1>1, <3>1
    <3>3. j - 1 = Cardinality(earlier[y])
      BY <1>1, <3>2
    <3>4. j - 1 < k - 1
      BY <2>1, <3>1, <3>3
    <3>5. QED
      BY <1>1, <3>2, <3>4
  <2>3. ASSUME NEW j \in 1 .. k - 1 PROVE seq[j] \in earlier[seq[k]]
    <3>1. j \in 1 .. n /\ j - 1 < k - 1
      BY <1>1
    <3>2. QED
      BY <1>1, <2>1, <3>1
  <2>4. QED
    BY <2>2, <2>3
<1>3. DOMAIN earlier = {seq[j] : j \in 1 .. n}
  BY <1>1
<1>4. QED
  BY <1>2, <1>3 DEF seq

\* Some elements have a first and a last one.
LEMMA FirstAndLast ==
  ASSUME NEW earlier, Ordered(earlier), DOMAIN earlier # {}
  PROVE  /\ \E x \in DOMAIN earlier : \A y \in DOMAIN earlier : y = x \/ x \in earlier[y]
         /\ \E x \in DOMAIN earlier : \A y \in DOMAIN earlier : y = x \/ y \in earlier[x]
<1> DEFINE n == Cardinality(DOMAIN earlier)
           seq == InOrder(earlier)
<1>1. n \in Nat /\ n # 0
  BY FS_CardinalityType, FS_EmptySet DEF Ordered
<1>2. /\ \A k \in 1 .. n : seq[k] \in DOMAIN earlier /\ Cardinality(earlier[seq[k]]) = k - 1
      /\ \A y \in DOMAIN earlier : Cardinality(earlier[y]) + 1 \in 1 .. n
      /\ \A y \in DOMAIN earlier : seq[Cardinality(earlier[y]) + 1] = y
  BY InOrderLists
<1>3. \A y \in DOMAIN earlier : Cardinality(earlier[y]) \in 0 .. n - 1
  BY RankGrows
<1> HIDE DEF n, seq
<1>4. ASSUME NEW y \in DOMAIN earlier, y # seq[1] PROVE seq[1] \in earlier[y]
  <2>1. Cardinality(earlier[y]) # 0
    BY <1>2, <1>4
  <2>2. seq[1] \in DOMAIN earlier /\ Cardinality(earlier[seq[1]]) = 0
    BY <1>1, <1>2
  <2>3. QED
    BY <1>1, <1>3, <2>1, <2>2, RankGrows
<1>5. ASSUME NEW y \in DOMAIN earlier, y # seq[n] PROVE y \in earlier[seq[n]]
  <2>1. Cardinality(earlier[y]) # n - 1
    BY <1>1, <1>2, <1>5
  <2>2. seq[n] \in DOMAIN earlier /\ Cardinality(earlier[seq[n]]) = n - 1
    BY <1>1, <1>2
  <2>3. QED
    BY <1>1, <1>3, <2>1, <2>2, RankGrows
<1>6. seq[1] \in DOMAIN earlier /\ seq[n] \in DOMAIN earlier
  BY <1>1, <1>2
<1>7. QED
  BY <1>4, <1>5, <1>6

-----------------------------------------------------------------------------
(* Folds over a sequence, as walks from one value to the next.             *)

\* The subsets of the numbers up to n.
LEMMA UpTo ==
  ASSUME NEW n \in Nat, NEW s \in SUBSET (1 .. n)
  PROVE  /\ Cardinality(1 .. n) \in Nat /\ Cardinality(s) \in Nat
         /\ Cardinality(s) < Cardinality(1 .. n) + 1
         /\ \A x \in s : Cardinality(s \ {x}) < Cardinality(s) /\ Cardinality(s \ {x}) \in Nat
<1>1. IsFiniteSet(1 .. n)
  BY FS_Interval
<1>2. IsFiniteSet(s) /\ Cardinality(s) <= Cardinality(1 .. n)
  BY <1>1, FS_Subset
<1>3. Cardinality(1 .. n) \in Nat /\ Cardinality(s) \in Nat
  BY <1>1, <1>2, FS_CardinalityType
<1>4. ASSUME NEW x \in s
      PROVE  Cardinality(s \ {x}) < Cardinality(s) /\ Cardinality(s \ {x}) \in Nat
  <2>1. IsFiniteSet(s \ {x}) /\ Cardinality(s \ {x}) = Cardinality(s) - 1
    BY <1>2, FS_RemoveElement
  <2>2. Cardinality(s \ {x}) \in Nat
    BY <2>1, FS_CardinalityType
  <2>3. QED
    BY <1>3, <2>1, <2>2
<1>5. QED
  BY <1>2, <1>3, <1>4

\* Some of the numbers up to n have a greatest one.
LEMMA MaxOf ==
  ASSUME NEW n \in Nat
  PROVE  /\ \A s \in SUBSET (1 .. n) : s # {} => Max(s) \in s
         /\ \A k \in 1 .. n : Max(1 .. k) = k
<1>1. ASSUME NEW s \in SUBSET (1 .. n), s # {} PROVE \E x \in s : \A y \in s : x >= y
  <2> DEFINE T == {n - x : x \in s}
  <2>1. T \subseteq Nat /\ T # {}
    <3>1. \A x \in s : n - x \in Nat
      OBVIOUS
    <3>2. QED
      BY <1>1, <3>1
  <2>2. PICK m \in T : \A l \in T : m <= l
    <3> HIDE DEF T
    <3>1. QED
      BY <2>1, Least
  <2>3. PICK x \in s : m = n - x
    BY <2>2
  <2>4. ASSUME NEW y \in s PROVE x >= y
    <3>1. n - y \in T
      OBVIOUS
    <3>2. n - x <= n - y
      BY <2>2, <2>3, <3>1
    <3>3. QED
      BY <3>2
  <2>5. QED
    BY <2>4
<1>2. ASSUME NEW s \in SUBSET (1 .. n), s # {} PROVE Max(s) \in s
  BY <1>1, <1>2 DEF Max
<1>3. ASSUME NEW k \in 1 .. n PROVE Max(1 .. k) = k
  <2>1. k \in 1 .. k /\ \A y \in 1 .. k : k >= y
    OBVIOUS
  <2>2. \A x \in 1 .. k : (\A y \in 1 .. k : x >= y) => x = k
    OBVIOUS
  <2>3. QED
    BY <2>1, <2>2 DEF Max
<1>4. QED
  BY <1>2, <1>3

BookFold(U, to, seq) ==
  FoldLeft(LAMBDA books, e : BookEvent(books, e, U, to), NothingBooked, seq)

BookStep(U, to, seq, g, s) ==
  IF s = {} THEN NothingBooked ELSE BookEvent(g[s \ {Max(s)}], seq[Max(s)], U, to)

BookIter(U, to, seq) ==
  CHOOSE g : g = [s \in SUBSET DOMAIN seq |-> BookStep(U, to, seq, g, s)]

\* The recursion of the ledger can be followed to its end.
LEMMA BookReaches ==
  ASSUME NEW U, NEW to, NEW seq, NEW n \in Nat, DOMAIN seq = 1 .. n
  PROVE  \A s \in SUBSET (1 .. n) :
           BookIter(U, to, seq)[s] = BookStep(U, to, seq, BookIter(U, to, seq), s)
<1> DEFINE Reaches(g, m) ==
             \A s \in SUBSET (1 .. n) : Cardinality(s) < m => g[s] = BookStep(U, to, seq, g, s)
           K == {m \in Nat : \E g : Reaches(g, m)}
<1>1. \A s \in SUBSET (1 .. n) : Cardinality(s) \in Nat
  BY UpTo
<1>2. 0 \in K
  BY <1>1
<1>3. ASSUME NEW m \in Nat, m \in K PROVE m + 1 \in K
  <2>1. PICK g : Reaches(g, m)
    BY <1>3
  <2> DEFINE h == [s \in SUBSET (1 .. n) |-> BookStep(U, to, seq, g, s)]
  <2>2. ASSUME NEW s \in SUBSET (1 .. n), Cardinality(s) < m + 1
        PROVE  h[s] = BookStep(U, to, seq, h, s)
    <3>1. CASE s = {}
      BY <3>1 DEF BookStep
    <3>2. CASE s # {}
      <4>1. Max(s) \in s
        BY <3>2, MaxOf
      <4>2. s \ {Max(s)} \in SUBSET (1 .. n) /\ Cardinality(s \ {Max(s)}) < m
        <5>1. PICK x \in s : x = Max(s)
          BY <4>1
        <5>2. /\ Cardinality(s) \in Nat /\ Cardinality(s \ {x}) \in Nat
              /\ Cardinality(s \ {x}) < Cardinality(s)
          BY UpTo
        <5>3. Cardinality(s \ {x}) < m
          BY <2>2, <5>2
        <5>4. QED
          BY <5>1, <5>3
      <4>3. h[s \ {Max(s)}] = g[s \ {Max(s)}]
        BY <2>1, <4>2
      <4>4. h[s] = BookStep(U, to, seq, g, s)
        OBVIOUS
      <4> HIDE DEF h
      <4>5. QED
        BY <4>3, <4>4 DEF BookStep
    <3>3. QED
      BY <3>1, <3>2
  <2>3. Reaches(h, m + 1)
    BY <2>2
  <2> HIDE DEF h, Reaches
  <2>4. QED
    BY <2>3
<1> HIDE DEF K
<1>4. Cardinality(1 .. n) + 1 \in K
  <2>1. Nat \subseteq K
    BY <1>2, <1>3, Induct DEF K
  <2>2. QED
    BY <1>1, <2>1
<1>5. PICK g : \A s \in SUBSET (1 .. n) : g[s] = BookStep(U, to, seq, g, s)
  <2>1. PICK g : Reaches(g, Cardinality(1 .. n) + 1)
    BY <1>4 DEF K
  <2>2. \A s \in SUBSET (1 .. n) : Cardinality(s) < Cardinality(1 .. n) + 1
    BY UpTo
  <2>3. QED
    BY <2>1, <2>2
<1> DEFINE h == [s \in SUBSET (1 .. n) |-> g[s]]
<1>6. h = [s \in SUBSET (1 .. n) |-> BookStep(U, to, seq, h, s)]
  <2>1. ASSUME NEW s \in SUBSET (1 .. n) PROVE h[s] = BookStep(U, to, seq, h, s)
    <3>1. s \ {Max(s)} \in SUBSET (1 .. n) /\ h[s] = g[s]
      OBVIOUS
    <3>2. h[s \ {Max(s)}] = g[s \ {Max(s)}]
      BY <3>1
    <3>3. g[s] = BookStep(U, to, seq, g, s)
      BY <1>5
    <3> HIDE DEF h
    <3>4. QED
      BY <3>1, <3>2, <3>3 DEF BookStep
  <2>2. h = [s \in SUBSET (1 .. n) |-> h[s]]
    OBVIOUS
  <2> HIDE DEF h
  <2>3. QED
    BY <2>1, <2>2
<1> HIDE DEF h
<1> DEFINE k == BookIter(U, to, seq)
<1>7. k = [s \in SUBSET (1 .. n) |-> BookStep(U, to, seq, k, s)]
  BY <1>6 DEF BookIter
<1> HIDE DEF k
<1>8. \A s \in SUBSET (1 .. n) : k[s] = BookStep(U, to, seq, k, s)
  BY <1>7
<1>9. QED
  BY <1>8 DEF k

\* The books after each event of the ledger.
LEMMA BookWalk ==
  ASSUME NEW U, NEW to, NEW seq, NEW n \in Nat, DOMAIN seq = 1 .. n
  PROVE  \E w : /\ w[0] = NothingBooked
                /\ \A k \in 1 .. n : w[k] = BookEvent(w[k - 1], seq[k], U, to)
                /\ w[n] = BookFold(U, to, seq)
<1> DEFINE g == BookIter(U, to, seq)
           w == [k \in 0 .. n |-> g[1 .. k]]
<1>1. \A s \in SUBSET (1 .. n) : g[s] = BookStep(U, to, seq, g, s)
  BY BookReaches
<1>2. BookFold(U, to, seq) = g[1 .. n]
  BY DEF BookFold, FoldLeft, MapThenFoldSet, BookIter, BookStep
<1> HIDE DEF g
<1>3. w[0] = NothingBooked
  <2>1. w[0] = g[{}]
    OBVIOUS
  <2>2. QED
    BY <1>1, <2>1 DEF BookStep
<1>4. ASSUME NEW k \in 1 .. n PROVE w[k] = BookEvent(w[k - 1], seq[k], U, to)
  <2>1. Max(1 .. k) = k
    BY MaxOf
  <2>2. (1 .. k) \ {k} = 1 .. k - 1 /\ 1 .. k # {}
    OBVIOUS
  <2>3. w[k] = g[1 .. k] /\ w[k - 1] = g[1 .. k - 1]
    OBVIOUS
  <2>4. g[1 .. k] = BookStep(U, to, seq, g, 1 .. k)
    BY <1>1
  <2> HIDE DEF w
  <2>5. QED
    BY <2>1, <2>2, <2>3, <2>4 DEF BookStep
<1>5. w[n] = BookFold(U, to, seq)
  BY <1>2
<1> HIDE DEF w
<1>6. QED
  BY <1>3, <1>4, <1>5

\* What one payment makes of the assignment.
Assigned(regs, anchors, books, p) ==
  IF regs = <<>> THEN books
  ELSE AssignTo(regs, anchors, books, p, PayingRegister(regs, anchors, books.sums, p))

Unassigned(regs, anchors, paid) ==
  [sums |-> [r \in ToSet(regs) |-> [i \in 0 .. Len(anchors[r]) |-> 0]],
   to |-> [p \in paid |-> NoRegister]]

AssignFold(regs, anchors, paid, seq) ==
  FoldLeft(LAMBDA books, p : Assigned(regs, anchors, books, p),
           Unassigned(regs, anchors, paid), seq)

AssignStep(regs, anchors, paid, seq, g, s) ==
  IF s = {} THEN Unassigned(regs, anchors, paid)
  ELSE Assigned(regs, anchors, g[s \ {Max(s)}], seq[Max(s)])

AssignIter(regs, anchors, paid, seq) ==
  CHOOSE g : g = [s \in SUBSET DOMAIN seq |-> AssignStep(regs, anchors, paid, seq, g, s)]

\* The recursion of the assignment can be followed to its end.
LEMMA AssignReaches ==
  ASSUME NEW regs, NEW anchors, NEW paid, NEW seq, NEW n \in Nat, DOMAIN seq = 1 .. n
  PROVE  \A s \in SUBSET (1 .. n) :
           AssignIter(regs, anchors, paid, seq)[s] =
             AssignStep(regs, anchors, paid, seq, AssignIter(regs, anchors, paid, seq), s)
<1> DEFINE Reaches(g, m) ==
             \A s \in SUBSET (1 .. n) :
               Cardinality(s) < m => g[s] = AssignStep(regs, anchors, paid, seq, g, s)
           K == {m \in Nat : \E g : Reaches(g, m)}
<1>1. \A s \in SUBSET (1 .. n) : Cardinality(s) \in Nat
  BY UpTo
<1>2. 0 \in K
  BY <1>1
<1>3. ASSUME NEW m \in Nat, m \in K PROVE m + 1 \in K
  <2>1. PICK g : Reaches(g, m)
    BY <1>3
  <2> DEFINE h == [s \in SUBSET (1 .. n) |-> AssignStep(regs, anchors, paid, seq, g, s)]
  <2>2. ASSUME NEW s \in SUBSET (1 .. n), Cardinality(s) < m + 1
        PROVE  h[s] = AssignStep(regs, anchors, paid, seq, h, s)
    <3>1. CASE s = {}
      BY <3>1 DEF AssignStep
    <3>2. CASE s # {}
      <4>1. Max(s) \in s
        BY <3>2, MaxOf
      <4>2. s \ {Max(s)} \in SUBSET (1 .. n) /\ Cardinality(s \ {Max(s)}) < m
        <5>1. PICK x \in s : x = Max(s)
          BY <4>1
        <5>2. /\ Cardinality(s) \in Nat /\ Cardinality(s \ {x}) \in Nat
              /\ Cardinality(s \ {x}) < Cardinality(s)
          BY UpTo
        <5>3. Cardinality(s \ {x}) < m
          BY <2>2, <5>2
        <5>4. QED
          BY <5>1, <5>3
      <4>3. h[s \ {Max(s)}] = g[s \ {Max(s)}]
        BY <2>1, <4>2
      <4>4. h[s] = AssignStep(regs, anchors, paid, seq, g, s)
        OBVIOUS
      <4> HIDE DEF h
      <4>5. QED
        BY <4>3, <4>4 DEF AssignStep
    <3>3. QED
      BY <3>1, <3>2
  <2>3. Reaches(h, m + 1)
    BY <2>2
  <2> HIDE DEF h, Reaches
  <2>4. QED
    BY <2>3
<1> HIDE DEF K
<1>4. Cardinality(1 .. n) + 1 \in K
  <2>1. Nat \subseteq K
    BY <1>2, <1>3, Induct DEF K
  <2>2. QED
    BY <1>1, <2>1
<1>5. PICK g : \A s \in SUBSET (1 .. n) : g[s] = AssignStep(regs, anchors, paid, seq, g, s)
  <2>1. PICK g : Reaches(g, Cardinality(1 .. n) + 1)
    BY <1>4 DEF K
  <2>2. \A s \in SUBSET (1 .. n) : Cardinality(s) < Cardinality(1 .. n) + 1
    BY UpTo
  <2>3. QED
    BY <2>1, <2>2
<1> DEFINE h == [s \in SUBSET (1 .. n) |-> g[s]]
<1>6. h = [s \in SUBSET (1 .. n) |-> AssignStep(regs, anchors, paid, seq, h, s)]
  <2>1. ASSUME NEW s \in SUBSET (1 .. n) PROVE h[s] = AssignStep(regs, anchors, paid, seq, h, s)
    <3>1. s \ {Max(s)} \in SUBSET (1 .. n) /\ h[s] = g[s]
      OBVIOUS
    <3>2. h[s \ {Max(s)}] = g[s \ {Max(s)}]
      BY <3>1
    <3>3. g[s] = AssignStep(regs, anchors, paid, seq, g, s)
      BY <1>5
    <3> HIDE DEF h
    <3>4. QED
      BY <3>1, <3>2, <3>3 DEF AssignStep
  <2>2. h = [s \in SUBSET (1 .. n) |-> h[s]]
    OBVIOUS
  <2> HIDE DEF h
  <2>3. QED
    BY <2>1, <2>2
<1> HIDE DEF h
<1> DEFINE k == AssignIter(regs, anchors, paid, seq)
<1>7. k = [s \in SUBSET (1 .. n) |-> AssignStep(regs, anchors, paid, seq, k, s)]
  BY <1>6 DEF AssignIter
<1> HIDE DEF k
<1>8. \A s \in SUBSET (1 .. n) : k[s] = AssignStep(regs, anchors, paid, seq, k, s)
  BY <1>7
<1>9. QED
  BY <1>8 DEF k

\* The assignment after each payment.
LEMMA AssignWalk ==
  ASSUME NEW regs, NEW anchors, NEW paid, NEW seq, NEW n \in Nat, DOMAIN seq = 1 .. n
  PROVE  \E w : /\ w[0] = Unassigned(regs, anchors, paid)
                /\ \A k \in 1 .. n : w[k] = Assigned(regs, anchors, w[k - 1], seq[k])
                /\ w[n] = AssignFold(regs, anchors, paid, seq)
<1> DEFINE g == AssignIter(regs, anchors, paid, seq)
           w == [k \in 0 .. n |-> g[1 .. k]]
<1>1. \A s \in SUBSET (1 .. n) : g[s] = AssignStep(regs, anchors, paid, seq, g, s)
  BY AssignReaches
<1>2. AssignFold(regs, anchors, paid, seq) = g[1 .. n]
  BY DEF AssignFold, FoldLeft, MapThenFoldSet, AssignIter, AssignStep
<1> HIDE DEF g
<1>3. w[0] = Unassigned(regs, anchors, paid)
  <2>1. w[0] = g[{}]
    OBVIOUS
  <2>2. QED
    BY <1>1, <2>1 DEF AssignStep
<1>4. ASSUME NEW k \in 1 .. n PROVE w[k] = Assigned(regs, anchors, w[k - 1], seq[k])
  <2>1. Max(1 .. k) = k
    BY MaxOf
  <2>2. (1 .. k) \ {k} = 1 .. k - 1 /\ 1 .. k # {}
    OBVIOUS
  <2>3. w[k] = g[1 .. k] /\ w[k - 1] = g[1 .. k - 1]
    OBVIOUS
  <2>4. g[1 .. k] = AssignStep(regs, anchors, paid, seq, g, 1 .. k)
    BY <1>1
  <2> HIDE DEF w
  <2>5. QED
    BY <2>1, <2>2, <2>3, <2>4 DEF AssignStep
<1>5. w[n] = AssignFold(regs, anchors, paid, seq)
  BY <1>2
<1> HIDE DEF w
<1>6. QED
  BY <1>3, <1>4, <1>5

-----------------------------------------------------------------------------
(* The events of the ledger.                                               *)

\* What the ledger is computed from: some counts, and some payments.
Books(U) ==
  IsFiniteSet(DOMAIN U) /\ DOMAIN U \subseteq Nat /\ \A c \in DOMAIN U : U[c] \in CountForms

Paid(P) ==
  IsFiniteSet(P) /\ P \subseteq PaymentForms /\ \A p, q \in P : p.id = q.id => p = q

\* A later moment is on no earlier day.
LEMMA DayOfGrows ==
  ASSUME NEW a \in Nat, NEW b \in Nat
  PROVE  DayOf(a) \in Int /\ (a <= b => DayOf(a) <= DayOf(b))
  BY LedgerAssumption DEF DayOf

\* The parts of a count are numbers.
LEMMA BooksTypes ==
  ASSUME NEW U, Books(U), NEW c \in DOMAIN U
  PROVE  /\ c \in Nat /\ U[c].at \in Nat /\ DayOf(U[c].at) \in Int
         /\ DOMAIN U[c].amounts \subseteq Nat /\ IsFiniteSet(DOMAIN U[c].amounts)
         /\ NoRegister \notin DOMAIN U[c].amounts
         /\ \A r \in DOMAIN U[c].amounts :
              U[c].amounts[r].before \in Int /\ U[c].amounts[r].after \in Int
  BY FormsAssumption, LedgerAssumption, DayOfGrows DEF Books

\* The parts of a payment are numbers, and no two payments share an id.
LEMMA PaidTypes ==
  ASSUME NEW P, Paid(P)
  PROVE  /\ Amounts(P) /\ \A Q \in SUBSET P : Paid(Q) /\ Amounts(Q)
         /\ \A p \in P : p.id \in Nat /\ p.day \in Nat /\ p.amount \in Int
         /\ \A p, q \in P : p.id = q.id => p = q
  BY FormsAssumption, FS_Subset DEF Paid, Amounts

\* What a function makes of finitely many elements.
LEMMA FiniteImage ==
  ASSUME NEW S, IsFiniteSet(S), NEW f
  PROVE  IsFiniteSet({f[x] : x \in S})
<1> DEFINE T == {f[x] : x \in S}
           g == [x \in S |-> f[x]]
<1>1. g \in Surjection(S, T)
  BY DEF Surjection
<1> HIDE DEF T
<1>2. IsFiniteSet(T)
  BY <1>1, FS_Surjection
<1>3. QED
  BY <1>2 DEF T

PaymentEvent(p) == [day |-> p.day, order |-> 1, id |-> p.id, payment |-> p]
CountEvent(U, c) == [day |-> DayOf(U[c].at), order |-> 2, id |-> c]

EventsBefore(U, P) == [e \in Events(U, P) |-> {f \in Events(U, P) : HappensBefore(f, e)}]

\* Events happen one after the other.
LEMMA EventsOrdered ==
  ASSUME NEW U, Books(U), NEW P, Paid(P)
  PROVE  Ordered(EventsBefore(U, P)) /\ DOMAIN EventsBefore(U, P) = Events(U, P)
<1>1. Events(U, P) = {PaymentEvent(p) : p \in P} \cup {CountEvent(U, c) : c \in DOMAIN U}
  BY DEF Events, PaymentEvent, CountEvent
<1>2. IsFiniteSet(Events(U, P))
  <2> DEFINE f == [p \in P |-> PaymentEvent(p)]
             g == [c \in DOMAIN U |-> CountEvent(U, c)]
  <2>1. PICK A : A = {f[p] : p \in P}
    OBVIOUS
  <2>2. PICK B : B = {g[c] : c \in DOMAIN U}
    OBVIOUS
  <2>3. Events(U, P) = A \cup B
    BY <1>1, <2>1, <2>2
  <2> HIDE DEF f, g
  <2>4. IsFiniteSet(P) /\ IsFiniteSet(DOMAIN U)
    BY DEF Books, Paid
  <2>5. IsFiniteSet(A)
    BY <2>1, <2>4, FiniteImage
  <2>6. IsFiniteSet(B)
    BY <2>2, <2>4, FiniteImage
  <2>7. QED
    BY <2>3, <2>5, <2>6, FS_Union
<1>3. ASSUME NEW e \in Events(U, P)
      PROVE  e.day \in Int /\ e.order \in {1, 2} /\ e.id \in Nat
  <2>1. ASSUME NEW p \in P, e = PaymentEvent(p)
        PROVE  e.day \in Int /\ e.order \in {1, 2} /\ e.id \in Nat
    BY <2>1, PaidTypes DEF PaymentEvent
  <2>2. ASSUME NEW c \in DOMAIN U, e = CountEvent(U, c)
        PROVE  e.day \in Int /\ e.order \in {1, 2} /\ e.id \in Nat
    BY <2>2, BooksTypes DEF CountEvent
  <2>3. QED
    BY <1>1, <2>1, <2>2
<1>4. ASSUME NEW e \in Events(U, P), NEW f \in Events(U, P),
             e.day = f.day, e.order = f.order, e.id = f.id
      PROVE  e = f
  <2>1. ASSUME NEW p \in P, NEW q \in P, e = PaymentEvent(p), f = PaymentEvent(q) PROVE e = f
    <3>1. p.id = q.id /\ p.day = q.day
      BY <1>4, <2>1 DEF PaymentEvent
    <3>2. p = q
      BY <3>1, PaidTypes
    <3>3. QED
      BY <2>1, <3>2
  <2>2. ASSUME NEW c \in DOMAIN U, NEW d \in DOMAIN U, e = CountEvent(U, c), f = CountEvent(U, d)
        PROVE  e = f
    BY <1>4, <2>2 DEF CountEvent
  <2>3. ASSUME NEW p \in P, NEW c \in DOMAIN U,
               \/ e = PaymentEvent(p) /\ f = CountEvent(U, c)
               \/ f = PaymentEvent(p) /\ e = CountEvent(U, c)
        PROVE  FALSE
    BY <1>4, <2>3 DEF PaymentEvent, CountEvent
  <2>4. QED
    BY <1>1, <2>1, <2>2, <2>3
<1> DEFINE S == Events(U, P)
<1> HIDE DEF S
<1>5. /\ \A e \in S : ~HappensBefore(e, e)
      /\ \A e, f, g \in S : HappensBefore(e, f) /\ HappensBefore(f, g) => HappensBefore(e, g)
      /\ \A e, f \in S : e = f \/ HappensBefore(e, f) \/ HappensBefore(f, e)
  <2>1. \A e \in S : e.day \in Int /\ e.order \in Int /\ e.id \in Int
    BY <1>3 DEF S
  <2>2. ASSUME NEW e \in S PROVE ~HappensBefore(e, e)
    BY <2>1 DEF HappensBefore
  <2>3. ASSUME NEW e \in S, NEW f \in S, NEW g \in S, HappensBefore(e, f), HappensBefore(f, g)
        PROVE  HappensBefore(e, g)
    BY <2>1, <2>3 DEF HappensBefore
  <2>4. ASSUME NEW e \in S, NEW f \in S, ~HappensBefore(e, f), ~HappensBefore(f, e)
        PROVE  e = f
    <3>1. e.day = f.day /\ e.order = f.order /\ e.id = f.id
      BY <2>1, <2>4 DEF HappensBefore
    <3>2. QED
      BY <1>4, <3>1 DEF S
  <2>5. QED
    BY <2>2, <2>3, <2>4
<1>6. Ordered([e \in S |-> {f \in S : HappensBefore(f, e)}])
  BY <1>2, <1>5 DEF Ordered, S
<1>7. QED
  BY <1>6 DEF S, EventsBefore

-----------------------------------------------------------------------------
(* The ledger, step by step.                                               *)

\* A count that is booked after those before it and after the payments of its day.
CountStep(U, P, to, b, done, paid, b2, done2, paid2) ==
  \E c \in DOMAIN U :
    /\ done = {d \in DOMAIN U : BookedBefore(U, d, c)}
    /\ paid = {p \in P : p.day <= DayOf(U[c].at)}
    /\ done2 = done \cup {c} /\ paid2 = paid
    /\ b2 = BookCount(b, UNION {DOMAIN U[d].amounts : d \in done}, c, U[c].amounts)

\* A payment that is booked after those before it and after the counts of earlier days.
PaymentStep(U, P, to, b, done, paid, b2, done2, paid2) ==
  \E p \in P :
    /\ done = {d \in DOMAIN U : DayOf(U[d].at) < p.day}
    /\ paid = {q \in P : PaidBefore(q, p)}
    /\ done2 = done /\ paid2 = paid \cup {p}
    /\ b2 = BookPayment(b, to[p], p)

\* The books w[k] after k events, with the counts and the payments booked by then.
LedgerRun(U, P, to, n, w, done, paid) ==
  /\ w[0] = NothingBooked /\ done[0] = {} /\ paid[0] = {}
  /\ w[n] = BookAll(U, P, to) /\ done[n] = DOMAIN U /\ paid[n] = P
  /\ \A k \in 1 .. n :
       \/ CountStep(U, P, to, w[k - 1], done[k - 1], paid[k - 1], w[k], done[k], paid[k])
       \/ PaymentStep(U, P, to, w[k - 1], done[k - 1], paid[k - 1], w[k], done[k], paid[k])

\* The ledger books every count and every payment once.
LEMMA LedgerSteps ==
  ASSUME NEW U, Books(U), NEW P, Paid(P), NEW to
  PROVE  \E n \in Nat : \E w, done, paid : LedgerRun(U, P, to, n, w, done, paid)
<1> DEFINE before == EventsBefore(U, P)
           seq == LedgerEvents(U, P)
           n == Cardinality(DOMAIN before)
<1>1. Ordered(before) /\ DOMAIN before = Events(U, P)
  BY EventsOrdered
<1>2. seq = InOrder(before)
  BY DEF LedgerEvents, EventsBefore
<1>3. \A e \in Events(U, P) : before[e] = {f \in Events(U, P) : HappensBefore(f, e)}
  BY DEF EventsBefore
<1> HIDE DEF before, n, seq
<1>4. n \in Nat /\ DOMAIN seq = 1 .. n /\ \A k \in 1 .. n : seq[k] \in Events(U, P)
  BY <1>1, <1>2, InOrderLists DEF n
<1>5. /\ Events(U, P) = {seq[j] : j \in 1 .. n}
      /\ \A k \in 1 .. n : before[seq[k]] = {seq[j] : j \in 1 .. k - 1}
  <2>1. n = Cardinality(DOMAIN before)
    BY DEF n
  <2>2. DOMAIN before = {InOrder(before)[j] : j \in 1 .. n}
    BY <1>1, <2>1, InOrderPrefix
  <2>3. \A k \in 1 .. n :
          before[InOrder(before)[k]] = {InOrder(before)[j] : j \in 1 .. k - 1}
    BY <1>1, <2>1, InOrderPrefix
  <2>4. QED
    BY <1>1, <1>2, <2>2, <2>3
<1>6. PICK w : /\ w[0] = NothingBooked
               /\ \A k \in 1 .. n : w[k] = BookEvent(w[k - 1], seq[k], U, to)
               /\ w[n] = BookFold(U, to, seq)
  BY <1>4, BookWalk
<1>7. w[n] = BookAll(U, P, to)
  BY <1>6, Zenon DEF BookFold, BookAll, seq
<1> DEFINE E(k) == {seq[j] : j \in 1 .. k}
           done == [k \in 0 .. n |-> {c \in DOMAIN U : CountEvent(U, c) \in E(k)}]
           paid == [k \in 0 .. n |-> {p \in P : PaymentEvent(p) \in E(k)}]
<1>8. Events(U, P) = {PaymentEvent(p) : p \in P} \cup {CountEvent(U, c) : c \in DOMAIN U}
  BY DEF Events, PaymentEvent, CountEvent
<1>9. done[0] = {} /\ paid[0] = {}
  BY <1>4
<1>10. done[n] = DOMAIN U /\ paid[n] = P
  <2>1. E(n) = Events(U, P) /\ n \in 0 .. n
    BY <1>4, <1>5
  <2> HIDE DEF E
  <2>2. QED
    BY <1>8, <2>1
<1>11. ASSUME NEW k \in 1 .. n
       PROVE  \/ CountStep(U, P, to, w[k - 1], done[k - 1], paid[k - 1], w[k], done[k], paid[k])
              \/ PaymentStep(U, P, to, w[k - 1], done[k - 1], paid[k - 1], w[k], done[k], paid[k])
  <2>1. PICK e \in Events(U, P) : e = seq[k]
    BY <1>4
  <2>2. E(k - 1) = {f \in Events(U, P) : HappensBefore(f, e)}
    BY <1>3, <1>5, <2>1
  <2>3. E(k) = E(k - 1) \cup {e} /\ k \in 0 .. n /\ k - 1 \in 0 .. n
    BY <1>4, <2>1
  <2> HIDE DEF E
  <2>4. /\ done[k - 1] = {c \in DOMAIN U : HappensBefore(CountEvent(U, c), e)}
        /\ paid[k - 1] = {p \in P : HappensBefore(PaymentEvent(p), e)}
    BY <1>8, <2>2, <2>3
  <2>5. /\ done[k] = {c \in DOMAIN U : c \in done[k - 1] \/ CountEvent(U, c) = e}
        /\ paid[k] = {p \in P : p \in paid[k - 1] \/ PaymentEvent(p) = e}
    BY <1>8, <2>3
  <2>6. w[k] = BookEvent(w[k - 1], e, U, to)
    BY <1>6, <2>1
  <2> HIDE DEF done, paid
  <2>7. ASSUME NEW c \in DOMAIN U, e = CountEvent(U, c)
        PROVE  CountStep(U, P, to, w[k - 1], done[k - 1], paid[k - 1], w[k], done[k], paid[k])
    <3>1. e.day = DayOf(U[c].at) /\ e.order = 2 /\ e.id = c
      BY <2>7 DEF CountEvent
    <3>2. ASSUME NEW d \in DOMAIN U
          PROVE  /\ HappensBefore(CountEvent(U, d), e) <=> BookedBefore(U, d, c)
                 /\ CountEvent(U, d) = e <=> d = c
      BY <2>7, <3>1 DEF HappensBefore, CountEvent, BookedBefore
    <3>3. ASSUME NEW p \in P
          PROVE  /\ HappensBefore(PaymentEvent(p), e) <=> p.day <= DayOf(U[c].at)
                 /\ PaymentEvent(p) # e
      <4>1. p.day \in Int /\ DayOf(U[c].at) \in Int
        BY PaidTypes, BooksTypes
      <4>2. PaymentEvent(p).day = p.day /\ PaymentEvent(p).order = 1
        BY DEF PaymentEvent
      <4>3. QED
        BY <3>1, <4>1, <4>2 DEF HappensBefore
    <3>4. done[k - 1] = {d \in DOMAIN U : BookedBefore(U, d, c)}
      BY <2>4, <3>2
    <3>5. paid[k - 1] = {p \in P : p.day <= DayOf(U[c].at)}
      BY <2>4, <3>3
    <3>6. done[k] = done[k - 1] \cup {c} /\ paid[k] = paid[k - 1]
      BY <2>4, <2>5, <3>2, <3>3
    <3>7. CountedEarlier(U, e) = UNION {DOMAIN U[d].amounts : d \in done[k - 1]}
      BY <3>1, <3>4 DEF CountedEarlier, BookedBefore
    <3>8. w[k] = BookCount(w[k - 1], CountedEarlier(U, e), c, U[c].amounts)
      BY <2>6, <3>1 DEF BookEvent
    <3>9. QED
      BY <3>4, <3>5, <3>6, <3>7, <3>8 DEF CountStep
  <2>8. ASSUME NEW p \in P, e = PaymentEvent(p)
        PROVE  PaymentStep(U, P, to, w[k - 1], done[k - 1], paid[k - 1], w[k], done[k], paid[k])
    <3>1. e.day = p.day /\ e.order = 1 /\ e.id = p.id /\ e.payment = p
      BY <2>8 DEF PaymentEvent
    <3>2. ASSUME NEW d \in DOMAIN U
          PROVE  /\ HappensBefore(CountEvent(U, d), e) <=> DayOf(U[d].at) < p.day
                 /\ CountEvent(U, d) # e
      <4>1. CountEvent(U, d).day = DayOf(U[d].at) /\ CountEvent(U, d).order = 2
        BY DEF CountEvent
      <4>2. QED
        BY <3>1, <4>1 DEF HappensBefore
    <3>3. ASSUME NEW q \in P
          PROVE  /\ HappensBefore(PaymentEvent(q), e) <=> PaidBefore(q, p)
                 /\ PaymentEvent(q) = e <=> q = p
      <4>1. PaymentEvent(q).day = q.day /\ PaymentEvent(q).order = 1 /\ PaymentEvent(q).id = q.id
            /\ PaymentEvent(q).payment = q
        BY DEF PaymentEvent
      <4>2. QED
        BY <2>8, <3>1, <4>1 DEF HappensBefore, PaidBefore
    <3>4. done[k - 1] = {d \in DOMAIN U : DayOf(U[d].at) < p.day}
      BY <2>4, <3>2
    <3>5. paid[k - 1] = {q \in P : PaidBefore(q, p)}
      BY <2>4, <3>3
    <3>6. done[k] = done[k - 1] /\ paid[k] = paid[k - 1] \cup {p}
      BY <2>4, <2>5, <3>2, <3>3
    <3>7. w[k] = BookPayment(w[k - 1], to[p], p)
      BY <2>6, <3>1 DEF BookEvent
    <3>8. QED
      BY <3>4, <3>5, <3>6, <3>7 DEF PaymentStep
  <2>9. QED
    BY <1>8, <2>7, <2>8
<1> HIDE DEF done, paid
<1>12. QED
  BY <1>4, <1>6, <1>7, <1>9, <1>10, <1>11 DEF LedgerRun

-----------------------------------------------------------------------------
(* What the ledger finds.                                                  *)

\* Counts are booked one after the other.
LEMMA BookedInOrder ==
  ASSUME NEW U, Books(U)
  PROVE  /\ \A c \in DOMAIN U : ~BookedBefore(U, c, c)
         /\ \A c, d, e \in DOMAIN U :
              BookedBefore(U, c, d) /\ BookedBefore(U, d, e) => BookedBefore(U, c, e)
         /\ \A c, d \in DOMAIN U : c = d \/ BookedBefore(U, c, d) \/ BookedBefore(U, d, c)
         /\ \A c, d \in DOMAIN U : BookedBefore(U, c, d) => ~BookedBefore(U, d, c)
<1>1. \A c \in DOMAIN U : c \in Int /\ DayOf(U[c].at) \in Int
  BY BooksTypes
<1>2. QED
  BY <1>1 DEF BookedBefore

\* Some counts have one that is booked last.
LEMMA LastBooked ==
  ASSUME NEW U, Books(U), NEW S \in SUBSET DOMAIN U, S # {}
  PROVE  \E c \in S : \A d \in S : d = c \/ BookedBefore(U, d, c)
<1> DEFINE before == [c \in S |-> {d \in S : BookedBefore(U, d, c)}]
<1>1. IsFiniteSet(S)
  BY FS_Subset DEF Books
<1>2. Ordered(before)
  BY <1>1, BookedInOrder DEF Ordered
<1>3. DOMAIN before = S /\ \A c \in S : before[c] = {d \in S : BookedBefore(U, d, c)}
  OBVIOUS
<1> HIDE DEF before
<1>4. PICK c \in S : \A d \in S : d = c \/ d \in before[c]
  BY <1>2, <1>3, FirstAndLast
<1>5. QED
  BY <1>3, <1>4

\* The count before another is booked before it, and after all others that are.
LEMMA PreviousIsLast ==
  ASSUME NEW U, Books(U), NEW c \in DOMAIN U, NEW r, EarlierCounts(U, c, r) # {}
  PROVE  /\ PreviousCount(U, c, r) \in EarlierCounts(U, c, r)
         /\ PreviousCount(U, c, r) \in DOMAIN U
         /\ r \in DOMAIN U[PreviousCount(U, c, r)].amounts
         /\ \A d \in EarlierCounts(U, c, r) :
              d = PreviousCount(U, c, r) \/ BookedBefore(U, d, PreviousCount(U, c, r))
<1>1. EarlierCounts(U, c, r) \in SUBSET DOMAIN U
      /\ \A d \in EarlierCounts(U, c, r) : r \in DOMAIN U[d].amounts
  BY DEF EarlierCounts, CountsOf, CountedIn
<1>2. \E d \in EarlierCounts(U, c, r) :
        \A e \in EarlierCounts(U, c, r) : e = d \/ BookedBefore(U, e, d)
  BY <1>1, LastBooked
<1>3. /\ PreviousCount(U, c, r) \in EarlierCounts(U, c, r)
      /\ \A d \in EarlierCounts(U, c, r) :
           d = PreviousCount(U, c, r) \/ BookedBefore(U, d, PreviousCount(U, c, r))
  BY <1>2 DEF PreviousCount
<1>4. QED
  BY <1>1, <1>3

\* What a register was paid since a day.
PaidSince(to, paid, r, day) == {p \in paid : to[p] = r /\ p.day > day}

\* Nothing was counted in a register after c.
LastCounted(U, done, c, r) ==
  /\ c \in done /\ r \in DOMAIN U[c].amounts
  /\ \A d \in done : r \in DOMAIN U[d].amounts => d = c \/ BookedBefore(U, d, c)

\* The registers of a count that were counted before.
Again(U, c) == {r \in DOMAIN U[c].amounts : EarlierCounts(U, c, r) # {}}

\* The differences of a count that finds m[r] missing in register r.
Found(U, c, m) == Items(m, c, Again(U, c))

\* What a count finds missing is explained by the count before it and the payments since.
Explained(U, to, c, m) ==
  \A r \in Again(U, c) :
    m[r] \in Int /\ Rounded(Change(U, c, r) - m[r], PaidBetweenCounts(U, to, c, r))

\* What the ledger's books tell once the counts `done` and the payments `paid` are
\* booked: a counted register holds what its last count left, and what was paid since,
\* rounded one by one; the differences are those of the counts, and they are explained.
LedgerInv(U, to, b, done, paid) ==
  /\ \A c \in done : DOMAIN U[c].amounts \subseteq DOMAIN b.expected
  /\ \A c \in done, r \in Nat : LastCounted(U, done, c, r) =>
       /\ b.expected[r] \in Int
       /\ Rounded(b.expected[r] - U[c].amounts[r].after,
                  PaidSince(to, paid, r, DayOf(U[c].at)))
  /\ \E m : /\ b.differences = UNION {Found(U, c, m[c]) : c \in done}
            /\ \A c \in done : Explained(U, to, c, m[c])

\* A payment keeps the books' story: it adds to its register, after all that was
\* counted.
LEMMA PaymentKeepsStory ==
  ASSUME NEW U, Books(U), NEW P, Paid(P), NEW to, NEW b, NEW done, NEW paid,
         NEW b2, NEW done2, NEW paid2, done \subseteq DOMAIN U, paid \subseteq P,
         LedgerInv(U, to, b, done, paid),
         PaymentStep(U, P, to, b, done, paid, b2, done2, paid2)
  PROVE  LedgerInv(U, to, b2, done2, paid2)
<1>1. PICK p \in P : /\ done = {d \in DOMAIN U : DayOf(U[d].at) < p.day}
                     /\ paid = {q \in P : PaidBefore(q, p)}
                     /\ done2 = done /\ paid2 = paid \cup {p}
                     /\ b2 = BookPayment(b, to[p], p)
  BY DEF PaymentStep
<1>2. p.day \in Nat /\ p.id \in Nat /\ p.amount \in Int /\ p \notin paid /\ paid \in SUBSET P
  BY <1>1, PaidTypes DEF PaidBefore
<1>3. /\ b2.differences = b.differences
      /\ DOMAIN b.expected \subseteq DOMAIN b2.expected
      /\ \A r \in DOMAIN b.expected \ {to[p]} :
           b.expected[r] \in Int /\ r # NoRegister => b2.expected[r] = b.expected[r]
      /\ to[p] \in DOMAIN b.expected \ {NoRegister} =>
           b2.expected[to[p]] = rc(b.expected[to[p]], p.amount)
  <2>1. CASE to[p] = NoRegister
    BY <1>1, <2>1 DEF BookPayment
  <2>2. CASE to[p] # NoRegister
    BY <1>1, <2>2 DEF BookPayment, Expected
  <2>3. QED
    BY <2>1, <2>2
<1>4. ASSUME NEW c \in done2, NEW r \in Nat, LastCounted(U, done2, c, r)
      PROVE  /\ b2.expected[r] \in Int
             /\ Rounded(b2.expected[r] - U[c].amounts[r].after,
                        PaidSince(to, paid2, r, DayOf(U[c].at)))
  <2>1. c \in done /\ LastCounted(U, done, c, r) /\ c \in DOMAIN U /\ r \in DOMAIN U[c].amounts
    BY <1>1, <1>4 DEF LastCounted
  <2>2. PICK S : S = PaidSince(to, paid, r, DayOf(U[c].at))
    OBVIOUS
  <2>3. b.expected[r] \in Int /\ Rounded(b.expected[r] - U[c].amounts[r].after, S)
    BY <2>1, <2>2 DEF LedgerInv
  <2>4. S \in SUBSET P /\ p \notin S
    BY <1>1, <1>2, <2>2 DEF PaidSince
  <2>5. Amounts(S) /\ S \subseteq PaymentForms /\ p \in PaymentForms
    BY <2>4, PaidTypes DEF Paid
  <2>6. U[c].amounts[r].after \in Int /\ r \in DOMAIN b.expected /\ r # NoRegister
    BY <2>1, BooksTypes DEF LedgerInv
  <2>7. CASE to[p] = r
    <3>1. DayOf(U[c].at) < p.day
      BY <1>1, <2>1
    <3>2. p.day > DayOf(U[c].at)
      BY <1>2, <2>1, <3>1, BooksTypes
    <3>3. PaidSince(to, paid2, r, DayOf(U[c].at)) = S \cup {p}
      BY <1>1, <2>2, <2>7, <3>2 DEF PaidSince
    <3>4. b2.expected[r] = rc(b.expected[r], p.amount)
      BY <1>3, <2>6, <2>7
    <3>5. b2.expected[r] \in Int
      BY <1>2, <2>3, <3>4, RoundType
    <3>6. Rounded(rc(b.expected[r], p.amount) - U[c].amounts[r].after, S \cup {p})
      BY <2>3, <2>4, <2>5, <2>6, RoundedAdds
    <3>7. QED
      BY <3>3, <3>4, <3>5, <3>6
  <2>8. CASE to[p] # r
    <3>1. PaidSince(to, paid2, r, DayOf(U[c].at)) = S
      BY <1>1, <2>2, <2>8 DEF PaidSince
    <3>2. b2.expected[r] = b.expected[r]
      BY <1>3, <2>3, <2>6, <2>8
    <3>3. QED
      BY <2>3, <3>1, <3>2
  <2>9. QED
    BY <2>7, <2>8
<1>5. \A c \in done2 : DOMAIN U[c].amounts \subseteq DOMAIN b2.expected
  BY <1>1, <1>3 DEF LedgerInv
<1>6. \E m : /\ b2.differences = UNION {Found(U, c, m[c]) : c \in done2}
             /\ \A c \in done2 : Explained(U, to, c, m[c])
  BY <1>1, <1>3 DEF LedgerInv
<1>7. QED
  BY <1>4, <1>5, <1>6 DEF LedgerInv

\* What was found is explained, as it is what the books expected, or less or more than
\* that.
LEMMA CountFinds ==
  ASSUME NEW U, Books(U), NEW P, Paid(P), NEW to, DOMAIN to = P,
         NEW b, NEW done, NEW paid, NEW c \in DOMAIN U,
         done = {d \in DOMAIN U : BookedBefore(U, d, c)},
         paid = {p \in P : p.day <= DayOf(U[c].at)},
         LedgerInv(U, to, b, done, paid)
  PROVE  /\ Again(U, c) = DOMAIN U[c].amounts \cap UNION {DOMAIN U[d].amounts : d \in done}
         /\ \A r \in Again(U, c) :
              /\ b.expected[r] \in Int
              /\ Rounded(Change(U, c, r) - (U[c].amounts[r].before - b.expected[r]),
                         PaidBetweenCounts(U, to, c, r))
<1>1. Again(U, c) = DOMAIN U[c].amounts \cap UNION {DOMAIN U[d].amounts : d \in done}
  BY DEF Again, EarlierCounts, CountsOf, CountedIn
<1>2. ASSUME NEW r \in Again(U, c)
      PROVE  /\ b.expected[r] \in Int
             /\ Rounded(Change(U, c, r) - (U[c].amounts[r].before - b.expected[r]),
                        PaidBetweenCounts(U, to, c, r))
  <2>1. PICK d : d = PreviousCount(U, c, r)
    OBVIOUS
  <2>2. /\ d \in EarlierCounts(U, c, r) /\ d \in DOMAIN U /\ r \in DOMAIN U[d].amounts
        /\ \A e \in EarlierCounts(U, c, r) : e = d \/ BookedBefore(U, e, d)
    BY <2>1, PreviousIsLast DEF Again
  <2>3. LastCounted(U, done, d, r)
    BY <2>2 DEF LastCounted, EarlierCounts, CountsOf, CountedIn
  <2>4. PICK S : S = PaidSince(to, paid, r, DayOf(U[d].at))
    OBVIOUS
  <2>5. r \in Nat /\ r \in DOMAIN U[c].amounts
    BY BooksTypes DEF Again
  <2>6. b.expected[r] \in Int /\ Rounded(b.expected[r] - U[d].amounts[r].after, S)
    BY <2>3, <2>4, <2>5 DEF LedgerInv, LastCounted
  <2>7. PaidBetweenCounts(U, to, c, r) = S
    BY <2>1, <2>4 DEF PaidSince, PaidBetweenCounts
  <2>8. U[c].amounts[r].before \in Int /\ U[d].amounts[r].after \in Int
    BY <2>2, <2>5, BooksTypes
  <2>9. Change(U, c, r) = U[c].amounts[r].before - U[d].amounts[r].after
    BY <2>1 DEF Change
  <2>10. Change(U, c, r) - (U[c].amounts[r].before - b.expected[r])
         = b.expected[r] - U[d].amounts[r].after
    BY <2>6, <2>8, <2>9
  <2>11. QED
    BY <2>6, <2>7, <2>10
<1>3. QED
  BY <1>1, <1>2

\* A count keeps the books' story: the registers it counts start anew.
LEMMA CountKeepsStory ==
  ASSUME NEW U, Books(U), NEW P, Paid(P), NEW to, DOMAIN to = P,
         NEW b, NEW done, NEW paid, NEW b2, NEW done2, NEW paid2,
         LedgerInv(U, to, b, done, paid),
         CountStep(U, P, to, b, done, paid, b2, done2, paid2)
  PROVE  LedgerInv(U, to, b2, done2, paid2)
<1>1. PICK c \in DOMAIN U :
        /\ done = {d \in DOMAIN U : BookedBefore(U, d, c)}
        /\ paid = {p \in P : p.day <= DayOf(U[c].at)}
        /\ done2 = done \cup {c} /\ paid2 = paid
        /\ b2 = BookCount(b, UNION {DOMAIN U[d].amounts : d \in done}, c, U[c].amounts)
  BY DEF CountStep
<1>2. PICK counted : counted = UNION {DOMAIN U[d].amounts : d \in done}
  OBVIOUS
<1>3. PICK amounts : amounts = U[c].amounts
  OBVIOUS
<1>4. /\ Again(U, c) = DOMAIN amounts \cap counted
      /\ \A r \in Again(U, c) :
           /\ b.expected[r] \in Int
           /\ Rounded(Change(U, c, r) - (amounts[r].before - b.expected[r]),
                      PaidBetweenCounts(U, to, c, r))
  BY <1>1, <1>2, <1>3, CountFinds
<1>5. /\ DOMAIN b2.expected = DOMAIN b.expected \cup DOMAIN amounts
      /\ \A r \in DOMAIN b2.expected :
           b2.expected[r] = IF r \in DOMAIN amounts THEN amounts[r].after ELSE b.expected[r]
      /\ b2.differences = b.differences \cup
           {[count |-> c, register |-> r, amount |-> amounts[r].before - b.expected[r]] :
              r \in {t \in DOMAIN amounts \cap counted : amounts[t].before # b.expected[t]}}
  BY <1>1, <1>2, <1>3 DEF BookCount
<1>6. PICK x : \A r \in Again(U, c) : x[r] = amounts[r].before - b.expected[r]
  <2> DEFINE x == [r \in Again(U, c) |-> amounts[r].before - b.expected[r]]
  <2>1. \A r \in Again(U, c) : x[r] = amounts[r].before - b.expected[r]
    OBVIOUS
  <2> HIDE DEF x
  <2>2. QED
    BY <2>1
<1>7. \E m : /\ b2.differences = UNION {Found(U, d, m[d]) : d \in done2}
             /\ \A d \in done2 : Explained(U, to, d, m[d])
  <2>1. PICK m : /\ b.differences = UNION {Found(U, d, m[d]) : d \in done}
                 /\ \A d \in done : Explained(U, to, d, m[d])
    BY DEF LedgerInv
  <2>2. c \notin done
    BY <1>1, BookedInOrder
  <2> DEFINE n == [d \in done2 |-> IF d = c THEN x ELSE m[d]]
  <2>3. n[c] = x /\ \A d \in done : n[d] = m[d]
    BY <1>1, <2>2
  <2> HIDE DEF n
  <2>4. \A r \in Again(U, c) : x[r] \in Int /\ (x[r] # 0 <=> amounts[r].before # b.expected[r])
    <3>1. \A r \in Again(U, c) : amounts[r].before \in Int
      BY <1>3, BooksTypes DEF Again
    <3>2. QED
      BY <1>4, <1>6, <3>1
  <2>5. Explained(U, to, c, x)
    BY <1>4, <1>6, <2>4 DEF Explained
  <2>6. Found(U, c, x) =
          {[count |-> c, register |-> r, amount |-> amounts[r].before - b.expected[r]] :
             r \in {t \in DOMAIN amounts \cap counted : amounts[t].before # b.expected[t]}}
    <3>1. PICK R : R = {t \in DOMAIN amounts \cap counted : amounts[t].before # b.expected[t]}
      OBVIOUS
    <3>2. R = {r \in Again(U, c) : x[r] # 0}
      BY <1>4, <2>4, <3>1
    <3>3. {[count |-> c, register |-> r, amount |-> x[r]] : r \in R}
          = {[count |-> c, register |-> r, amount |-> amounts[r].before - b.expected[r]] : r \in R}
      BY <1>6, <3>2
    <3>4. Found(U, c, x) = {[count |-> c, register |-> r, amount |-> x[r]] : r \in R}
      BY <3>2 DEF Found, Items
    <3>5. QED
      BY <3>1, <3>3, <3>4
  <2>7. b2.differences = UNION {Found(U, d, n[d]) : d \in done2}
    <3>1. b2.differences = b.differences \cup Found(U, c, n[c])
      BY <1>5, <2>3, <2>6
    <3>2. b.differences = UNION {Found(U, d, n[d]) : d \in done}
      BY <2>1, <2>3
    <3>3. QED
      BY <1>1, <3>1, <3>2
  <2>8. \A d \in done2 : Explained(U, to, d, n[d])
    BY <1>1, <2>1, <2>3, <2>5
  <2>9. QED
    BY <2>7, <2>8
<1>8. \A d \in done2 : DOMAIN U[d].amounts \subseteq DOMAIN b2.expected
  BY <1>1, <1>3, <1>5 DEF LedgerInv
<1>9. ASSUME NEW d \in done2, NEW r \in Nat, LastCounted(U, done2, d, r)
      PROVE  /\ b2.expected[r] \in Int
             /\ Rounded(b2.expected[r] - U[d].amounts[r].after,
                        PaidSince(to, paid2, r, DayOf(U[d].at)))
  <2>1. r \in DOMAIN U[d].amounts /\ r \in DOMAIN b2.expected
    BY <1>8, <1>9 DEF LastCounted
  <2>2. CASE d = c
    <3>1. \A p \in P : p.day <= DayOf(U[c].at) => ~(p.day > DayOf(U[c].at))
      BY PaidTypes, BooksTypes
    <3>2. PaidSince(to, paid2, r, DayOf(U[d].at)) = {}
      BY <1>1, <2>2, <3>1 DEF PaidSince
    <3>3. b2.expected[r] = U[d].amounts[r].after /\ U[d].amounts[r].after \in Int
      BY <1>3, <1>5, <2>1, <2>2, BooksTypes
    <3>4. b2.expected[r] - U[d].amounts[r].after = 0
      BY <3>3
    <3>5. QED
      BY <3>2, <3>3, <3>4, RoundedNothing
  <2>3. CASE d # c
    <3>1. d \in done /\ d \in DOMAIN U /\ BookedBefore(U, d, c)
      BY <1>1, <2>3
    <3>2. ~BookedBefore(U, c, d)
      BY <3>1, BookedInOrder
    <3>3. r \notin DOMAIN amounts
      BY <1>1, <1>3, <1>9, <2>3, <3>2 DEF LastCounted
    <3>4. LastCounted(U, done, d, r)
      BY <1>1, <1>9, <3>1 DEF LastCounted
    <3>5. /\ b.expected[r] \in Int
          /\ Rounded(b.expected[r] - U[d].amounts[r].after,
                     PaidSince(to, paid, r, DayOf(U[d].at)))
      BY <3>1, <3>4 DEF LedgerInv
    <3>6. QED
      BY <1>1, <1>5, <2>1, <3>3, <3>5
  <2>4. QED
    BY <2>2, <2>3
<1>10. QED
  BY <1>7, <1>8, <1>9 DEF LedgerInv

\* The story of the whole ledger.
LEMMA LedgerTellsStory ==
  ASSUME NEW U, Books(U), NEW P, Paid(P), NEW to, DOMAIN to = P
  PROVE  LedgerInv(U, to, BookAll(U, P, to), DOMAIN U, P)
<1> PICK n \in Nat : \E w, done, paid : LedgerRun(U, P, to, n, w, done, paid)
  BY LedgerSteps
<1> PICK w, done, paid : LedgerRun(U, P, to, n, w, done, paid)
  OBVIOUS
<1>1. /\ w[0] = NothingBooked /\ done[0] = {} /\ paid[0] = {}
      /\ w[n] = BookAll(U, P, to) /\ done[n] = DOMAIN U /\ paid[n] = P
      /\ \A k \in 1 .. n :
           \/ CountStep(U, P, to, w[k - 1], done[k - 1], paid[k - 1], w[k], done[k], paid[k])
           \/ PaymentStep(U, P, to, w[k - 1], done[k - 1], paid[k - 1], w[k], done[k], paid[k])
  BY DEF LedgerRun
<1> DEFINE K == {k \in Nat : k <= n => /\ done[k] \subseteq DOMAIN U /\ paid[k] \subseteq P
                                       /\ LedgerInv(U, to, w[k], done[k], paid[k])}
<1>2. 0 \in K
  <2>1. w[0].differences = {} /\ done[0] = {} /\ paid[0] = {}
    BY <1>1 DEF NothingBooked
  <2>2. QED
    BY <2>1 DEF LedgerInv
<1>3. ASSUME NEW k \in Nat, k \in K PROVE k + 1 \in K
  <2> SUFFICES ASSUME k + 1 <= n
               PROVE  /\ done[k + 1] \subseteq DOMAIN U /\ paid[k + 1] \subseteq P
                      /\ LedgerInv(U, to, w[k + 1], done[k + 1], paid[k + 1])
    OBVIOUS
  <2>1. PICK l \in 1 .. n : l = k + 1 /\ l - 1 = k
    OBVIOUS
  <2>2. done[k] \subseteq DOMAIN U /\ paid[k] \subseteq P /\ LedgerInv(U, to, w[k], done[k], paid[k])
    BY <1>3
  <2>3. CASE CountStep(U, P, to, w[k], done[k], paid[k], w[l], done[l], paid[l])
    <3>1. done[l] \subseteq DOMAIN U /\ paid[l] \subseteq P
      BY <2>2, <2>3 DEF CountStep
    <3>2. LedgerInv(U, to, w[l], done[l], paid[l])
      BY <2>2, <2>3, CountKeepsStory
    <3>3. QED
      BY <2>1, <3>1, <3>2
  <2>4. CASE PaymentStep(U, P, to, w[k], done[k], paid[k], w[l], done[l], paid[l])
    <3>1. done[l] \subseteq DOMAIN U /\ paid[l] \subseteq P
      BY <2>2, <2>4 DEF PaymentStep
    <3>2. LedgerInv(U, to, w[l], done[l], paid[l])
      BY <2>2, <2>4, PaymentKeepsStory
    <3>3. QED
      BY <2>1, <3>1, <3>2
  <2>5. QED
    BY <1>1, <2>1, <2>3, <2>4
<1> HIDE DEF K
<1>4. n \in K
  BY <1>2, <1>3, Induct DEF K
<1>5. QED
  BY <1>1, <1>4 DEF K

-----------------------------------------------------------------------------
(* Registers and their counts.                                             *)

\* A function on 1 .. n is a sequence of length n.
LEMMA LenOfList ==
  ASSUME NEW n \in Nat, NEW s, DOMAIN s = 1 .. n, s = [k \in DOMAIN s |-> s[k]]
  PROVE  Len(s) = n /\ s \in Seq({s[k] : k \in 1 .. n})
  OBVIOUS

\* The counts of a register as they were counted.
CountsBefore(U, r) == [c \in CountsOf(U, r) |-> {d \in CountsOf(U, r) : CountedBefore(U, d, c)}]

\* The counts of a register are counted one after the other.
LEMMA CountsOrdered ==
  ASSUME NEW U, Books(U), NEW r
  PROVE  /\ Ordered(CountsBefore(U, r)) /\ DOMAIN CountsBefore(U, r) = CountsOf(U, r)
         /\ CountsOf(U, r) \in SUBSET DOMAIN U /\ IsFiniteSet(CountsOf(U, r))
         /\ \A c \in CountsOf(U, r) :
              CountsBefore(U, r)[c] = {d \in CountsOf(U, r) : CountedBefore(U, d, c)}
<1>1. CountsOf(U, r) \in SUBSET DOMAIN U
  BY DEF CountsOf
<1>2. IsFiniteSet(CountsOf(U, r))
  BY <1>1, FS_Subset DEF Books
<1>3. \A c \in CountsOf(U, r) : c \in Int /\ U[c].at \in Int
  BY <1>1, BooksTypes
<1> DEFINE S == CountsOf(U, r)
<1> HIDE DEF S
<1>4. /\ \A c \in S : ~CountedBefore(U, c, c)
      /\ \A c, d, e \in S : CountedBefore(U, c, d) /\ CountedBefore(U, d, e) => CountedBefore(U, c, e)
      /\ \A c, d \in S : c = d \/ CountedBefore(U, c, d) \/ CountedBefore(U, d, c)
  BY <1>3 DEF S, CountedBefore
<1>5. Ordered([c \in S |-> {d \in S : CountedBefore(U, d, c)}])
  BY <1>2, <1>4 DEF Ordered, S
<1>6. QED
  BY <1>1, <1>2, <1>5 DEF S, CountsBefore

\* The registers that were counted.
LEMMA RegistersTypes ==
  ASSUME NEW U, Books(U)
  PROVE  /\ IsFiniteSet(CountedRegisters(U)) /\ CountedRegisters(U) \subseteq Nat
         /\ NoRegister \notin CountedRegisters(U)
         /\ \A r \in CountedRegisters(U) : CountsOf(U, r) # {}
<1> DEFINE f == [c \in DOMAIN U |-> DOMAIN U[c].amounts]
           F == {f[c] : c \in DOMAIN U}
<1>1. CountedRegisters(U) = UNION F
  BY DEF CountedRegisters
<1>2. \A T \in F : IsFiniteSet(T) /\ T \subseteq Nat
  BY BooksTypes
<1>3. IsFiniteSet(F)
  <2> HIDE DEF f
  <2>1. IsFiniteSet(DOMAIN U)
    BY DEF Books
  <2>2. QED
    BY <2>1, FiniteImage
<1> HIDE DEF F
<1>4. IsFiniteSet(CountedRegisters(U))
  BY <1>1, <1>2, <1>3, FS_UNION
<1>5. CountedRegisters(U) \subseteq Nat /\ NoRegister \notin CountedRegisters(U)
  BY <1>1, <1>2, LedgerAssumption
<1>6. \A r \in CountedRegisters(U) : CountsOf(U, r) # {}
  BY DEF CountedRegisters, CountsOf, CountedIn
<1>7. QED
  BY <1>4, <1>5, <1>6

\* A counted register has a first count.
LEMMA FirstCountIsOne ==
  ASSUME NEW U, Books(U), NEW r \in CountedRegisters(U)
  PROVE  FirstCountOf(U, r) \in DOMAIN U
<1>1. PICK c \in CountsOf(U, r) : \A d \in CountsOf(U, r) : d = c \/ c \in CountsBefore(U, r)[d]
  BY CountsOrdered, RegistersTypes, FirstAndLast
<1>2. \A d \in CountsOf(U, r) : d = c \/ CountedBefore(U, c, d)
  BY <1>1, CountsOrdered
<1>3. FirstCountOf(U, r) \in CountsOf(U, r)
  BY <1>2 DEF FirstCountOf
<1>4. QED
  BY <1>3, CountsOrdered

\* The registers are listed once each.
LEMMA RegistersListed ==
  ASSUME NEW U, Books(U), NEW R, R = CountedRegisters(U)
  PROVE  /\ DOMAIN registerNumbers(U) = 1 .. Cardinality(R)
         /\ Len(registerNumbers(U)) = Cardinality(R) /\ Cardinality(R) \in Nat
         /\ ToSet(registerNumbers(U)) = R
         /\ \A k \in 1 .. Cardinality(R) : registerNumbers(U)[k] \in R
<1> DEFINE Enters(r, s) == EntersBefore(U, r, s, FirstCountOf(U, r), FirstCountOf(U, s))
           before == [r \in R |-> {s \in R : Enters(s, r)}]
           n == Cardinality(R)
<1>1. registerNumbers(U) = InOrder(before)
  BY DEF registerNumbers
<1>2. IsFiniteSet(R)
  BY RegistersTypes
<1>3. \A r \in R : r \in Int /\ FirstCountOf(U, r) \in Int /\ U[FirstCountOf(U, r)].at \in Int
  BY FirstCountIsOne, BooksTypes, RegistersTypes
<1>4. /\ \A r \in R : ~Enters(r, r)
      /\ \A r, s, t \in R : Enters(r, s) /\ Enters(s, t) => Enters(r, t)
      /\ \A r, s \in R : r = s \/ Enters(r, s) \/ Enters(s, r)
  <2> DEFINE f == [r \in R |-> FirstCountOf(U, r)]
             at == [r \in R |-> U[FirstCountOf(U, r)].at]
  <2>1. \A r \in R : r \in Int /\ f[r] \in Int /\ at[r] \in Int
    BY <1>3
  <2>2. \A r, s \in R : Enters(r, s) <=>
          \/ at[r] < at[s] \/ (at[r] = at[s] /\ f[r] < f[s])
          \/ (f[r] = f[s] /\ r < s)
    BY DEF EntersBefore, CountedBefore
  <2>3. \A r, s \in R : f[r] = f[s] => at[r] = at[s]
    OBVIOUS
  <2> HIDE DEF f, at, Enters
  <2>4. QED
    BY <2>1, <2>2, <2>3
<1> HIDE DEF Enters
<1>5. Ordered(before) /\ DOMAIN before = R
  BY <1>2, <1>4 DEF Ordered
<1>6. before = [r \in R |-> {s \in R : Enters(s, r)}]
  OBVIOUS
<1> HIDE DEF before
<1>7. /\ n \in Nat /\ DOMAIN InOrder(before) = 1 .. n
      /\ \A k \in 1 .. n : InOrder(before)[k] \in R
      /\ R = {InOrder(before)[k] : k \in 1 .. n}
  BY <1>5, InOrderLists, InOrderPrefix
<1>8. InOrder(before) = [k \in DOMAIN InOrder(before) |-> InOrder(before)[k]]
  BY <1>5 DEF InOrder
<1>9. Len(InOrder(before)) = n
  BY <1>7, <1>8, LenOfList
<1>10. ToSet(InOrder(before)) = R
  BY <1>7 DEF ToSet
<1>11. QED
  BY <1>1, <1>7, <1>9, <1>10

\* What assignTransactions is told of the registers.
AnchorsOf(U) == [r \in CountedRegisters(U) |-> loadRegisterAnchors(U, r)]

Anchors(a, R) ==
  /\ DOMAIN a = R
  /\ \A r \in R : /\ Len(a[r]) \in Nat \ {0}
                  /\ \A k \in 1 .. Len(a[r]) :
                       a[r][k].day \in Int /\ a[r][k].before \in Int /\ a[r][k].after \in Int

\* The counts of a register are listed as they were counted.
LEMMA AnchorsListed ==
  ASSUME NEW U, Books(U), NEW r \in CountedRegisters(U)
  PROVE  /\ Len(loadRegisterAnchors(U, r)) \in Nat \ {0}
         /\ \A k \in 1 .. Len(loadRegisterAnchors(U, r)) :
              \E c \in CountsOf(U, r) : loadRegisterAnchors(U, r)[k] = AnchorOf(U[c], r)
         /\ \E c \in CountsOf(U, r) :
              /\ loadRegisterAnchors(U, r)[Len(loadRegisterAnchors(U, r))] = AnchorOf(U[c], r)
              /\ \A d \in CountsOf(U, r) : d = c \/ CountedBefore(U, d, c)
<1> DEFINE before == CountsBefore(U, r)
           ids == InOrder(before)
           n == Cardinality(CountsOf(U, r))
           a == [k \in DOMAIN ids |-> AnchorOf(U[ids[k]], r)]
<1>1. loadRegisterAnchors(U, r) = a
  BY DEF loadRegisterAnchors, CountsInOrder, CountsBefore
<1>2. /\ Ordered(before) /\ DOMAIN before = CountsOf(U, r) /\ n \in Nat \ {0}
      /\ \A c \in CountsOf(U, r) : before[c] = {d \in CountsOf(U, r) : CountedBefore(U, d, c)}
  <2>1. CountsOf(U, r) # {}
    BY RegistersTypes
  <2>2. n \in Nat \ {0}
    BY <2>1, CountsOrdered, FS_CardinalityType, FS_EmptySet
  <2>3. QED
    BY <2>2, CountsOrdered
<1> HIDE DEF before
<1>3. /\ DOMAIN ids = 1 .. n /\ \A k \in 1 .. n : ids[k] \in CountsOf(U, r)
      /\ \A k \in 1 .. n : Cardinality(before[ids[k]]) = k - 1
      /\ \A c \in CountsOf(U, r) : /\ Cardinality(before[c]) + 1 \in 1 .. n
                                   /\ ids[Cardinality(before[c]) + 1] = c
  BY <1>2, InOrderLists
<1> HIDE DEF ids
<1>4. Len(a) = n
  <2>1. DOMAIN a = 1 .. n /\ a = [k \in DOMAIN a |-> a[k]]
    BY <1>3
  <2> HIDE DEF a
  <2>2. QED
    BY <1>2, <2>1, LenOfList
<1>5. \A k \in 1 .. n : a[k] = AnchorOf(U[ids[k]], r)
  BY <1>3
<1>6. \A d \in CountsOf(U, r) : d = ids[n] \/ CountedBefore(U, d, ids[n])
  <2> SUFFICES ASSUME NEW d \in CountsOf(U, r), d # ids[n] PROVE CountedBefore(U, d, ids[n])
    OBVIOUS
  <2>1. ids[n] \in CountsOf(U, r) /\ Cardinality(before[ids[n]]) = n - 1
    BY <1>2, <1>3
  <2>2. Cardinality(before[d]) + 1 \in 1 .. n /\ Cardinality(before[d]) + 1 # n
    BY <1>3
  <2>3. Cardinality(before[d]) \in 0 .. n - 1
    BY <1>2, RankGrows
  <2>4. Cardinality(before[d]) < Cardinality(before[ids[n]])
    BY <1>2, <2>1, <2>2, <2>3
  <2>5. d \in before[ids[n]]
    BY <1>2, <2>1, <2>4, RankGrows
  <2>6. QED
    BY <1>2, <2>1, <2>5
<1> HIDE DEF a, n
<1>7. n \in 1 .. n
  BY <1>2
<1>8. QED
  BY <1>1, <1>2, <1>3, <1>4, <1>5, <1>6, <1>7

\* What assignTransactions is told of the registers is well-formed.
LEMMA AnchorsTypes ==
  ASSUME NEW U, Books(U)
  PROVE  Anchors(AnchorsOf(U), CountedRegisters(U))
<1>1. ASSUME NEW c \in DOMAIN U, NEW r \in DOMAIN U[c].amounts
      PROVE  /\ AnchorOf(U[c], r).day \in Int /\ AnchorOf(U[c], r).before \in Int
             /\ AnchorOf(U[c], r).after \in Int
  BY BooksTypes DEF AnchorOf
<1>2. \A r \in CountedRegisters(U) : \A c \in CountsOf(U, r) :
        c \in DOMAIN U /\ r \in DOMAIN U[c].amounts
  BY DEF CountsOf, CountedIn
<1>3. \A r \in CountedRegisters(U) : AnchorsOf(U)[r] = loadRegisterAnchors(U, r)
  BY DEF AnchorsOf
<1>4. DOMAIN AnchorsOf(U) = CountedRegisters(U)
  BY DEF AnchorsOf
<1>5. ASSUME NEW r \in CountedRegisters(U), NEW k \in 1 .. Len(AnchorsOf(U)[r])
      PROVE  /\ AnchorsOf(U)[r][k].day \in Int /\ AnchorsOf(U)[r][k].before \in Int
             /\ AnchorsOf(U)[r][k].after \in Int
  <2>1. PICK c \in CountsOf(U, r) : AnchorsOf(U)[r][k] = AnchorOf(U[c], r)
    BY <1>3, AnchorsListed
  <2>2. QED
    BY <1>1, <1>2, <2>1
<1>6. \A r \in CountedRegisters(U) : Len(AnchorsOf(U)[r]) \in Nat \ {0}
  BY <1>3, AnchorsListed
<1>7. QED
  BY <1>4, <1>5, <1>6 DEF Anchors

-----------------------------------------------------------------------------
(* The assignment, payment by payment.                                     *)

\* Where a payment is put among a register's counts: after the last one only if it
\* was made on a later day.
LEMMA IntervalTypes ==
  ASSUME NEW anchors, NEW n \in Nat \ {0}, n = Len(anchors),
         \A k \in 1 .. n : anchors[k].day \in Int, NEW day \in Int, NEW b \in BOOLEAN
  PROVE  /\ getIntervalForDate(anchors, day, b) \in 0 .. n
         /\ b => (getIntervalForDate(anchors, day, b) = n <=> day > anchors[n].day)
<1> DEFINE i == getIntervalForDate(anchors, day, b)
           closing == {j \in 2 .. n : /\ day > anchors[j - 1].day
                                      /\ \/ day < anchors[j].day
                                         \/ day = anchors[j].day /\ b}
           after == day > anchors[n].day \/ (day = anchors[n].day /\ ~b)
<1>1. i = IF after THEN n ELSE IF closing = {} THEN 0 ELSE Min(closing) - 1
  BY DEF getIntervalForDate
<1>2. closing # {} => Min(closing) \in 2 .. n
  <2>1. closing \subseteq Nat /\ closing \subseteq 2 .. n
    OBVIOUS
  <2> HIDE DEF closing
  <2>2. closing # {} => \E x \in closing : \A y \in closing : x <= y
    BY <2>1, Least
  <2>3. closing # {} => Min(closing) \in closing
    BY <2>2 DEF Min
  <2>4. QED
    BY <2>1, <2>3
<1> HIDE DEF closing
<1>3. CASE after
  <2>1. i = n
    BY <1>1, <1>3
  <2>2. b => day > anchors[n].day
    BY <1>3
  <2>3. QED
    BY <2>1, <2>2
<1>4. CASE ~after
  <2>1. i \in 0 .. n /\ i # n
    BY <1>1, <1>2, <1>4
  <2>2. ~(day > anchors[n].day)
    BY <1>4
  <2>3. QED
    BY <2>1, <2>2
<1>5. QED
  BY <1>3, <1>4

\* The books of a register: what its counts left, and what was paid between them.
Register(anchors, sums) ==
  /\ Len(anchors) \in Nat \ {0}
  /\ \A k \in 1 .. Len(anchors) :
       anchors[k].day \in Int /\ anchors[k].before \in Int /\ anchors[k].after \in Int
  /\ sums \in [0 .. Len(anchors) -> Int]

\* A delta is a number.
LEMMA DeltaType ==
  ASSUME NEW anchors, NEW sums, Register(anchors, sums), NEW amount \in Int,
         NEW i \in 0 .. Len(anchors) - 1
  PROVE  discrepancyDelta(anchors, i, amount, sums[i]) \in Int
<1>1. sums[i] \in Int
  BY DEF Register
<1>2. measuredChange(anchors, i) \in Int
  <2>1. CASE i = 0
    BY <2>1 DEF measuredChange
  <2>2. CASE i # 0
    <3>1. i \in 1 .. Len(anchors) /\ i + 1 \in 1 .. Len(anchors)
      BY <2>2 DEF Register
    <3>2. anchors[i + 1].before \in Int /\ anchors[i].after \in Int
      BY <3>1 DEF Register
    <3>3. anchors[i + 1].before - anchors[i].after \in Int
      BY <3>2
    <3>4. \A x \in Int : Parts * x \in Int
      BY PartsType
    <3>5. QED
      BY <2>2, <3>3, <3>4 DEF measuredChange
  <2>3. QED
    BY <2>1, <2>2
<1>3. \A x \in Int : Abs(x) \in Int
  BY DEF Abs
<1>4. PICK m \in Int : m = measuredChange(anchors, i)
  BY <1>2
<1>5. PICK x \in Int : x = sums[i]
  BY <1>1
<1>6. m - (x + amount) \in Int /\ m - x \in Int
  OBVIOUS
<1>7. Abs(m - (x + amount)) \in Int /\ Abs(m - x) \in Int
  BY <1>3, <1>6
<1>8. QED
  BY <1>4, <1>5, <1>7 DEF discrepancyDelta

\* The interval that a payment is put into is one of the register's, and it is the
\* last one if it was made after the last count.  Only the day of the last count of
\* an only register is left open.
LEMMA IntervalOfTypes ==
  ASSUME NEW regs, NEW anchors, NEW sums, Register(anchors, sums),
         NEW p, p.day \in Int, p.amount \in Int
  PROVE  /\ IntervalOf(regs, anchors, sums, p) \in 0 .. Len(anchors)
         /\ Len(regs) # 1 \/ p.day # anchors[Len(anchors)].day =>
              (IntervalOf(regs, anchors, sums, p) = Len(anchors)
                 <=> p.day > anchors[Len(anchors)].day)
<1>1. PICK n \in Nat \ {0} : n = Len(anchors)
  BY DEF Register
<1>2. \A k \in 1 .. n : anchors[k].day \in Int
  BY <1>1 DEF Register
<1>3. /\ getIntervalForDate(anchors, p.day, TRUE) \in 0 .. n
      /\ getIntervalForDate(anchors, p.day, TRUE) = n <=> p.day > anchors[n].day
  BY <1>1, <1>2, IntervalTypes
<1>4. CASE Len(regs) = 1 /\ p.day = anchors[n].day
  <2>1. IntervalOf(regs, anchors, sums, p) \in {n - 1, n}
    BY <1>1, <1>4 DEF IntervalOf, OnlyInterval
  <2>2. QED
    BY <1>1, <1>4, <2>1
<1>5. CASE ~(Len(regs) = 1 /\ p.day = anchors[n].day)
  <2>1. IntervalOf(regs, anchors, sums, p) = getIntervalForDate(anchors, p.day, TRUE)
    BY <1>1, <1>5 DEF IntervalOf, OnlyInterval
  <2>2. QED
    BY <1>1, <1>3, <2>1
<1>6. QED
  BY <1>4, <1>5

\* What a register has to offer is a number.
LEMMA LeastDeltaType ==
  ASSUME NEW anchors, NEW sums, Register(anchors, sums),
         NEW p, p.day \in Int, p.amount \in Int
  PROVE  LeastDelta(anchors, sums, p) \in Int
<1> DEFINE n == Len(anchors)
           i == getIntervalForDate(anchors, p.day, TRUE)
           places == {TRUE} \cup IF p.day = anchors[Min({n, i + 1})].day THEN {FALSE} ELSE {}
           delta(j) == IF j \in {0, n} THEN 0 ELSE discrepancyDelta(anchors, j, p.amount, sums[j])
           place(b) == getIntervalForDate(anchors, p.day, b)
<1>1. LeastDelta(anchors, sums, p) = Min({delta(place(b)) : b \in places})
  BY DEF LeastDelta
<1>2. \A b \in BOOLEAN : place(b) \in 0 .. n
  <2>1. n \in Nat \ {0} /\ \A k \in 1 .. n : anchors[k].day \in Int
    BY DEF Register
  <2>2. QED
    BY <2>1, IntervalTypes
<1>3. places = {TRUE} \/ places = {TRUE, FALSE}
  OBVIOUS
<1> HIDE DEF place, places
<1>4. \A j \in 0 .. n : delta(j) \in Int
  <2> SUFFICES ASSUME NEW j \in 0 .. n PROVE delta(j) \in Int
    OBVIOUS
  <2>1. CASE j \in {0, n}
    BY <2>1
  <2>2. CASE j \notin {0, n}
    <3>1. n \in Nat
      BY DEF Register
    <3>2. j \in 0 .. n - 1
      BY <2>2, <3>1
    <3>3. QED
      BY <2>2, <3>2, DeltaType
  <2>3. QED
    BY <2>1, <2>2
<1>5. delta(place(TRUE)) \in Int /\ delta(place(FALSE)) \in Int
  BY <1>2, <1>4
<1> HIDE DEF delta, n
<1>6. PICK x \in Int : x = delta(place(TRUE))
  BY <1>5
<1>7. PICK y \in Int : y = delta(place(FALSE))
  BY <1>5
<1>8. {delta(place(b)) : b \in places} \in {{x}, {x, y}}
  BY <1>3, <1>6, <1>7
<1>9. Min({x}) \in Int /\ Min({x, y}) \in Int
  <2>1. \E m \in {x} : \A l \in {x} : m <= l
    OBVIOUS
  <2>2. \E m \in {x, y} : \A l \in {x, y} : m <= l
    OBVIOUS
  <2>3. Min({x}) \in {x} /\ Min({x, y}) \in {x, y}
    BY <2>1, <2>2 DEF Min
  <2>4. QED
    BY <2>3
<1>10. QED
  BY <1>1, <1>8, <1>9

\* Some of finitely many numbers is the least.
LEMMA LeastOf ==
  ASSUME NEW n \in Nat, NEW f, \A k \in 1 .. n : f[k] \in Int
  PROVE  n # 0 => \E k \in 1 .. n : \A l \in 1 .. n : f[k] <= f[l]
<1> DEFINE K == {m \in Nat : m <= n /\ m # 0 => \E k \in 1 .. m : \A l \in 1 .. m : f[k] <= f[l]}
<1>1. 0 \in K
  OBVIOUS
<1>2. ASSUME NEW m \in Nat, m \in K PROVE m + 1 \in K
  <2> SUFFICES ASSUME m + 1 <= n
               PROVE  \E k \in 1 .. m + 1 : \A l \in 1 .. m + 1 : f[k] <= f[l]
    OBVIOUS
  <2>1. CASE m = 0
    <3>1. f[1] \in Int /\ 1 .. m + 1 = {1}
      BY <2>1
    <3>2. QED
      BY <3>1
  <2>2. CASE m # 0
    <3>1. PICK k \in 1 .. m : \A l \in 1 .. m : f[k] <= f[l]
      BY <1>2, <2>2
    <3>2. f[k] \in Int /\ f[m + 1] \in Int /\ k \in 1 .. m + 1 /\ m + 1 \in 1 .. m + 1
      OBVIOUS
    <3>3. \A l \in 1 .. m + 1 : f[l] \in Int /\ (l \in 1 .. m \/ l = m + 1)
      OBVIOUS
    <3>4. CASE f[k] <= f[m + 1]
      <4>1. \A l \in 1 .. m + 1 : f[k] <= f[l]
        BY <3>1, <3>3, <3>4
      <4>2. QED
        BY <3>2, <4>1
    <3>5. CASE f[m + 1] <= f[k]
      <4>1. \A l \in 1 .. m + 1 : f[m + 1] <= f[l]
        BY <3>1, <3>2, <3>3, <3>5
      <4>2. QED
        BY <3>2, <4>1
    <3>6. QED
      BY <3>2, <3>4, <3>5
  <2>3. QED
    BY <2>1, <2>2
<1> HIDE DEF K
<1>3. n \in K
  BY <1>1, <1>2, Induct DEF K
<1>4. QED
  BY <1>3 DEF K

\* A register that was counted pays.
LEMMA RegisterPays ==
  ASSUME NEW R, NEW regs, NEW n \in Nat \ {0}, n = Len(regs), DOMAIN regs = 1 .. n,
         \A k \in 1 .. n : regs[k] \in R,
         NEW a, NEW sums, \A r \in R : Register(a[r], sums[r]),
         NEW p, p.day \in Int, p.amount \in Int
  PROVE  PayingRegister(regs, a, sums, p) \in R
<1>1. CASE n = 1
  <2>1. PayingRegister(regs, a, sums, p) = regs[1] /\ 1 \in 1 .. n
    BY <1>1 DEF PayingRegister
  <2>2. QED
    BY <2>1
<1>2. CASE n # 1
  <2> DEFINE delta == [k \in DOMAIN regs |-> LeastDelta(a[regs[k]], sums[regs[k]], p)]
             K == {k \in 1 .. n : \A l \in 1 .. n : delta[k] <= delta[l]}
  <2>1. PayingRegister(regs, a, sums, p) = Cheapest(regs, delta)
    BY <1>2 DEF PayingRegister
  <2>2. \A k \in 1 .. n : delta[k] \in Int
    BY LeastDeltaType
  <2> HIDE DEF delta
  <2>3. Cheapest(regs, delta) = regs[Min(K)]
    BY DEF Cheapest
  <2>4. K # {}
    BY <2>2, LeastOf
  <2>5. K \subseteq 1 .. n /\ K \subseteq Nat
    OBVIOUS
  <2> HIDE DEF K
  <2>6. \E k \in K : \A l \in K : k <= l
    BY <2>4, <2>5, Least
  <2>7. Min(K) \in K
    BY <2>6 DEF Min
  <2>8. QED
    BY <2>1, <2>3, <2>5, <2>7
<1>3. QED
  BY <1>1, <1>2

\* A payment on the last day of the only register.
PaidOnLastDay(R, a, P) == \E r \in R, p \in P : R = {r} /\ p.day = a[r][Len(a[r])].day

\* What a register was paid after its last count.
Pending(a, to, Q, r) == {p \in Q : to[p] = r /\ p.day > a[r][Len(a[r])].day}

\* What the assignment tells once the payments Q are assigned: each has one of the
\* counted registers, and the sum after a register's last count is what it was paid
\* since.
AssignInv(R, a, P, Q, b) ==
  /\ DOMAIN b.to = P /\ DOMAIN b.sums = R
  /\ \A r \in R : Register(a[r], b.sums[r])
  /\ \A p \in P : b.to[p] \in R \cup {NoRegister}
  /\ R # {} => \A p \in Q : b.to[p] \in R
  /\ ~PaidOnLastDay(R, a, P) =>
       \A r \in R : b.sums[r][Len(a[r])] = Amount(Pending(a, b.to, Q, r))

\* One more payment keeps that.
LEMMA AssignKeepsStory ==
  ASSUME NEW R, NEW regs, NEW n \in Nat, n = Len(regs), DOMAIN regs = 1 .. n,
         R = {regs[k] : k \in 1 .. n}, n = 1 => R = {regs[1]}, n # 1 => \A r \in R : R # {r},
         NEW a, NEW P, Paid(P), NEW Q \in SUBSET P, NEW p \in P \ Q,
         NEW b, AssignInv(R, a, P, Q, b)
  PROVE  AssignInv(R, a, P, Q \cup {p}, Assigned(regs, a, b, p))
<1>1. CASE n = 0
  <2>1. regs = <<>> /\ R = {}
    BY <1>1
  <2>2. Assigned(regs, a, b, p) = b
    BY <2>1 DEF Assigned
  <2>3. QED
    BY <2>1, <2>2 DEF AssignInv
<1>2. CASE n # 0
  <2>1. regs # <<>> /\ R # {} /\ \A k \in 1 .. n : regs[k] \in R
    BY <1>2
  <2>2. p.day \in Int /\ p.amount \in Int
    BY PaidTypes
  <2>3. PICK r : r = PayingRegister(regs, a, b.sums, p)
    OBVIOUS
  <2>4. r \in R
    BY <1>2, <2>1, <2>2, <2>3, RegisterPays DEF AssignInv
  <2>5. PICK i : i = IntervalOf(regs, a[r], b.sums[r], p)
    OBVIOUS
  <2>6. PICK last : last = Len(a[r])
    OBVIOUS
  <2>7. Register(a[r], b.sums[r])
    BY <2>4 DEF AssignInv
  <2>8. /\ last \in Nat \ {0} /\ i \in 0 .. last
        /\ ~PaidOnLastDay(R, a, P) => (i = last <=> p.day > a[r][last].day)
    <3>1. last \in Nat \ {0}
      BY <2>6, <2>7 DEF Register
    <3>2. i \in 0 .. last
      BY <2>2, <2>5, <2>6, <2>7, IntervalOfTypes
    <3>3. Len(regs) # 1 \/ p.day # a[r][last].day => (i = last <=> p.day > a[r][last].day)
      BY <2>2, <2>5, <2>6, <2>7, IntervalOfTypes
    <3>4. Len(regs) = 1 /\ p.day = a[r][last].day => PaidOnLastDay(R, a, P)
      BY <2>4, <2>6 DEF PaidOnLastDay
    <3>5. QED
      BY <3>1, <3>2, <3>3, <3>4
  <2>9. PICK b2 : b2 = Assigned(regs, a, b, p)
    OBVIOUS
  <2>10. /\ b2.sums = [b.sums EXCEPT ![r] = [b.sums[r] EXCEPT ![i] = b.sums[r][i] + p.amount]]
         /\ b2.to = [b.to EXCEPT ![p] = r]
    BY <2>1, <2>3, <2>5, <2>9 DEF Assigned, AssignTo
  <2>11. DOMAIN b2.to = P /\ DOMAIN b2.sums = R
    BY <2>10 DEF AssignInv
  <2>12. /\ b2.to[p] = r /\ \A q \in P : q # p => b2.to[q] = b.to[q]
         /\ \A q \in P : b2.to[q] \in R \cup {NoRegister}
         /\ \A q \in Q \cup {p} : b2.to[q] \in R
    BY <2>1, <2>4, <2>10 DEF AssignInv
  <2>13. \A s \in R : s # r => b2.sums[s] = b.sums[s]
    BY <2>10 DEF AssignInv
  <2>14. b2.sums[r] = [b.sums[r] EXCEPT ![i] = b.sums[r][i] + p.amount]
    BY <2>4, <2>10 DEF AssignInv
  <2>15. b.sums[r] \in [0 .. last -> Int]
    BY <2>6, <2>7 DEF Register
  <2>16. /\ b2.sums[r] \in [0 .. last -> Int] /\ b.sums[r][last] \in Int
         /\ i = last => b2.sums[r][last] = b.sums[r][last] + p.amount
         /\ i # last => b2.sums[r][last] = b.sums[r][last]
    <3>1. b.sums[r][i] + p.amount \in Int /\ last \in 0 .. last
      BY <2>2, <2>8, <2>15
    <3>2. QED
      BY <2>8, <2>14, <2>15, <3>1
  <2>17. \A s \in R : Register(a[s], b2.sums[s])
    <3>1. Register(a[r], b2.sums[r])
      BY <2>6, <2>7, <2>16 DEF Register
    <3>2. \A s \in R : s # r => Register(a[s], b2.sums[s])
      BY <2>13 DEF AssignInv
    <3>3. QED
      BY <3>1, <3>2
  <2>18. ASSUME ~PaidOnLastDay(R, a, P), NEW s \in R
         PROVE  b2.sums[s][Len(a[s])] = Amount(Pending(a, b2.to, Q \cup {p}, s))
    <3>1. PICK S : S = Pending(a, b.to, Q, s)
      OBVIOUS
    <3>2. b.sums[s][Len(a[s])] = Amount(S)
      BY <2>18, <3>1 DEF AssignInv
    <3>3. S \in SUBSET P /\ p \notin S
      BY <3>1 DEF Pending
    <3>4. Amounts(S)
      BY <3>3, PaidTypes
    <3>5. CASE s = r /\ i = last
      <4>1. Pending(a, b2.to, Q \cup {p}, s) = S \cup {p}
        BY <2>6, <2>8, <2>12, <2>18, <3>1, <3>5 DEF Pending
      <4>2. Amount(S \cup {p}) = Amount(S) + p.amount
        BY <2>2, <3>3, <3>4, AmountAdds
      <4>3. QED
        BY <2>6, <2>16, <3>2, <3>5, <4>1, <4>2
    <3>6. CASE ~(s = r /\ i = last)
      <4>1. Pending(a, b2.to, Q \cup {p}, s) = S
        BY <2>6, <2>8, <2>12, <2>18, <3>1, <3>6 DEF Pending
      <4>2. b2.sums[s][Len(a[s])] = b.sums[s][Len(a[s])]
        BY <2>6, <2>13, <2>16, <3>6
      <4>3. QED
        BY <3>2, <4>1, <4>2
    <3>7. QED
      BY <3>5, <3>6
  <2>19. AssignInv(R, a, P, Q \cup {p}, b2)
    BY <2>11, <2>12, <2>17, <2>18 DEF AssignInv
  <2>20. QED
    BY <2>9, <2>19
<1>3. QED
  BY <1>1, <1>2

\* What the assignment tells before the first payment.
LEMMA UnassignedTells ==
  ASSUME NEW R, NEW regs, ToSet(regs) = R, NEW a, Anchors(a, R), NEW P, Paid(P)
  PROVE  AssignInv(R, a, P, {}, Unassigned(regs, a, P))
<1>1. PICK b : b = Unassigned(regs, a, P)
  OBVIOUS
<1>2. /\ b.sums = [r \in R |-> [i \in 0 .. Len(a[r]) |-> 0]]
      /\ b.to = [p \in P |-> NoRegister]
  BY <1>1 DEF Unassigned
<1>3. ASSUME NEW r \in R
      PROVE  Register(a[r], b.sums[r]) /\ b.sums[r][Len(a[r])] = 0
  <2>1. Len(a[r]) \in Nat \ {0}
    BY DEF Anchors
  <2>2. b.sums[r] = [i \in 0 .. Len(a[r]) |-> 0]
    BY <1>2
  <2>3. b.sums[r] \in [0 .. Len(a[r]) -> Int] /\ b.sums[r][Len(a[r])] = 0
    BY <2>1, <2>2
  <2>4. QED
    BY <2>3 DEF Anchors, Register
<1>4. \A r \in R : Amount(Pending(a, b.to, {}, r)) = 0
  <2>1. \A r \in R : Pending(a, b.to, {}, r) = {}
    BY DEF Pending
  <2>2. Amount({}) = 0
    BY PaidTypes, AmountType
  <2>3. QED
    BY <2>1, <2>2
<1>5. /\ DOMAIN b.to = P /\ DOMAIN b.sums = R
      /\ \A p \in P : b.to[p] \in R \cup {NoRegister}
  BY <1>2
<1>6. AssignInv(R, a, P, {}, b)
  BY <1>3, <1>4, <1>5 DEF AssignInv
<1>7. QED
  BY <1>1, <1>6

\* The story of the whole assignment.
LEMMA AssignTellsStory ==
  ASSUME NEW U, Books(U), NEW P, Paid(P), NEW R, R = CountedRegisters(U)
  PROVE  AssignInv(R, AnchorsOf(U), P, P, assignTransactions(U, P))
<1> DEFINE before == [p \in P |-> {q \in P : PaidBefore(q, p)}]
           regs == registerNumbers(U)
           a == AnchorsOf(U)
           seq == InOrder(before)
           n == Cardinality(P)
<1>1. Ordered(before) /\ DOMAIN before = P
  <2>1. \A p \in P : p.id \in Int /\ p.day \in Int
    BY PaidTypes
  <2>2. \A p \in P : ~PaidBefore(p, p)
    BY <2>1 DEF PaidBefore
  <2>3. \A p, q, s \in P : PaidBefore(p, q) /\ PaidBefore(q, s) => PaidBefore(p, s)
    BY <2>1 DEF PaidBefore
  <2>4. \A p, q \in P : p = q \/ PaidBefore(p, q) \/ PaidBefore(q, p)
    <3> SUFFICES ASSUME NEW p \in P, NEW q \in P, ~PaidBefore(p, q), ~PaidBefore(q, p)
                 PROVE  p = q
      OBVIOUS
    <3>1. p.day = q.day /\ p.id = q.id
      BY <2>1 DEF PaidBefore
    <3>2. QED
      BY <3>1, PaidTypes
  <2>5. IsFiniteSet(P)
    BY DEF Paid
  <2>6. QED
    BY <2>2, <2>3, <2>4, <2>5 DEF Ordered
<1>2. assignTransactions(U, P) = AssignFold(regs, a, P, seq)
  BY Zenon DEF assignTransactions, AssignAll, AssignFold, Assigned, Unassigned, AnchorsOf,
               PaymentsInOrder
<1> HIDE DEF before
<1>3. n \in Nat /\ DOMAIN seq = 1 .. n /\ \A k \in 1 .. n : seq[k] \in P
  BY <1>1, InOrderLists
<1>4. P = {seq[j] : j \in 1 .. n} /\ \A k \in 1 .. n : before[seq[k]] = {seq[j] : j \in 1 .. k - 1}
  BY <1>1, InOrderPrefix
<1>5. \A k \in 1 .. n : seq[k] \notin {seq[j] : j \in 1 .. k - 1}
  BY <1>1, <1>3, <1>4 DEF Ordered
<1> HIDE DEF seq, n
<1>6. PICK w : /\ w[0] = Unassigned(regs, a, P)
               /\ \A k \in 1 .. n : w[k] = Assigned(regs, a, w[k - 1], seq[k])
               /\ w[n] = AssignFold(regs, a, P, seq)
  BY <1>3, AssignWalk
<1> DEFINE m == Cardinality(R)
<1>7. /\ DOMAIN regs = 1 .. m /\ Len(regs) = m /\ m \in Nat /\ ToSet(regs) = R
      /\ R = {regs[k] : k \in 1 .. m}
      /\ m = 1 => R = {regs[1]}
      /\ m # 1 => \A r \in R : R # {r}
  <2>1. DOMAIN regs = 1 .. m /\ Len(regs) = m /\ m \in Nat /\ ToSet(regs) = R
    BY RegistersListed
  <2>2. R = {regs[k] : k \in 1 .. m}
    BY <2>1 DEF ToSet
  <2>3. m = 1 => R = {regs[1]}
    BY <2>2
  <2>4. m # 1 => \A r \in R : R # {r}
    BY FS_Singleton
  <2>5. QED
    BY <2>1, <2>2, <2>3, <2>4
<1>8. Anchors(a, R)
  BY AnchorsTypes
<1> HIDE DEF regs, a, m
<1> DEFINE E(k) == {seq[j] : j \in 1 .. k}
           K == {k \in Nat : k <= n => AssignInv(R, a, P, E(k), w[k])}
<1>9. 0 \in K
  <2>1. E(0) = {}
    OBVIOUS
  <2> HIDE DEF E
  <2>2. AssignInv(R, a, P, {}, w[0])
    <3>1. ToSet(regs) = R
      BY <1>7
    <3>2. AssignInv(R, a, P, {}, Unassigned(regs, a, P))
      BY <1>8, <3>1, UnassignedTells
    <3>3. QED
      BY <1>6, <3>2
  <2>3. QED
    BY <2>1, <2>2
<1>10. ASSUME NEW k \in Nat, k \in K PROVE k + 1 \in K
  <2> SUFFICES ASSUME k + 1 <= n PROVE AssignInv(R, a, P, E(k + 1), w[k + 1])
    OBVIOUS
  <2>1. PICK l \in 1 .. n : l = k + 1 /\ l - 1 = k
    BY <1>3
  <2>2. PICK p \in P : p = seq[l]
    BY <1>3
  <2>3. PICK Q \in SUBSET P : Q = E(k)
    <3>1. \A j \in 1 .. k : j \in 1 .. n
      BY <1>3, <2>1
    <3>2. E(k) \in SUBSET P
      BY <1>3, <3>1
    <3> HIDE DEF E
    <3>3. QED
      BY <3>2
  <2>4. p \notin Q
    BY <1>5, <2>1, <2>2, <2>3
  <2>5. E(l) = Q \cup {p}
    BY <1>3, <2>1, <2>2, <2>3
  <2>6. AssignInv(R, a, P, Q, w[k])
    BY <1>3, <1>10, <2>3
  <2>7. w[l] = Assigned(regs, a, w[k], p)
    BY <1>6, <2>1, <2>2
  <2> HIDE DEF E
  <2>8. AssignInv(R, a, P, Q \cup {p}, Assigned(regs, a, w[k], p))
    BY <1>7, <2>4, <2>6, AssignKeepsStory
  <2>9. QED
    BY <2>1, <2>5, <2>7, <2>8
<1>11. n \in K
  <2> HIDE DEF K
  <2>1. Nat \subseteq K
    BY <1>9, <1>10, Induct DEF K
  <2>2. QED
    BY <1>3, <2>1
<1>12. AssignInv(R, a, P, P, w[n])
  <2>1. E(n) = P
    BY <1>4
  <2> HIDE DEF E
  <2>2. QED
    BY <1>3, <1>11, <2>1
<1>13. QED
  BY <1>2, <1>6, <1>12 DEF a

-----------------------------------------------------------------------------
(* The ledger of a day, whenever it is asked for.                          *)

\* The payments are known one by one.
PaymentsApart == IsFiniteSet(payments) /\ \A p, q \in payments : p.id = q.id => p = q

LedgerReady == counts \in Seq(CountForms) /\ payments \subseteq PaymentForms /\ PaymentsApart

\* What a day's ledger is computed from.
LEMMA UntilTypes ==
  ASSUME LedgerReady, NEW day, NEW U, U = CountsUntil(counts, day),
         NEW P, P = PaymentsUntil(payments, day)
  PROVE  /\ Books(U) /\ Paid(P)
         /\ DOMAIN U = {c \in DOMAIN counts : DayOf(counts[c].at) <= day}
         /\ \A c \in DOMAIN U : U[c] = counts[c]
         /\ P = {p \in payments : p.day <= day}
<1>1. /\ DOMAIN U = {c \in DOMAIN counts : DayOf(counts[c].at) <= day}
      /\ \A c \in DOMAIN U : U[c] = counts[c]
  BY DEF CountsUntil, Restrict
<1>2. DOMAIN counts = 1 .. Len(counts) /\ Len(counts) \in Nat
      /\ \A c \in DOMAIN counts : counts[c] \in CountForms
  BY DEF LedgerReady
<1>3. DOMAIN U \in SUBSET (1 .. Len(counts)) /\ IsFiniteSet(1 .. Len(counts))
  BY <1>1, <1>2, FS_Interval
<1>4. IsFiniteSet(DOMAIN U)
  BY <1>3, FS_Subset
<1>5. Books(U)
  BY <1>1, <1>2, <1>3, <1>4 DEF Books
<1>6. P = {p \in payments : p.day <= day}
  BY DEF PaymentsUntil
<1>7. Paid(P)
  BY <1>6, FS_Subset DEF LedgerReady, PaymentsApart, Paid
<1>8. QED
  BY <1>1, <1>5, <1>6, <1>7

\* What is known of a day's ledger and of the assignment it is computed with.
Ledger(U, P, R, to, sums, b) ==
  /\ Books(U) /\ Paid(P) /\ R = CountedRegisters(U)
  /\ AssignInv(R, AnchorsOf(U), P, P, [to |-> to, sums |-> sums])
  /\ LedgerInv(U, to, b, DOMAIN U, P)
  /\ b = BookAll(U, P, to)

\* It is known of every ledger.
LEMMA LedgerKnown ==
  ASSUME LedgerReady, NEW day, NEW U, U = CountsUntil(counts, day),
         NEW P, P = PaymentsUntil(payments, day),
         NEW a, a = assignTransactions(U, P), NEW b, b = buildCashLedger(counts, payments, day)
  PROVE  Ledger(U, P, CountedRegisters(U), a.to, a.sums, b) /\ DOMAIN a.to = P
<1>1. Books(U) /\ Paid(P)
  BY UntilTypes
<1>2. AssignInv(CountedRegisters(U), AnchorsOf(U), P, P, a)
  BY <1>1, AssignTellsStory
<1>3. PICK x : x = [to |-> a.to, sums |-> a.sums]
  OBVIOUS
<1>4. x.to = a.to /\ x.sums = a.sums
  BY <1>3
<1>5. AssignInv(CountedRegisters(U), AnchorsOf(U), P, P, x)
  BY <1>2, <1>4 DEF AssignInv
<1>6. DOMAIN a.to = P
  BY <1>2 DEF AssignInv
<1>7. b = BookAll(U, P, a.to)
  BY DEF buildCashLedger, LedgerOf
<1>8. LedgerInv(U, a.to, b, DOMAIN U, P)
  BY <1>1, <1>6, <1>7, LedgerTellsStory
<1>9. QED
  BY <1>1, <1>3, <1>5, <1>6, <1>7, <1>8 DEF Ledger

\* All differences, if count c finds m[c][r] missing in register r.
AllFound(U, m) == UNION {Found(U, c, m[c]) : c \in DOMAIN U}

\* Of the differences of a ledger those of a count are what the count found.
LEMMA FoundByCount ==
  ASSUME NEW U, NEW m, NEW c \in DOMAIN U
  PROVE  \A d : d \in AllFound(U, m) /\ d.count = c <=> d \in Found(U, c, m[c])
<1>1. ASSUME NEW e \in DOMAIN U, NEW d \in Found(U, e, m[e]) PROVE d.count = e
  BY DEF Found, Items
<1>2. ASSUME NEW d \in AllFound(U, m), d.count = c PROVE d \in Found(U, c, m[c])
  <2>1. PICK e \in DOMAIN U : d \in Found(U, e, m[e])
    BY DEF AllFound
  <2>2. QED
    BY <1>1, <1>2, <2>1
<1>3. ASSUME NEW d \in Found(U, c, m[c]) PROVE d \in AllFound(U, m) /\ d.count = c
  <2>1. d \in AllFound(U, m)
    BY DEF AllFound
  <2>2. QED
    BY <1>1, <2>1
<1>4. QED
  BY <1>2, <1>3

\* The set of books is always ready to compute a ledger from.
LEMMA AlwaysReady == Spec => []LedgerReady
<1>1. Init => PaymentsApart
  BY FS_EmptySet DEF Init, PaymentsApart
<1>2. PaymentsApart /\ [Next]_vars => PaymentsApart'
  <2> SUFFICES ASSUME PaymentsApart, [Next]_vars PROVE PaymentsApart'
    OBVIOUS
  <2>1. ASSUME NEW p \in PaymentForms, CashPayment(p) PROVE PaymentsApart'
    <3>1. PICK others : others = {q \in payments : q.id # p.id}
      OBVIOUS
    <3>2. payments' = payments \ {p} \/ payments' = others \cup {p}
      BY <2>1, <3>1 DEF CashPayment
    <3>3. IsFiniteSet(payments \ {p}) /\ IsFiniteSet(others \cup {p})
      BY <3>1, FS_Subset, FS_RemoveElement, FS_AddElement DEF PaymentsApart
    <3>4. \A q, r \in payments' : q.id = r.id => q = r
      BY <3>1, <3>2 DEF PaymentsApart
    <3>5. QED
      BY <3>2, <3>3, <3>4 DEF PaymentsApart
  <2>2. CASE UNCHANGED payments
    BY <2>2 DEF PaymentsApart
  <2>3. QED
    BY <2>1, <2>2 DEF Next, vars, CreateCount, ReadCountPut, WriteCountPut, AskConfirm,
                      ReadDifference, upsertCashDiscrepancyBooking, AskWithdraw,
                      deleteCashDiscrepancyBooking, Fail
<1>3. TypeOK /\ PaymentsApart => LedgerReady
  BY DEF TypeOK, LedgerReady
<1>4. QED
  BY <1>1, <1>2, <1>3, CashTypeCorrect, PTL DEF Spec

\* Every count's differences in the ledger of any day are explained by the count before
\* it and the payments since.
THEOREM LedgerDifferencesExplained == Spec => []DifferencesExplained
<1>1. ASSUME LedgerReady PROVE DifferencesExplained
  <2> DEFINE found(D, c, r) == {d.amount : d \in {d \in D : d.count = c /\ d.register = r}}
             paid(U, to, c, r) == PaidBetweenCounts(U, to, c, r)
  <2> SUFFICES ASSUME NEW day \in Days, NEW U, U = CountsUntil(counts, day),
                      NEW to, to = assignTransactions(U, PaymentsUntil(payments, day)).to,
                      NEW D, D = buildCashLedger(counts, payments, day).differences,
                      NEW c \in DOMAIN U, NEW r \in DOMAIN U[c].amounts
               PROVE  IF EarlierCounts(U, c, r) = {} THEN found(D, c, r) = {}
                      ELSE \E missing \in found(D, c, r) \cup {0} :
                             /\ found(D, c, r) = {missing} \ {0}
                             /\ 2 * Abs(Parts * (Change(U, c, r) - missing)
                                        - Amount(paid(U, to, c, r)))
                                  <= Parts * Cardinality(Broken(paid(U, to, c, r)))
    BY Zenon DEF DifferencesExplained
  <2>1. PICK P : P = PaymentsUntil(payments, day)
    OBVIOUS
  <2>2. PICK a : a = assignTransactions(U, P)
    OBVIOUS
  <2>3. PICK b : b = buildCashLedger(counts, payments, day)
    OBVIOUS
  <2>4. a.to = to /\ b.differences = D
    BY <2>1, <2>2, <2>3
  <2>5. Ledger(U, P, CountedRegisters(U), to, a.sums, b)
    BY <1>1, <2>1, <2>2, <2>3, <2>4, LedgerKnown
  <2>6. PICK n : /\ D = UNION {Found(U, e, n[e]) : e \in DOMAIN U}
                 /\ \A e \in DOMAIN U : Explained(U, to, e, n[e])
    BY <2>4, <2>5 DEF Ledger, LedgerInv
  <2>7. PICK m : m = n[c]
    OBVIOUS
  <2>8. PICK F : F = {d \in D : d.count = c /\ d.register = r}
    OBVIOUS
  <2>9. F = {d \in Found(U, c, m) : d.register = r}
    <3>1. D = AllFound(U, n)
      BY <2>6 DEF AllFound
    <3>2. \A d : d \in AllFound(U, n) /\ d.count = c <=> d \in Found(U, c, m)
      BY <2>7, FoundByCount
    <3>3. QED
      BY <2>8, <3>1, <3>2
  <2>10. Found(U, c, m) = {[count |-> c, register |-> s, amount |-> m[s]] :
                             s \in {s \in Again(U, c) : m[s] # 0}}
    BY DEF Found, Items
  <2>11. found(D, c, r) = IF r \in Again(U, c) /\ m[r] # 0 THEN {m[r]} ELSE {}
    <3>1. CASE r \in Again(U, c) /\ m[r] # 0
      <4>1. F = {[count |-> c, register |-> r, amount |-> m[r]]}
        BY <2>9, <2>10, <3>1
      <4>2. {d.amount : d \in F} = {m[r]}
        BY <4>1
      <4>3. QED
        BY <2>8, <3>1, <4>2
    <3>2. CASE ~(r \in Again(U, c) /\ m[r] # 0)
      <4>1. F = {}
        BY <2>9, <2>10, <3>2
      <4>2. QED
        BY <2>8, <3>2, <4>1
    <3>3. QED
      BY <3>1, <3>2
  <2>12. r \in Again(U, c) <=> EarlierCounts(U, c, r) # {}
    BY DEF Again
  <2>13. r \in Again(U, c) =>
           2 * Abs(Parts * (Change(U, c, r) - m[r]) - Amount(paid(U, to, c, r)))
             <= Parts * Cardinality(Broken(paid(U, to, c, r)))
    BY <2>6, <2>7 DEF Explained, Rounded
  <2> HIDE DEF found, paid
  <2>14. r \in Again(U, c) => found(D, c, r) = {m[r]} \ {0} /\ m[r] \in found(D, c, r) \cup {0}
    BY <2>11
  <2>15. QED
    BY <2>11, <2>12, <2>13, <2>14
<1>2. QED
  BY <1>1, AlwaysReady, PTL

-----------------------------------------------------------------------------
(* The cash balance, computed in two ways.                                 *)

\* The ledger keeps books for the counted registers, and for no others.
LEMMA LedgerRegisters ==
  ASSUME NEW U, Books(U), NEW P, Paid(P), NEW to, DOMAIN to = P,
         NEW R, R = CountedRegisters(U), \A p \in P : to[p] \in R \cup {NoRegister}
  PROVE  DOMAIN BookAll(U, P, to).expected = R
<1> PICK n \in Nat : \E w, done, paid : LedgerRun(U, P, to, n, w, done, paid)
  BY LedgerSteps
<1> PICK w, done, paid : LedgerRun(U, P, to, n, w, done, paid)
  OBVIOUS
<1>1. /\ w[0] = NothingBooked /\ w[n] = BookAll(U, P, to)
      /\ \A k \in 1 .. n :
           \/ CountStep(U, P, to, w[k - 1], done[k - 1], paid[k - 1], w[k], done[k], paid[k])
           \/ PaymentStep(U, P, to, w[k - 1], done[k - 1], paid[k - 1], w[k], done[k], paid[k])
  BY DEF LedgerRun
<1> DEFINE K == {k \in Nat : k <= n => DOMAIN w[k].expected \subseteq R}
<1>2. 0 \in K
  BY <1>1 DEF NothingBooked
<1>3. ASSUME NEW k \in Nat, k \in K PROVE k + 1 \in K
  <2> SUFFICES ASSUME k + 1 <= n PROVE DOMAIN w[k + 1].expected \subseteq R
    OBVIOUS
  <2>1. PICK l \in 1 .. n : l = k + 1 /\ l - 1 = k
    OBVIOUS
  <2>2. DOMAIN w[k].expected \subseteq R
    BY <1>3
  <2>3. ASSUME NEW c \in DOMAIN U, NEW counted, w[l] = BookCount(w[k], counted, c, U[c].amounts)
        PROVE  DOMAIN w[l].expected \subseteq R
    <3>1. DOMAIN w[l].expected = DOMAIN w[k].expected \cup DOMAIN U[c].amounts
      BY <2>3 DEF BookCount
    <3>2. DOMAIN U[c].amounts \subseteq R
      BY DEF CountedRegisters
    <3>3. QED
      BY <2>2, <3>1, <3>2
  <2>4. ASSUME NEW p \in P, w[l] = BookPayment(w[k], to[p], p)
        PROVE  DOMAIN w[l].expected \subseteq R
    <3>1. CASE to[p] = NoRegister
      BY <2>2, <2>4, <3>1 DEF BookPayment
    <3>2. CASE to[p] # NoRegister
      <4>1. DOMAIN w[l].expected = DOMAIN w[k].expected \cup {to[p]}
        BY <2>4, <3>2 DEF BookPayment
      <4>2. QED
        BY <2>2, <3>2, <4>1
    <3>3. QED
      BY <3>1, <3>2
  <2>5. CASE CountStep(U, P, to, w[k], done[k], paid[k], w[l], done[l], paid[l])
    BY <2>1, <2>3, <2>5 DEF CountStep
  <2>6. CASE PaymentStep(U, P, to, w[k], done[k], paid[k], w[l], done[l], paid[l])
    BY <2>1, <2>4, <2>6 DEF PaymentStep
  <2>7. QED
    BY <1>1, <2>1, <2>5, <2>6
<1> HIDE DEF K
<1>4. n \in K
  <2>1. Nat \subseteq K
    BY <1>2, <1>3, Induct DEF K
  <2>2. QED
    BY <2>1
<1>5. DOMAIN BookAll(U, P, to).expected \subseteq R
  BY <1>1, <1>4 DEF K
<1>6. \A c \in DOMAIN U : DOMAIN U[c].amounts \subseteq DOMAIN BookAll(U, P, to).expected
  BY LedgerTellsStory DEF LedgerInv
<1>7. R \subseteq DOMAIN BookAll(U, P, to).expected
  BY <1>6 DEF CountedRegisters
<1>8. QED
  BY <1>5, <1>7

\* A register's last count is the last one of the ledger, too, unless two counts of a
\* day were entered in the other order.
LEMMA LastCountAgrees ==
  ASSUME LedgerReady, ~EnteredOutOfOrder, NEW day, NEW U, U = CountsUntil(counts, day),
         NEW r \in CountedRegisters(U)
  PROVE  \E c \in DOMAIN U :
           /\ LastCounted(U, DOMAIN U, c, r)
           /\ Last(loadRegisterAnchors(U, r)) = AnchorOf(U[c], r)
<1>1. /\ Books(U) /\ DOMAIN U \subseteq DOMAIN counts
      /\ \A c \in DOMAIN U : U[c] = counts[c]
  <2>1. PICK P : P = PaymentsUntil(payments, day)
    OBVIOUS
  <2>2. /\ Books(U) /\ DOMAIN U = {c \in DOMAIN counts : DayOf(counts[c].at) <= day}
        /\ \A c \in DOMAIN U : U[c] = counts[c]
    BY <2>1, UntilTypes
  <2>3. QED
    BY <2>2
<1>2. PICK c \in CountsOf(U, r) :
        /\ loadRegisterAnchors(U, r)[Len(loadRegisterAnchors(U, r))] = AnchorOf(U[c], r)
        /\ \A d \in CountsOf(U, r) : d = c \/ CountedBefore(U, d, c)
  BY <1>1, AnchorsListed
<1>3. \A d \in CountsOf(U, r) : d \in DOMAIN U /\ r \in DOMAIN U[d].amounts
  BY DEF CountsOf, CountedIn
<1>4. ASSUME NEW d \in DOMAIN U, r \in DOMAIN U[d].amounts, d # c
      PROVE  BookedBefore(U, d, c)
  <2>1. CountedBefore(U, d, c)
    BY <1>2, <1>4 DEF CountsOf, CountedIn
  <2>2. /\ c \in Int /\ d \in Int /\ U[c].at \in Nat /\ U[d].at \in Nat
        /\ DayOf(U[c].at) \in Int /\ DayOf(U[d].at) \in Int
    BY <1>1, <1>3, BooksTypes
  <2>3. U[d].at <= U[c].at /\ DayOf(U[d].at) <= DayOf(U[c].at)
    BY <2>1, <2>2, DayOfGrows DEF CountedBefore
  <2>4. CASE d < c
    BY <2>2, <2>3, <2>4 DEF BookedBefore
  <2>5. CASE c < d
    <3>1. U[d].at < U[c].at
      BY <2>1, <2>2, <2>5 DEF CountedBefore
    <3>2. /\ counts[d].at < counts[c].at /\ c \in DOMAIN counts /\ d \in DOMAIN counts
          /\ r \in DOMAIN counts[c].amounts \cap DOMAIN counts[d].amounts
      BY <1>1, <1>3, <1>4, <3>1
    <3>3. DayOf(counts[c].at) # DayOf(counts[d].at)
      BY <2>5, <3>2 DEF EnteredOutOfOrder
    <3>4. DayOf(U[d].at) # DayOf(U[c].at)
      BY <1>1, <1>3, <3>3
    <3>5. QED
      BY <2>2, <2>3, <3>4 DEF BookedBefore
  <2>6. QED
    BY <1>4, <2>2, <2>4, <2>5
<1>5. LastCounted(U, DOMAIN U, c, r)
  BY <1>3, <1>4 DEF LastCounted
<1>6. QED
  BY <1>2, <1>3, <1>5 DEF Last

\* Rounded one by one or all at once: that makes half a cent for each of n payments, and
\* half a cent for their sum.
LEMMA RoundingsApart ==
  ASSUME NEW x \in Int, NEW y \in Int, NEW sum \in Int, NEW n \in Nat,
         2 * Abs(Parts * x - sum) <= Parts * n, 2 * Abs(Parts * y - sum) <= Parts
  PROVE  Abs(x - y) <= (n + 1) \div 2
<1>1. Parts \in Nat \ {0}
  BY PartsType
<1>2. PICK z \in Int : z = 2 * (x - y)
  OBVIOUS
<1>3. PICK X \in Int : X = Parts * x
  BY <1>1
<1>4. PICK Y \in Int : Y = Parts * y
  BY <1>1
<1>5. PICK N \in Int : N = Parts * n /\ Parts * (n + 1) = N + Parts
  BY <1>1
<1>6. Parts * z = 2 * (X - Y)
  BY <1>1, <1>2, <1>3, <1>4
<1>7. Parts * z <= Parts * (n + 1) /\ -(Parts * z) <= Parts * (n + 1)
  BY <1>1, <1>3, <1>4, <1>5, <1>6 DEF Abs
<1>8. \A i \in Int, j \in Int : Parts * i <= Parts * j => i <= j
  <2> SUFFICES ASSUME NEW i \in Int, NEW j \in Int, j < i PROVE ~(Parts * i <= Parts * j)
    OBVIOUS
  <2>1. PICK k \in Nat : i = j + 1 + k
    <3>1. i - j - 1 \in Nat /\ i = j + 1 + (i - j - 1)
      OBVIOUS
    <3>2. QED
      BY <3>1
  <2>2. Parts * i = Parts * j + Parts + Parts * k
    BY <1>1, <2>1
  <2>3. Parts * k \in Nat /\ Parts * j \in Int
    BY <1>1
  <2>4. QED
    BY <1>1, <2>2, <2>3
<1>9. z <= n + 1 /\ -z <= n + 1
  <2>1. Parts * (-z) = -(Parts * z)
    BY <1>1
  <2>2. -z \in Int /\ n + 1 \in Int
    OBVIOUS
  <2>3. QED
    BY <1>7, <1>8, <2>1, <2>2
<1>10. QED
  BY <1>2, <1>9 DEF Abs

\* The balance after the ledger's last row is the total that is computed without it, up to
\* the rounding of the payments since the last counts.
THEOREM LedgerTotalsAgree == Spec => []ClosingTotalsAgree
<1>1. ASSUME LedgerReady PROVE ClosingTotalsAgree
  <2> SUFFICES ASSUME ~EnteredOutOfOrder, NEW day \in Days, ~PaidOnLastCountDay(day)
               PROVE  Abs(finalCash(buildCashLedger(counts, payments, day))
                          - computeTotalMoney(counts, payments, day)) <=
                        RoundedApart(CountsUntil(counts, day),
                          assignTransactions(CountsUntil(counts, day),
                                             PaymentsUntil(payments, day)).to)
    BY DEF ClosingTotalsAgree
  <2>1. PICK U : U = CountsUntil(counts, day)
    OBVIOUS
  <2>2. PICK P : P = PaymentsUntil(payments, day)
    OBVIOUS
  <2>3. PICK a : a = assignTransactions(U, P)
    OBVIOUS
  <2>4. PICK b : b = buildCashLedger(counts, payments, day)
    OBVIOUS
  <2>5. PICK R : R = CountedRegisters(U)
    OBVIOUS
  <2>6. PICK anchors : anchors = AnchorsOf(U)
    OBVIOUS
  <2>7. Ledger(U, P, R, a.to, a.sums, b) /\ DOMAIN a.to = P
    BY <1>1, <2>1, <2>2, <2>3, <2>4, <2>5, LedgerKnown
  <2>8. Books(U) /\ Paid(P) /\ IsFiniteSet(R) /\ R \subseteq Nat
    BY <2>5, <2>7, RegistersTypes DEF Ledger
  <2>9. /\ DOMAIN a.sums = R
        /\ \A p \in P : a.to[p] \in R \cup {NoRegister}
        /\ ~PaidOnLastDay(R, anchors, P) =>
             \A r \in R : a.sums[r][Len(anchors[r])] = Amount(Pending(anchors, a.to, P, r))
    BY <2>6, <2>7 DEF Ledger, AssignInv
  <2>10. \A r \in R : anchors[r] = loadRegisterAnchors(U, r)
    BY <2>5, <2>6 DEF AnchorsOf
  <2>11. ~PaidOnLastDay(R, anchors, P)
    <3> SUFFICES ASSUME NEW r \in R, NEW p \in P, R = {r},
                        p.day = anchors[r][Len(anchors[r])].day
                 PROVE  FALSE
      BY DEF PaidOnLastDay
    <3>1. p \in payments
      BY <2>2 DEF PaymentsUntil
    <3>2. p.day = Last(loadRegisterAnchors(U, r)).day
      BY <2>10 DEF Last
    <3>3. PaidOnLastCountDay(day)
      BY <2>1, <2>5, <3>1, <3>2 DEF PaidOnLastCountDay
    <3>4. QED
      BY <3>3
  <2>12. b = BookAll(U, P, a.to)
    BY <2>7 DEF Ledger
  <2>13. DOMAIN b.expected = R
    BY <2>5, <2>7, <2>8, <2>9, <2>12, LedgerRegisters
  <2>14. ASSUME NEW r \in R
         PROVE  \E n \in Nat :
                  /\ n = Cardinality(Broken(PaidSinceLastCount(U, a.to, r)))
                  /\ b.expected[r] \in Int
                  /\ BalanceAfter(loadRegisterAnchors(U, r), a.sums[r]) \in Int
                  /\ Abs(b.expected[r] - BalanceAfter(loadRegisterAnchors(U, r), a.sums[r]))
                       <= (n + 1) \div 2
    <3>1. PICK c \in DOMAIN U : /\ LastCounted(U, DOMAIN U, c, r)
                                /\ Last(loadRegisterAnchors(U, r)) = AnchorOf(U[c], r)
      BY <1>1, <2>1, <2>5, LastCountAgrees
    <3>2. r \in Nat /\ r \in DOMAIN U[c].amounts
      BY <2>8, <3>1 DEF LastCounted
    <3>3. PICK S : S = PaidSince(a.to, P, r, DayOf(U[c].at))
      OBVIOUS
    <3>4. b.expected[r] \in Int /\ Rounded(b.expected[r] - U[c].amounts[r].after, S)
      BY <2>7, <3>1, <3>2, <3>3 DEF Ledger, LedgerInv
    <3>5. anchors[r][Len(anchors[r])].day = DayOf(U[c].at)
      BY <2>10, <3>1 DEF Last, AnchorOf
    <3>6. Pending(anchors, a.to, P, r) = S
      BY <3>3, <3>5 DEF Pending, PaidSince
    <3>7. a.sums[r][Len(anchors[r])] = Amount(S)
      BY <2>9, <2>11, <3>6
    <3>8. Last(loadRegisterAnchors(U, r)).after = U[c].amounts[r].after
      BY <3>1 DEF AnchorOf
    <3>9. PICK left \in Int : left = U[c].amounts[r].after
      BY <2>8, <3>2, BooksTypes
    <3>10. S \in SUBSET P
      BY <3>3 DEF PaidSince
    <3>11. Amounts(S) /\ Amount(S) \in Int
      BY <2>8, <3>10, PaidTypes, AmountType
    <3>12. BalanceAfter(loadRegisterAnchors(U, r), a.sums[r]) = rc(left, Amount(S))
      BY <2>10, <3>7, <3>8, <3>9 DEF BalanceAfter
    <3>13. PaidSinceLastCount(U, a.to, r) = S
      <4>1. Last(loadRegisterAnchors(U, r)).day = DayOf(U[c].at)
        BY <3>1 DEF AnchorOf
      <4>2. QED
        BY <2>7, <3>3, <4>1 DEF PaidSinceLastCount, PaidSince
    <3>14. PICK n \in Nat : n = Cardinality(Broken(S))
      BY <3>11, BrokenType DEF Amounts
    <3>15. PICK e \in Int : e = b.expected[r]
      BY <3>4
    <3>16. PICK t \in Int : t = rc(left, Amount(S))
      BY <3>11, RoundType
    <3>17. /\ 2 * Abs(Parts * (e - left) - Amount(S)) <= Parts * n
           /\ 2 * Abs(Parts * (t - left) - Amount(S)) <= Parts
      BY <3>4, <3>9, <3>11, <3>14, <3>15, <3>16, RoundType DEF Rounded
    <3>18. Abs((e - left) - (t - left)) <= (n + 1) \div 2
      BY <3>11, <3>17, RoundingsApart
    <3>19. (e - left) - (t - left) = e - t
      OBVIOUS
    <3>20. QED
      BY <3>12, <3>13, <3>14, <3>15, <3>16, <3>18, <3>19
  <2> DEFINE balance == [r \in DOMAIN a.sums |-> BalanceAfter(loadRegisterAnchors(U, r), a.sums[r])]
  <2>15. computeTotalMoney(counts, payments, day) = SumOver(balance, R)
    BY <2>1, <2>2, <2>3, <2>9 DEF computeTotalMoney, TotalCash
  <2>16. \A r \in R : balance[r] = BalanceAfter(loadRegisterAnchors(U, r), a.sums[r])
    BY <2>9
  <2> HIDE DEF balance
  <2>17. finalCash(b) = SumOver(b.expected, R)
    BY <2>13 DEF finalCash
  <2>18. PICK f : f = b.expected
    OBVIOUS
  <2> DEFINE apart == [r \in R |-> (Cardinality(Broken(PaidSinceLastCount(U, a.to, r))) + 1) \div 2]
  <2>19. RoundedApart(U, a.to) = SumOver(apart, R)
    BY <2>5 DEF RoundedApart
  <2>20. \A r \in R : apart[r] = (Cardinality(Broken(PaidSinceLastCount(U, a.to, r))) + 1) \div 2
    OBVIOUS
  <2> HIDE DEF apart
  <2>21. \A r \in R : /\ f[r] \in Int /\ balance[r] \in Int /\ apart[r] \in Int
                      /\ Abs(f[r] - balance[r]) <= apart[r]
    <3> SUFFICES ASSUME NEW r \in R
                 PROVE  /\ f[r] \in Int /\ balance[r] \in Int /\ apart[r] \in Int
                        /\ Abs(f[r] - balance[r]) <= apart[r]
      OBVIOUS
    <3>1. PICK n \in Nat :
            /\ n = Cardinality(Broken(PaidSinceLastCount(U, a.to, r)))
            /\ f[r] \in Int /\ balance[r] \in Int
            /\ Abs(f[r] - balance[r]) <= (n + 1) \div 2
      BY <2>14, <2>16, <2>18
    <3>2. apart[r] = (n + 1) \div 2 /\ (n + 1) \div 2 \in Int
      BY <2>20, <3>1
    <3>3. QED
      BY <3>1, <3>2
  <2>22. Abs(SumOver(f, R) - SumOver(balance, R)) <= SumOver(apart, R)
    BY <2>8, <2>21, SumsApart
  <2>23. QED
    BY <2>1, <2>2, <2>3, <2>4, <2>15, <2>17, <2>18, <2>19, <2>22
<1>2. QED
  BY <1>1, AlwaysReady, PTL

-----------------------------------------------------------------------------
(* What a report shows for a count, and what its page shows.               *)

\* What all registers together were paid between two counts.
PaidBetween(U, P, d, c) == {p \in P : p.day > DayOf(U[d].at) /\ p.day <= DayOf(U[c].at)}

\* What was found more, or less, than was left in all registers.
Gained(U, R, d, c) == SumOver([r \in R |-> U[c].amounts[r].before - U[d].amounts[r].after], R)

\* d is the count before c.
JustBefore(U, d, c) ==
  /\ d \in DOMAIN U /\ BookedBefore(U, d, c)
  /\ \A e \in DOMAIN U : BookedBefore(U, e, c) => e = d \/ BookedBefore(U, e, d)

\* If all counts cover the same registers, then the differences of a count come to what
\* the registers gained less what they were paid, each payment to the nearest cent,
\* whichever of them was paid.
LEMMA CountMisses ==
  ASSUME NoHalfCents, NEW U, Books(U), NEW P, Paid(P), NEW to, DOMAIN to = P,
         NEW c \in DOMAIN U, NEW m, Explained(U, to, c, m),
         NEW R, \A e \in DOMAIN U : DOMAIN U[e].amounts = R,
         R # {} => \A p \in P : to[p] \in R
  PROVE  /\ R = {} => Amount(Found(U, c, m)) = 0
         /\ (\A e \in DOMAIN U : ~BookedBefore(U, e, c)) => Amount(Found(U, c, m)) = 0
         /\ \A d : JustBefore(U, d, c) /\ R # {} =>
              Amount(Found(U, c, m)) = Gained(U, R, d, c) - Cents(PaidBetween(U, P, d, c))
<1> DEFINE S == {r \in R : EarlierCounts(U, c, r) # {}}
<1>1. S = Again(U, c) /\ Found(U, c, m) = Items(m, c, S)
  BY DEF Found, Again
<1>2. \A r \in R : EarlierCounts(U, c, r) = {e \in DOMAIN U : BookedBefore(U, e, c)}
  BY DEF EarlierCounts, CountsOf, CountedIn
<1>3. S = {} => Amount(Found(U, c, m)) = 0
  <2> SUFFICES ASSUME S = {} PROVE Amount(Found(U, c, m)) = 0
    OBVIOUS
  <2>1. Items(m, c, S) = {}
    BY DEF Items
  <2>2. Amount({}) = 0
    BY PaidTypes, AmountType
  <2>3. QED
    BY <1>1, <2>1, <2>2
<1>4. R = {} => S = {}
  OBVIOUS
<1>5. (\A e \in DOMAIN U : ~BookedBefore(U, e, c)) => S = {}
  BY <1>2
<1>6. ASSUME NEW d, JustBefore(U, d, c), R # {}
      PROVE  Amount(Found(U, c, m)) = Gained(U, R, d, c) - Cents(PaidBetween(U, P, d, c))
  <2>1. S = R
    BY <1>2, <1>6 DEF JustBefore
  <2>2. IsFiniteSet(R)
    BY BooksTypes
  <2>3. PICK Q : Q = PaidBetween(U, P, d, c)
    OBVIOUS
  <2>4. Q \in SUBSET P /\ Q = {p \in P : p.day > DayOf(U[d].at) /\ p.day <= DayOf(U[c].at)}
    BY <2>3 DEF PaidBetween
  <2>5. Amounts(Q) /\ \A p \in Q : to[p] \in R
    BY <1>6, <2>4, PaidTypes
  <2> DEFINE near == [p \in Q |-> Nearest(p.amount)]
             paid == [r \in R |-> SumOver(near, {p \in Q : to[p] = r})]
             gained == [r \in R |-> U[c].amounts[r].before - U[d].amounts[r].after]
  <2>6. ASSUME NEW r \in R
        PROVE  m[r] \in Int /\ paid[r] \in Int /\ gained[r] = m[r] + paid[r]
    <3>1. PreviousCount(U, c, r) = d
      <4>1. PICK e : e = PreviousCount(U, c, r)
        OBVIOUS
      <4>2. EarlierCounts(U, c, r) # {} /\ d \in EarlierCounts(U, c, r)
        BY <1>2, <1>6 DEF JustBefore
      <4>3. e \in EarlierCounts(U, c, r) /\ e \in DOMAIN U /\ (d = e \/ BookedBefore(U, d, e))
        BY <4>1, <4>2, PreviousIsLast
      <4>4. e = d \/ BookedBefore(U, e, d)
        BY <1>2, <1>6, <4>3 DEF JustBefore
      <4>5. d \in DOMAIN U
        BY <1>6 DEF JustBefore
      <4>6. BookedBefore(U, d, e) => ~BookedBefore(U, e, d)
        BY <4>3, <4>5, BookedInOrder
      <4>7. QED
        BY <4>1, <4>3, <4>4, <4>6
    <3>2. PICK T : T = {p \in Q : to[p] = r}
      OBVIOUS
    <3>3. PaidBetweenCounts(U, to, c, r) = T
      BY <2>4, <3>1, <3>2 DEF PaidBetweenCounts
    <3>4. m[r] \in Int /\ Rounded(Change(U, c, r) - m[r], T)
      BY <1>1, <2>1, <3>3 DEF Explained
    <3>5. Change(U, c, r) - m[r] = Cents(T)
      BY <3>4 DEF Rounded
    <3>6. paid[r] = Cents(T) /\ Cents(T) \in Int
      <4>1. T \subseteq Q /\ T \in SUBSET P
        BY <2>4, <3>2
      <4>2. Amounts(T)
        BY <4>1, PaidTypes
      <4>3. Cents(T) = SumOver(near, T) /\ Cents(T) \in Int
        BY <4>1, <4>2, CentsAdd
      <4>4. QED
        BY <3>2, <4>3
    <3>7. gained[r] = U[c].amounts[r].before - U[d].amounts[r].after
      OBVIOUS
    <3>8. d \in DOMAIN U /\ r \in DOMAIN U[c].amounts /\ r \in DOMAIN U[d].amounts
      BY <1>6 DEF JustBefore
    <3>9. U[c].amounts[r].before \in Int /\ U[d].amounts[r].after \in Int
      BY <3>8, BooksTypes
    <3>10. Change(U, c, r) = U[c].amounts[r].before - U[d].amounts[r].after
      BY <3>1 DEF Change
    <3> HIDE DEF paid, gained
    <3>11. QED
      BY <3>4, <3>5, <3>6, <3>7, <3>9, <3>10
  <2>7. Gained(U, R, d, c) = SumOver(gained, R)
    BY DEF Gained
  <2>8. Cents(Q) = SumOver(paid, R)
    <3>1. \A p \in Q : near[p] \in Int
      BY <2>5, CentsAdd
    <3>2. Cents(Q) = SumOver(near, Q)
      BY DEF Cents
    <3>3. IsFiniteSet(Q)
      BY <2>5 DEF Amounts
    <3> HIDE DEF near
    <3>4. SumOver(near, Q) = SumOver(paid, R)
      BY <2>2, <2>5, <3>1, <3>3, SumByRegister
    <3>5. QED
      BY <3>2, <3>4
  <2> HIDE DEF near, paid, gained, S
  <2>9. Amount(Items(m, c, R)) = SumOver(m, R)
    BY <2>2, <2>6, AmountOfItems
  <2>10. SumOver(gained, R) = SumOver(m, R) + SumOver(paid, R)
    BY <2>2, <2>6, SumOfBoth
  <2>11. SumOver(m, R) \in Int /\ SumOver(paid, R) \in Int
    BY <2>2, <2>6, SumType
  <2>12. Amount(Found(U, c, m)) = SumOver(m, R)
    BY <1>1, <2>1, <2>9
  <2>13. QED
    BY <2>3, <2>7, <2>8, <2>10, <2>11, <2>12
<1>7. QED
  BY <1>3, <1>4, <1>5, <1>6

\* What a report shows for a count is what the count found.
LEMMA ItemsAreFound ==
  ASSUME LedgerReady, NEW day, NEW U, U = CountsUntil(counts, day),
         NEW P, P = PaymentsUntil(payments, day), NEW c \in DOMAIN U
  PROVE  \E to, m :
           /\ buildCashDiscrepancyItems(counts, payments, day, c) = Amount(Found(U, c, m))
           /\ Explained(U, to, c, m) /\ DOMAIN to = P
           /\ CountedRegisters(U) # {} => \A p \in P : to[p] \in CountedRegisters(U)
<1>1. PICK a : a = assignTransactions(U, P)
  OBVIOUS
<1>2. PICK b : b = buildCashLedger(counts, payments, day)
  OBVIOUS
<1>3. Ledger(U, P, CountedRegisters(U), a.to, a.sums, b) /\ DOMAIN a.to = P
  BY <1>1, <1>2, LedgerKnown
<1>4. CountedRegisters(U) # {} => \A p \in P : a.to[p] \in CountedRegisters(U)
  BY <1>3 DEF Ledger, AssignInv
<1>5. PICK n : /\ b.differences = UNION {Found(U, e, n[e]) : e \in DOMAIN U}
               /\ \A e \in DOMAIN U : Explained(U, a.to, e, n[e])
  BY <1>3 DEF Ledger, LedgerInv
<1>6. {d \in b.differences : d.count = c} = Found(U, c, n[c])
  <2>1. PICK D : D = b.differences
    OBVIOUS
  <2>2. {d \in D : d.count = c} = Found(U, c, n[c])
    <3>1. D = AllFound(U, n)
      BY <1>5, <2>1 DEF AllFound
    <3>2. \A d : d \in AllFound(U, n) /\ d.count = c <=> d \in Found(U, c, n[c])
      BY FoundByCount
    <3>3. QED
      BY <3>1, <3>2
  <2>3. QED
    BY <2>1, <2>2
<1>7. buildCashDiscrepancyItems(counts, payments, day, c) = Amount(Found(U, c, n[c]))
  BY <1>2, <1>6 DEF buildCashDiscrepancyItems
<1>8. QED
  BY <1>3, <1>4, <1>5, <1>7

\* A report of any day shows for a count what the count's page shows, if all counts
\* until then cover the same registers.  Assumed: no payment is of exactly half a cent,
\* so that it comes to as many cents in the books of one register as in another's.
THEOREM LedgerReportAgreesWithPage ==
  ASSUME NoHalfCents
  PROVE  Spec => []ReportAgreesWithPage
<1>1. ASSUME LedgerReady PROVE ReportAgreesWithPage
  <2> SUFFICES ASSUME NEW day \in Days, NEW c \in DOMAIN CountsUntil(counts, day),
                      ~RegistersApart(day)
               PROVE  buildCashDiscrepancyItems(counts, payments, day, c) =
                        loadCashCountDiscrepancies(counts, payments, c)
    BY DEF ReportAgreesWithPage
  <2>1. PICK today : today = DayOf(counts[c].at)
    OBVIOUS
  <2>2. PICK U : U = CountsUntil(counts, day)
    OBVIOUS
  <2>3. PICK V : V = CountsUntil(counts, today)
    OBVIOUS
  <2>4. PICK P : P = PaymentsUntil(payments, day)
    OBVIOUS
  <2>5. PICK Q : Q = PaymentsUntil(payments, today)
    OBVIOUS
  <2>6. /\ Books(U) /\ Paid(P)
        /\ DOMAIN U = {d \in DOMAIN counts : DayOf(counts[d].at) <= day}
        /\ \A d \in DOMAIN U : U[d] = counts[d]
        /\ P = {p \in payments : p.day <= day}
    BY <1>1, <2>2, <2>4, UntilTypes
  <2>7. /\ Books(V) /\ Paid(Q)
        /\ DOMAIN V = {d \in DOMAIN counts : DayOf(counts[d].at) <= today}
        /\ \A d \in DOMAIN V : V[d] = counts[d]
        /\ Q = {p \in payments : p.day <= today}
    BY <1>1, <2>3, <2>5, UntilTypes
  <2>8. c \in DOMAIN U /\ c \in DOMAIN counts /\ today <= day /\ today \in Int
    BY <2>1, <2>2, <2>6, BooksTypes
  <2>9. c \in DOMAIN V
    BY <2>1, <2>7, <2>8
  <2>10. day \in Int
    <3>1. \A form \in CountForms : DayOf(form.at) \in Int
      BY FormsAssumption, DayOfGrows
    <3>2. \A p \in PaymentForms : p.day \in Int
      BY FormsAssumption
    <3>3. QED
      BY <3>1, <3>2 DEF Days
  <2>11. DOMAIN V \subseteq DOMAIN U
    <3>1. \A d \in DOMAIN V : DayOf(V[d].at) \in Int
      BY <2>7, BooksTypes
    <3>2. \A d \in DOMAIN V : DayOf(counts[d].at) \in Int
      BY <2>7, <3>1
    <3>3. QED
      BY <2>6, <2>7, <2>8, <2>10, <3>2
  <2>12. PICK R : R = DOMAIN counts[c].amounts
    OBVIOUS
  <2>13. /\ \A e \in DOMAIN U : DOMAIN U[e].amounts = R
         /\ \A e \in DOMAIN V : DOMAIN V[e].amounts = R
    BY <2>2, <2>6, <2>7, <2>8, <2>11, <2>12 DEF RegistersApart
  <2>14. CountedRegisters(U) = R /\ CountedRegisters(V) = R
    BY <2>8, <2>9, <2>13 DEF CountedRegisters
  <2>15. PICK to, m :
           /\ buildCashDiscrepancyItems(counts, payments, day, c) = Amount(Found(U, c, m))
           /\ Explained(U, to, c, m) /\ DOMAIN to = P
           /\ R # {} => \A p \in P : to[p] \in R
    BY <1>1, <2>2, <2>4, <2>8, <2>14, ItemsAreFound
  <2>16. PICK to2, m2 :
           /\ buildCashDiscrepancyItems(counts, payments, today, c) = Amount(Found(V, c, m2))
           /\ Explained(V, to2, c, m2) /\ DOMAIN to2 = Q
           /\ R # {} => \A p \in Q : to2[p] \in R
    BY <1>1, <2>3, <2>5, <2>9, <2>14, ItemsAreFound
  <2>17. loadCashCountDiscrepancies(counts, payments, c)
           = buildCashDiscrepancyItems(counts, payments, today, c)
    BY <2>1 DEF loadCashCountDiscrepancies
  <2>18. \A e \in DOMAIN U : BookedBefore(U, e, c) => e \in DOMAIN V
    <3> SUFFICES ASSUME NEW e \in DOMAIN U, BookedBefore(U, e, c) PROVE e \in DOMAIN V
      OBVIOUS
    <3>1. DayOf(U[e].at) \in Int /\ DayOf(U[c].at) = today
      BY <2>1, <2>6, <2>8, BooksTypes
    <3>2. DayOf(U[e].at) <= today
      BY <2>8, <3>1 DEF BookedBefore
    <3>3. QED
      BY <2>6, <2>7, <3>2
  <2>19. \A d, e \in DOMAIN V : BookedBefore(V, d, e) <=> BookedBefore(U, d, e)
    BY <2>6, <2>7, <2>11 DEF BookedBefore
  <2>20. CASE R = {} \/ \A e \in DOMAIN U : ~BookedBefore(U, e, c)
    <3>1. Amount(Found(U, c, m)) = 0
      BY <2>6, <2>8, <2>13, <2>15, <2>20, CountMisses
    <3>2. \A e \in DOMAIN V : R # {} => ~BookedBefore(V, e, c)
      BY <2>9, <2>11, <2>19, <2>20
    <3>3. Amount(Found(V, c, m2)) = 0
      BY <2>7, <2>9, <2>13, <2>16, <2>20, <3>2, CountMisses
    <3>4. QED
      BY <2>15, <2>16, <2>17, <3>1, <3>3
  <2>21. CASE R # {} /\ \E e \in DOMAIN U : BookedBefore(U, e, c)
    <3>1. PICK d : JustBefore(U, d, c)
      <4> DEFINE S == {e \in DOMAIN U : BookedBefore(U, e, c)}
      <4>1. S # {} /\ S \in SUBSET DOMAIN U
        BY <2>21
      <4>2. PICK d \in S : \A e \in S : e = d \/ BookedBefore(U, e, d)
        <5> HIDE DEF S
        <5>1. QED
          BY <2>6, <4>1, LastBooked
      <4>3. JustBefore(U, d, c)
        BY <4>2 DEF JustBefore
      <4>4. QED
        BY <4>3
    <3>2. d \in DOMAIN U /\ d \in DOMAIN V
      BY <2>18, <3>1 DEF JustBefore
    <3>3. JustBefore(V, d, c)
      BY <2>9, <2>11, <2>19, <3>1, <3>2 DEF JustBefore
    <3>4. Amount(Found(U, c, m)) = Gained(U, R, d, c) - Cents(PaidBetween(U, P, d, c))
      BY <2>6, <2>8, <2>13, <2>15, <2>21, <3>1, CountMisses
    <3>5. Amount(Found(V, c, m2)) = Gained(V, R, d, c) - Cents(PaidBetween(V, Q, d, c))
      BY <2>7, <2>9, <2>13, <2>16, <2>21, <3>3, CountMisses
    <3>6. U[c] = V[c] /\ U[d] = V[d]
      BY <2>6, <2>7, <2>8, <2>9, <3>2
    <3>7. Gained(U, R, d, c) = Gained(V, R, d, c)
      BY <3>6 DEF Gained
    <3>8. PaidBetween(U, P, d, c) = PaidBetween(V, Q, d, c)
      <4>1. DayOf(U[c].at) = today /\ DayOf(V[c].at) = today
        BY <2>1, <2>6, <2>8, <3>6
      <4>2. \A p \in payments : p.day \in Int
        BY <1>1, FormsAssumption DEF LedgerReady
      <4>3. \A p \in payments : p.day <= today => p.day <= day
        BY <2>8, <2>10, <4>2
      <4>4. QED
        BY <2>6, <2>7, <3>6, <4>1, <4>3 DEF PaidBetween
    <3>9. QED
      BY <2>15, <2>16, <2>17, <3>4, <3>5, <3>7, <3>8
  <2>22. QED
    BY <2>20, <2>21
<1>2. QED
  BY <1>1, AlwaysReady, PTL
=============================================================================
